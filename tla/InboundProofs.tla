---- MODULE InboundProofs ----
(***************************************************************************)
(* A completed QoS 2 handshake means a published message, and a message is *)
(* published once on a connection, for any number of messages,             *)
(* identifiers and connections.                                            *)
(*                                                                         *)
(* The broker tells the client that it has a message in three ways: by     *)
(* PUBREC, by an entry "in" that makes it answer a duplicate without       *)
(* publishing it, and by PUBREL.  The first inductive invariant says that  *)
(* all three are given only for identifiers whose messages are accounted   *)
(* for.  The second says of every packet on its way to the broker that it  *)
(* finds the entry it needs: a duplicate of a published message, because   *)
(* no PUBREL before it deletes the entry.                                  *)
(***************************************************************************)
EXTENDS InboundQoS2, FiniteSetTheorems, TLAPS

----------------------------------------------------------------------------
\* Packets and queues of packets.

\* p is somewhere in the queue s.
In(p, s) == \E i \in DOMAIN s : s[i] = p

\* What the actions send are packets.
LEMMA PacketType ==
    ASSUME NEW id \in PacketIds
    PROVE  \A t \in {"PUBLISH", "PUBREC", "PUBREL", "PUBCOMP", "PUBACK"} : Packet(t, id) \in PacketSet
  BY DEF Packet, PacketSet

\* So are the client's messages.
LEMMA PublicationType ==
    ASSUME NEW m \in Msgs, NEW d \in BOOLEAN
    PROVE  Publication(m, d) \in PacketSet
  BY InboundAssumption DEF Publication, PacketSet

\* The queue after one more packet.
LEMMA Appended ==
    ASSUME NEW s \in Seq(PacketSet), NEW p \in PacketSet
    PROVE  /\ Append(s, p) \in Seq(PacketSet)
           /\ \A q : In(q, Append(s, p)) => q = p \/ In(q, s)
<1>1. Append(s, p) \in Seq(PacketSet)
  OBVIOUS
<1>2. ASSUME NEW i \in DOMAIN Append(s, p)
      PROVE  Append(s, p)[i] = p \/ In(Append(s, p)[i], s)
  BY DEF In
<1> QED
  BY <1>1, <1>2 DEF In

\* The queue after its head is taken.
LEMMA Taken ==
    ASSUME NEW s \in Seq(PacketSet), s # <<>>
    PROVE  /\ Head(s) \in PacketSet /\ Tail(s) \in Seq(PacketSet)
           /\ In(Head(s), s)
           /\ \A q : In(q, Tail(s)) => In(q, s)
<1>1. Head(s) \in PacketSet /\ Tail(s) \in Seq(PacketSet) /\ In(Head(s), s)
  BY DEF In
<1>2. ASSUME NEW i \in DOMAIN Tail(s)
      PROVE  i + 1 \in DOMAIN s /\ Tail(s)[i] = s[i + 1]
  OBVIOUS
<1> QED
  BY <1>1, <1>2 DEF In

\* Nothing is in the empty queue.
LEMMA Empty == <<>> \in Seq(PacketSet) /\ \A p : ~ In(p, <<>>)
  BY DEF In

\* What a connection sends of a record: packets, PUBLISH each of them.
LEMMA Replayed ==
    ASSUME NEW S \in SUBSET PacketIds, NEW s \in [1..Cardinality(S) -> PacketIds]
    PROVE  LET q == [i \in DOMAIN s |-> Packet("PUBLISH", s[i])]
           IN  q \in Seq(PacketSet) /\ \A p : In(p, q) => p.type = "PUBLISH" /\ p.msg = None
<1>1. Cardinality(S) \in Nat
  BY InboundAssumption, FS_Subset, FS_CardinalityType
<1>2. \A i \in DOMAIN s : s[i] \in PacketIds /\ Packet("PUBLISH", s[i]) \in PacketSet
  BY PacketType
<1>3. [i \in DOMAIN s |-> Packet("PUBLISH", s[i])] \in Seq(PacketSet)
  BY <1>1, <1>2
<1> QED
  BY <1>2, <1>3 DEF In, Packet

----------------------------------------------------------------------------
\* The types, with what they need: nothing is shared without a connection,
\* and the broker sends no PUBACK.
TypeInv ==
    /\ TypeOK
    /\ link # "up" => shared = {}
    /\ \A p : In(p, down) => p.type # "PUBACK"

\* The types hold at the start ...
LEMMA InitType == Init => TypeInv
<1> SUFFICES ASSUME Init PROVE TypeInv
  OBVIOUS
<1>1. up = <<>> /\ down = <<>>
  BY DEF Init
<1> QED
  BY <1>1, InboundAssumption, Empty DEF Init, TypeInv, TypeOK, Nothing, Entries, Conns

\* The packet that is read, and the queue it leaves.
LEMMA ReadsType ==
    ASSUME TypeInv, NEW t, Reads(t)
    PROVE  /\ Head(up) \in PacketSet /\ Head(up).id \in PacketIds /\ Head(up).type = t
           /\ Head(up).msg \in Msgs \cup {None}
           /\ In(Head(up), up)
           /\ up' \in Seq(PacketSet) /\ \A q : In(q, up') => In(q, up)
           /\ link = "up" /\ conn \in Conns /\ publishing[conn] = None
<1>1. up \in Seq(PacketSet) /\ up # <<>> /\ up' = Tail(up)
  BY DEF TypeInv, TypeOK, Reads
<1>2. conn \in Conns
  BY InboundAssumption DEF TypeInv, TypeOK, Reads, Conns
<1>3. Head(up) \in PacketSet /\ In(Head(up), up) /\ up' \in Seq(PacketSet) /\ \A q : In(q, up') => In(q, up)
  BY <1>1, Taken
<1>4. \A p \in PacketSet : p.id \in PacketIds /\ p.msg \in Msgs \cup {None}
  BY DEF PacketSet
<1> QED
  BY <1>2, <1>3, <1>4 DEF Reads

\* ... and after every step.
LEMMA NextType == TypeInv /\ [Next]_vars => TypeInv'
<1> SUFFICES ASSUME TypeInv, [Next]_vars PROVE TypeInv'
  OBVIOUS
<1>0. up \in Seq(PacketSet) /\ down \in Seq(PacketSet)
  BY DEF TypeInv, TypeOK
<1>1. ASSUME Connect PROVE TypeInv'
  <2>1. down' \in Seq(PacketSet) /\ \A p : In(p, down') => p.type # "PUBACK"
    BY <1>1, Replayed, ZenonT(40) DEF Connect
  <2>2. up' \in Seq(PacketSet) /\ conn + 1 \in Conns /\ conn' \in 0..MaxConns /\ conn' > 0
    BY <1>1, Empty, InboundAssumption DEF Connect, TypeInv, TypeOK, Conns
  <2> QED
    BY <1>1, <2>1, <2>2 DEF Connect, TypeInv, TypeOK, Entries
<1>2. ASSUME Close PROVE TypeInv'
  BY <1>2, Empty DEF Close, TypeInv, TypeOK, Nothing, Entries, clientVars, historyVars
<1>3. ASSUME Restart PROVE TypeInv'
  BY <1>3, Empty DEF Restart, TypeInv, TypeOK, Nothing, Entries, clientVars
<1>4. ASSUME HandlePublish PROVE TypeInv'
  <2> DEFINE p == Head(up)
  <2>1. Reads("PUBLISH")
    BY <1>4 DEF HandlePublish
  <2>2. Packet("PUBREC", p.id) \in PacketSet /\ Packet("PUBREC", p.id).type = "PUBREC"
    BY <2>1, ReadsType, PacketType DEF Packet
  <2>3. down' \in Seq(PacketSet) /\ \A q : In(q, down') => q.type # "PUBACK"
    BY <1>0, <1>4, <2>2, Appended DEF HandlePublish, emit, TypeInv
  <2>4. /\ store' \in [PacketIds -> Entries] /\ publishing' \in [Conns -> Msgs \cup {None}]
        /\ shared' \subseteq shared /\ \A id \in shared' : store'[id] = store[id]
    <3>1. CASE UNCHANGED <<store, shared, publishing>>
      BY <3>1 DEF TypeInv, TypeOK
    <3>2. CASE /\ store' = [store EXCEPT ![p.id] = "in"] /\ shared' = shared \ {p.id}
               /\ publishing' = [publishing EXCEPT ![conn] = p.msg]
      <4>1. p.id \in PacketIds /\ p.msg \in Msgs \cup {None}
        BY <2>1, ReadsType
      <4> QED
        BY <3>2, <4>1 DEF TypeInv, TypeOK, Entries
    <3> QED
      BY <1>4, <3>1, <3>2 DEF HandlePublish, StoreInbound
  <2> QED
    BY <1>4, <2>1, <2>3, <2>4, ReadsType DEF HandlePublish, TypeInv, TypeOK, clientVars, historyVars
<1>5. ASSUME HandlePubRel PROVE TypeInv'
  <2> DEFINE p == Head(up)
  <2>1. Reads("PUBREL")
    BY <1>5 DEF HandlePubRel
  <2>2. Packet("PUBCOMP", p.id) \in PacketSet /\ Packet("PUBCOMP", p.id).type = "PUBCOMP"
    BY <2>1, ReadsType, PacketType DEF Packet
  <2>3. down' \in Seq(PacketSet) /\ \A q : In(q, down') => q.type # "PUBACK"
    BY <1>0, <1>5, <2>2, Appended DEF HandlePubRel, emit, TypeInv
  <2>4. /\ store' \in [PacketIds -> Entries] /\ retry' \in [PacketIds -> Entries \cup {"comp"}]
        /\ shared' \subseteq shared /\ \A id \in shared' : store'[id] = store[id] /\ retry'[id] = retry[id]
    BY <1>5, <2>1, ReadsType DEF HandlePubRel, TypeInv, TypeOK, Entries
  <2> QED
    BY <1>5, <2>1, <2>3, <2>4, ReadsType DEF HandlePubRel, TypeInv, TypeOK, clientVars, historyVars
<1>6. ASSUME HandleAck PROVE TypeInv'
  <2> DEFINE p == Head(up)
  <2>1. Reads("PUBACK") \/ Reads("PUBCOMP")
    BY <1>6 DEF HandleAck
  <2>2. p.id \in PacketIds /\ up' \in Seq(PacketSet) /\ link = "up"
    BY <2>1, ReadsType
  <2>3. /\ store' \in [PacketIds -> Entries] /\ record' = store' /\ retry' \in [PacketIds -> Entries \cup {"comp"}]
        /\ shared' \subseteq shared /\ \A id \in shared' : store'[id] = store[id] /\ retry'[id] = retry[id]
    BY <1>6, <2>2 DEF HandleAck, Acknowledged, TypeInv, TypeOK, Entries
  <2> QED
    BY <1>6, <2>2, <2>3 DEF HandleAck, TypeInv, TypeOK, clientVars, historyVars
<1>7. ASSUME NEW c \in Conns, Publish(c) PROVE TypeInv'
  <2>1. publishing[c] \in Msgs /\ publishing' \in [Conns -> Msgs \cup {None}]
    BY <1>7 DEF Publish, TypeInv, TypeOK
  <2>2. published' \in [Conns -> [Msgs -> Nat]] /\ refused' \subseteq Msgs
    <3>1. CASE published' = [published EXCEPT ![c][publishing[c]] = @ + 1] /\ refused' = refused
      BY <2>1, <3>1 DEF TypeInv, TypeOK
    <3>2. CASE published' = published /\ refused' = refused \cup {publishing[c]}
      BY <2>1, <3>2 DEF TypeInv, TypeOK
    <3> QED
      BY <1>7, <3>1, <3>2 DEF Publish
  <2> QED
    BY <1>7, <2>1, <2>2 DEF Publish, TypeInv, TypeOK, sessionVars, clientVars
<1>8. ASSUME NEW id \in PacketIds, Retry(id) PROVE TypeInv'
  <2>1. PICK t \in {"PUBLISH", "PUBREL", "PUBCOMP"} : down' = Append(down, Packet(t, id))
    BY <1>8 DEF Retry, emit
  <2>2. Packet(t, id) \in PacketSet /\ Packet(t, id).type # "PUBACK"
    BY PacketType DEF Packet
  <2>3. down' \in Seq(PacketSet) /\ \A q : In(q, down') => q.type # "PUBACK"
    BY <1>0, <2>1, <2>2, Appended DEF TypeInv
  <2> QED
    BY <1>8, <2>3, InboundAssumption DEF Retry, TypeInv, TypeOK, sessionVars, clientVars, historyVars
<1>9. ASSUME NEW id \in PacketIds, Deliver(id) PROVE TypeInv'
  <2>1. Packet("PUBLISH", id) \in PacketSet /\ Packet("PUBLISH", id).type # "PUBACK"
    BY PacketType DEF Packet
  <2>2. down' \in Seq(PacketSet) /\ \A q : In(q, down') => q.type # "PUBACK"
    BY <1>0, <1>9, <2>1, Appended DEF Deliver, emit, TypeInv
  <2> QED
    BY <1>9, <2>2 DEF Deliver, TypeInv, TypeOK, sessionVars, clientVars
<1>10. ASSUME NEW id \in PacketIds, Queue(id) PROVE TypeInv'
  BY <1>10 DEF Queue, TypeInv, TypeOK, Entries, clientVars
<1>11. ASSUME ClientReceive PROVE TypeInv'
  <2> DEFINE p == Head(down)
  <2>1. /\ p \in PacketSet /\ p.id \in PacketIds /\ In(p, down) /\ down' \in Seq(PacketSet)
        /\ \A q : In(q, down') => In(q, down)
    BY <1>0, <1>11, Taken DEF ClientReceive, PacketSet
  <2>2. p.type \in {"PUBLISH", "PUBREL", "PUBREC", "PUBCOMP"}
    BY <2>1 DEF TypeInv, PacketSet
  <2>3. up' \in Seq(PacketSet)
    BY <1>0, <1>11, <2>1, <2>2, PacketType, Appended DEF ClientReceive, Answer, clientVars
  <2>4. /\ client' \in [Msgs -> {"idle", "publishing", "releasing", "done"}]
        /\ unsent' \subseteq Msgs /\ \A m \in unsent' : client'[m] \in {"publishing", "releasing"}
    <3>1. CASE UNCHANGED clientVars
      BY <3>1 DEF TypeInv, TypeOK, clientVars
    <3>2. CASE p.type = "PUBREC"
      BY <1>11, <3>2 DEF ClientReceive, TypeInv, TypeOK
    <3>3. CASE p.type = "PUBCOMP"
      <4>1. /\ client' = [m \in Msgs |-> IF m \in InProgress(p.id) /\ client[m] = "releasing" THEN "done" ELSE client[m]]
            /\ unsent' = {m \in unsent : client'[m] # "done"}
        BY <1>11, <3>3 DEF ClientReceive
      <4> QED
        BY <4>1 DEF TypeInv, TypeOK
    <3> QED
      BY <1>11, <2>2, <3>1, <3>2, <3>3 DEF ClientReceive
  <2> QED
    BY <1>11, <2>1, <2>3, <2>4 DEF ClientReceive, TypeInv, TypeOK, sessionVars, historyVars
<1>12. ASSUME NEW m \in Msgs, ClientResume(m) PROVE TypeInv'
  <2>1. up' \in Seq(PacketSet)
    BY <1>0, <1>12, PublicationType, PacketType, Appended, InboundAssumption DEF ClientResume, Again, Answer
  <2> QED
    BY <1>12, <2>1 DEF ClientResume, TypeInv, TypeOK, sessionVars, historyVars
<1>13. ASSUME NEW m \in Msgs, ClientPublish(m) PROVE TypeInv'
  <2>1. up' \in Seq(PacketSet)
    BY <1>0, <1>13, PublicationType, Appended DEF ClientPublish, Answer
  <2> QED
    BY <1>13, <2>1 DEF ClientPublish, TypeInv, TypeOK, sessionVars, historyVars
<1>14. ASSUME NEW m \in Msgs, ClientResend(m) PROVE TypeInv'
  <2>1. up' \in Seq(PacketSet)
    BY <1>0, <1>14, PublicationType, PacketType, Appended, InboundAssumption DEF ClientResend, Again, Answer
  <2> QED
    BY <1>14, <2>1, InboundAssumption DEF ClientResend, TypeInv, TypeOK, sessionVars, clientVars, historyVars
<1>15. ASSUME UNCHANGED vars PROVE TypeInv'
  BY <1>15 DEF vars, TypeInv, TypeOK, sessionVars, clientVars, historyVars
<1> QED
  BY <1>1, <1>2, <1>3, <1>4, <1>5, <1>6, <1>7, <1>8, <1>9, <1>10, <1>11, <1>12, <1>13, <1>14, <1>15 DEF Next, Listen, Client

\* Every packet, session entry and history has its type in every state.
THEOREM InboundTypes == Spec => []TypeOK
<1>1. TypeInv => TypeOK
  BY DEF TypeInv
<1> QED
  BY <1>1, InitType, NextType, PTL DEF Spec

----------------------------------------------------------------------------
\* The inductive invariant of CompletedWasPublished.

\* What became of a message, in the words of CompletedWasPublished.
Accounted(m) ==
    \/ \E c \in Conns : published[c][m] > 0 \/ publishing[c] = m
    \/ m \in refused \cup killed
    \/ PacketID[m] \in used
    \/ \E n \in Msgs \ {m} : PacketID[n] = PacketID[m] /\ client[n] = "done"

\* The messages the client has begun under an identifier.
Begun(id) == {m \in Msgs : PacketID[m] = id /\ client[m] # "idle"}

\* An identifier that may be acknowledged.
Settled(id) == id \in used \/ (Begun(id) # {} /\ \A m \in Begun(id) : Accounted(m))

\* A message past PUBREC is accounted for.
AnsweredAccounted == \A m \in Msgs : client[m] \in {"releasing", "done"} => Accounted(m)

\* The client has one message in progress under an identifier.
OneInProgress ==
    \A m, n \in Msgs : m # n /\ PacketID[m] = PacketID[n]
        => ~ (client[m] \in {"publishing", "releasing"} /\ client[n] \in {"publishing", "releasing"})

\* An entry by which a duplicate is recognised stands for a settled identifier.
EntriesSettled ==
    \A id \in PacketIds :
        /\ "in" \in {store[id], record[id], retry[id]} => Settled(id)
        /\ "out" \in {store[id], record[id]} => id \in used

\* A PUBLISH under way is of a message the client has begun.
PublishBegun == \A p : In(p, up) /\ p.type = "PUBLISH" => p.msg \in Begun(p.id)

\* PUBREC and PUBREL are sent for settled identifiers.
AnswersSettled == \A p : In(p, down) /\ p.type = "PUBREC" => Settled(p.id)

\* Together.
HandshakeInv == TypeInv /\ AnsweredAccounted /\ OneInProgress /\ EntriesSettled /\ PublishBegun /\ AnswersSettled

\* The invariant holds at the start ...
LEMMA InitHandshake == Init => HandshakeInv
<1> SUFFICES ASSUME Init PROVE HandshakeInv
  OBVIOUS
<1>1. up = <<>> /\ down = <<>>
  BY DEF Init
<1>2. PublishBegun /\ AnswersSettled
  BY <1>1, Empty DEF PublishBegun, AnswersSettled
<1>3. AnsweredAccounted /\ OneInProgress /\ EntriesSettled
  BY DEF Init, Nothing, AnsweredAccounted, OneInProgress, EntriesSettled
<1> QED
  BY <1>2, <1>3, InitType DEF HandshakeInv

\* What the client takes from the broker: nothing, PUBREC or PUBCOMP.
LEMMA Received ==
    ASSUME TypeInv, ClientReceive
    PROVE  LET p == Head(down) IN
           /\ In(p, down) /\ p \in PacketSet /\ \A q : In(q, down') => In(q, down)
           /\ \/ client' = client
              \/ /\ p.type = "PUBREC"
                 /\ client' = [n \in Msgs |-> IF n \in InProgress(p.id) THEN "releasing" ELSE client[n]]
              \/ client' = [n \in Msgs |-> IF n \in InProgress(p.id) /\ client[n] = "releasing" THEN "done" ELSE client[n]]
           /\ \A q : In(q, up') => q.type # "PUBLISH" \/ In(q, up)
<1> DEFINE p == Head(down)
<1>1. down \in Seq(PacketSet) /\ down # <<>> /\ up \in Seq(PacketSet)
  BY DEF ClientReceive, TypeInv, TypeOK
<1>2. In(p, down) /\ p \in PacketSet /\ \A q : In(q, down') => In(q, down)
  BY <1>1, Taken DEF ClientReceive
<1>3. p.type \in {"PUBLISH", "PUBREL", "PUBREC", "PUBCOMP"} /\ p.id \in PacketIds
  BY <1>2 DEF TypeInv, PacketSet
<1>4. up' = up \/ \E k \in {"PUBACK", "PUBCOMP", "PUBREL"} : up' = Append(up, Packet(k, p.id))
  BY <1>3 DEF ClientReceive, Answer
<1>5. ASSUME NEW k \in {"PUBACK", "PUBCOMP", "PUBREL"}, up' = Append(up, Packet(k, p.id))
      PROVE  \A q : In(q, up') => q.type # "PUBLISH" \/ In(q, up)
  <2>1. Packet(k, p.id) \in PacketSet /\ Packet(k, p.id).type # "PUBLISH"
    BY <1>3, PacketType DEF Packet
  <2> QED
    BY <1>1, <1>5, <2>1, Appended
<1>6. \/ client' = client
      \/ /\ p.type = "PUBREC"
         /\ client' = [n \in Msgs |-> IF n \in InProgress(p.id) THEN "releasing" ELSE client[n]]
      \/ client' = [n \in Msgs |-> IF n \in InProgress(p.id) /\ client[n] = "releasing" THEN "done" ELSE client[n]]
  BY <1>3 DEF ClientReceive, clientVars
<1> QED
  BY <1>2, <1>4, <1>5, <1>6

\* Nothing that accounts for a message is undone: a finished publication moves
\* from publishing to published, refused or killed, and done stays done.
LEMMA AccountedStays ==
    ASSUME TypeInv, [Next]_vars, NEW m \in Msgs, Accounted(m)
    PROVE  Accounted(m)'
<1>1. used \subseteq used' /\ refused \subseteq refused' /\ killed \subseteq killed'
  BY DEF Next, Listen, Client, Connect, Close, Restart, HandlePublish, HandlePubRel, HandleAck, Publish, Retry, Deliver,
         Queue, ClientReceive, ClientResume, ClientPublish, ClientResend, vars, historyVars
<1>2. \A n \in Msgs : client[n] = "done" => client'[n] = "done"
  <2>1. CASE ClientReceive
    BY <2>1, Received DEF InProgress
  <2>2. ASSUME NEW n \in Msgs, ClientPublish(n) PROVE \A k \in Msgs : client[k] = "done" => client'[k] = "done"
    BY <2>2 DEF ClientPublish, TypeInv, TypeOK
  <2>3. CASE UNCHANGED client
    BY <2>3
  <2> QED
    BY <2>1, <2>2, <2>3
    DEF Next, Listen, Client, Connect, Close, Restart, HandlePublish, HandlePubRel, HandleAck, Publish, Retry, Deliver,
        Queue, ClientResume, ClientResend, vars, clientVars
<1>3. ASSUME NEW c \in Conns, published[c][m] > 0 \/ publishing[c] = m
      PROVE  published'[c][m] > 0 \/ publishing'[c] = m \/ m \in refused' \cup killed'
  <2>1. CASE Restart
    BY <1>3, <2>1, InboundAssumption DEF Restart
  <2>2. CASE HandlePublish
    <3>1. Reads("PUBLISH") /\ published' = published
      BY <2>2 DEF HandlePublish, historyVars
    <3>2. publishing' = publishing \/ publishing' = [publishing EXCEPT ![conn] = Head(up).msg]
      BY <2>2 DEF HandlePublish, StoreInbound
    <3>3. publishing[conn] = None /\ None # m
      BY <3>1, InboundAssumption DEF Reads
    <3> QED
      BY <1>3, <3>1, <3>2, <3>3 DEF TypeInv, TypeOK
  <2>3. ASSUME NEW d \in Conns, Publish(d)
        PROVE  published'[c][m] > 0 \/ publishing'[c] = m \/ m \in refused' \cup killed'
    <3>1. publishing[d] \in Msgs /\ publishing' = [publishing EXCEPT ![d] = None]
      BY <2>3 DEF Publish, TypeInv, TypeOK
    <3>2. CASE published' = [published EXCEPT ![d][publishing[d]] = @ + 1]
      BY <1>3, <3>1, <3>2 DEF TypeInv, TypeOK
    <3>3. CASE published' = published /\ refused' = refused \cup {publishing[d]}
      BY <1>3, <3>1, <3>3 DEF TypeInv, TypeOK
    <3> QED
      BY <2>3, <3>2, <3>3 DEF Publish
  <2>4. CASE UNCHANGED <<published, publishing>>
    BY <1>3, <2>4
  <2> QED
    BY <2>1, <2>2, <2>3, <2>4
    DEF Next, Listen, Client, Connect, Close, HandlePubRel, HandleAck, Retry, Deliver,
        Queue, ClientReceive, ClientPublish, ClientResume, ClientResend, vars, historyVars
<1> QED
  BY <1>1, <1>2, <1>3 DEF Accounted

\* Only ClientPublish begins a message.
LEMMA BegunStays ==
    ASSUME TypeInv, [Next]_vars
    PROVE  \/ \A id : Begun(id)' = Begun(id)
           \/ \E m \in Msgs : /\ ClientPublish(m)
                              /\ \A id : Begun(id)' = IF id = PacketID[m] THEN Begun(id) \cup {m} ELSE Begun(id)
<1>1. ASSUME NEW m \in Msgs, ClientPublish(m)
      PROVE  \A id : Begun(id)' = IF id = PacketID[m] THEN Begun(id) \cup {m} ELSE Begun(id)
  BY <1>1 DEF ClientPublish, Begun, TypeInv, TypeOK
<1>2. CASE ClientReceive
  BY <1>2, Received DEF InProgress, Begun
<1>3. CASE UNCHANGED client
  BY <1>3 DEF Begun
<1> QED
  BY <1>1, <1>2, <1>3
  DEF Next, Listen, Client, Connect, Close, Restart, HandlePublish, HandlePubRel, HandleAck, Publish, Retry, Deliver,
      Queue, ClientResume, ClientResend, vars, clientVars

\* A settled identifier stays settled: when the client uses it again, the
\* message it has completed accounts for the new one.
LEMMA SettledStays ==
    ASSUME HandshakeInv, [Next]_vars, NEW id, Settled(id)
    PROVE  Settled(id)'
<1> USE DEF HandshakeInv
<1>1. used \subseteq used'
  BY DEF Next, Listen, Client, Connect, Close, Restart, HandlePublish, HandlePubRel, HandleAck, Publish, Retry, Deliver,
         Queue, ClientReceive, ClientResume, ClientPublish, ClientResend, vars, historyVars
<1>2. \A m \in Msgs : Accounted(m) => Accounted(m)'
  BY AccountedStays
<1>3. Begun(id) \subseteq Msgs
  BY DEF Begun
<1>4. CASE id \in used
  BY <1>1, <1>4 DEF Settled
<1>5. CASE id \notin used /\ Begun(id)' = Begun(id)
  BY <1>2, <1>3, <1>5 DEF Settled
<1>6. ASSUME id \notin used, NEW m \in Msgs, ClientPublish(m), id = PacketID[m], Begun(id)' = Begun(id) \cup {m}
      PROVE  Settled(id)'
  <2>1. Begun(id) # {} /\ \A n \in Begun(id) : Accounted(n)
    BY <1>6 DEF Settled
  <2>2. PICK n \in Begun(id) : TRUE
    BY <2>1
  <2>3. n \in Msgs \ {m} /\ PacketID[n] = PacketID[m] /\ client[n] = "done" /\ client'[n] = "done"
    BY <1>6, <2>2 DEF Begun, ClientPublish, TypeInv, TypeOK
  <2>4. Accounted(m)'
    BY <2>3 DEF Accounted
  <2> QED
    BY <1>2, <1>3, <1>6, <2>1, <2>4 DEF Settled
<1> QED
  BY <1>4, <1>5, <1>6, BegunStays

\* PUBLISH settles its identifier before it is answered: the message is about
\* to be published, or is recognised by an entry.
LEMMA PublishSettles ==
    ASSUME HandshakeInv, HandlePublish, NEW p \in PacketSet, p = Head(up)
    PROVE  Settled(p.id)'
<1> USE DEF HandshakeInv
<1>1. Reads("PUBLISH") /\ [Next]_vars
  BY DEF HandlePublish, Next, Listen
<1>2. p.id \in PacketIds /\ p \in PacketSet /\ p.type = "PUBLISH" /\ In(p, up) /\ conn \in Conns
  BY <1>1, ReadsType
<1>3. p.msg \in Begun(p.id)
  BY <1>2 DEF PublishBegun
<1>4. CASE p.dup /\ store[p.id] # "none"
  <2>1. store[p.id] \in {"in", "out"}
    BY <1>2, <1>4 DEF TypeInv, TypeOK, Entries
  <2>2. Settled(p.id)
    BY <1>2, <2>1 DEF EntriesSettled, Settled
  <2> QED
    BY <1>1, <1>2, <2>2, SettledStays
<1>5. CASE ~ (p.dup /\ store[p.id] # "none")
  <2>1. publishing' = [publishing EXCEPT ![conn] = p.msg] /\ client' = client
    BY <1>5 DEF HandlePublish, StoreInbound, clientVars
  <2>2. publishing'[conn] = p.msg
    BY <1>2, <2>1 DEF TypeInv, TypeOK
  <2>3. Accounted(p.msg)'
    BY <1>2, <2>2 DEF Accounted
  <2>4. Begun(p.id)' = Begun(p.id)
    BY <2>1 DEF Begun
  <2>5. ASSUME NEW n \in Begun(p.id), n # p.msg PROVE Accounted(n)'
    <3>1. /\ n \in Msgs /\ p.msg \in Msgs /\ PacketID[n] = PacketID[p.msg]
          /\ client[n] \in {"publishing", "releasing", "done"}
          /\ client[p.msg] \in {"publishing", "releasing", "done"}
      BY <1>3, <2>5 DEF Begun, TypeInv, TypeOK
    <3>2. CASE client[p.msg] = "done"
      BY <2>1, <2>5, <3>1, <3>2 DEF Accounted
    <3>3. CASE client[p.msg] # "done"
      <4>1. Accounted(n)
        BY <2>5, <3>1, <3>3 DEF OneInProgress, AnsweredAccounted
      <4> QED
        BY <1>1, <3>1, <4>1, AccountedStays
    <3> QED
      BY <3>2, <3>3
  <2> QED
    BY <1>2, <1>3, <2>3, <2>4, <2>5 DEF Settled
<1> QED
  BY <1>4, <1>5

\* ... and after every step.
LEMMA NextHandshake == HandshakeInv /\ [Next]_vars => HandshakeInv'
<1> SUFFICES ASSUME HandshakeInv, [Next]_vars PROVE HandshakeInv'
  OBVIOUS
<1> USE DEF HandshakeInv
<1>0. TypeInv' /\ (\A m \in Msgs : Accounted(m) => Accounted(m)') /\ (\A id : Settled(id) => Settled(id)')
  BY NextType, AccountedStays, SettledStays
<1>1. \A id : Begun(id) \subseteq Begun(id)'
  BY BegunStays
<1>2. up \in Seq(PacketSet) /\ down \in Seq(PacketSet)
  BY DEF TypeInv, TypeOK
<1>3. AnsweredAccounted' /\ OneInProgress'
  <2>1. CASE client' = client
    BY <1>0, <2>1 DEF AnsweredAccounted, OneInProgress
  <2>2. ASSUME NEW m \in Msgs, ClientPublish(m) PROVE AnsweredAccounted' /\ OneInProgress'
    <3>1. /\ client' = [client EXCEPT ![m] = "publishing"] /\ client' \in [Msgs -> {"idle", "publishing", "releasing", "done"}]
          /\ \A n \in Msgs : PacketID[n] = PacketID[m] => client[n] \in {"idle", "done"}
      BY <2>2, <1>0 DEF ClientPublish, TypeInv, TypeOK
    <3>2. \A n \in Msgs : client'[n] = IF n = m THEN "publishing" ELSE client[n]
      BY <3>1 DEF TypeInv, TypeOK
    <3> QED
      BY <1>0, <3>1, <3>2 DEF AnsweredAccounted, OneInProgress
  <2>3. CASE ClientReceive
    <3>1. PICK p \in PacketSet : p = Head(down) /\ In(p, down)
      BY <2>3, Received
    <3>2. CASE p.type = "PUBREC" /\ client' = [n \in Msgs |-> IF n \in InProgress(p.id) THEN "releasing" ELSE client[n]]
      <4>1. ASSUME NEW n \in InProgress(p.id) PROVE Accounted(n)
        <5>1. Settled(p.id) /\ n \in Begun(p.id) /\ PacketID[n] = p.id
          BY <3>1, <3>2 DEF AnswersSettled, InProgress, Begun
        <5> QED
          BY <5>1 DEF Settled, Accounted
      <4> QED
        BY <1>0, <3>2, <4>1 DEF AnsweredAccounted, OneInProgress, InProgress
    <3>3. CASE client' = [n \in Msgs |-> IF n \in InProgress(p.id) /\ client[n] = "releasing" THEN "done" ELSE client[n]]
      BY <1>0, <3>3 DEF AnsweredAccounted, OneInProgress, InProgress
    <3> QED
      BY <2>1, <2>3, <3>1, <3>2, <3>3, Received
  <2> QED
    BY <2>1, <2>2, <2>3
    DEF Next, Listen, Client, Connect, Close, Restart, HandlePublish, HandlePubRel, HandleAck, Publish, Retry, Deliver,
        Queue, ClientResume, ClientResend, vars, clientVars
<1>4. EntriesSettled'
  <2>1. ASSUME NEW id \in PacketIds, Queue(id) PROVE EntriesSettled'
    <3>1. id \in used' /\ used \subseteq used' /\ retry' = retry
      BY <2>1 DEF Queue
    <3>2. \A k \in PacketIds : store'[k] = IF k = id THEN "out" ELSE store[k]
      BY <2>1 DEF Queue, TypeInv, TypeOK
    <3>3. record' = store'
      BY <2>1 DEF Queue
    <3> QED
      BY <1>0, <3>1, <3>2, <3>3 DEF EntriesSettled
  <2>2. CASE HandlePublish
    <3>1. Reads("PUBLISH")
      BY <2>2 DEF HandlePublish
    <3>2. PICK p \in PacketSet : p = Head(up)
      BY <3>1, ReadsType
    <3>3. Settled(p.id)'
      BY <2>2, <3>2, PublishSettles
    <3>4. \A k \in PacketIds : store'[k] = store[k] \/ (k = p.id /\ store'[k] = "in")
      BY <2>2, <3>2 DEF HandlePublish, StoreInbound, TypeInv, TypeOK
    <3>5. UNCHANGED <<record, retry, used>>
      BY <2>2 DEF HandlePublish, historyVars
    <3> QED
      BY <1>0, <3>3, <3>4, <3>5 DEF EntriesSettled
  <2>3. CASE Connect
    BY <1>0, <2>3 DEF Connect, EntriesSettled
  <2>4. CASE Close \/ Restart
    BY <1>0, <2>4 DEF Close, Restart, Nothing, historyVars, EntriesSettled
  <2>5. CASE HandlePubRel
    <3>1. /\ \A k \in PacketIds : store'[k] \in {store[k], "none"} /\ retry'[k] \in {retry[k], "comp"}
          /\ UNCHANGED <<record, used>>
      BY <2>5 DEF HandlePubRel, historyVars, TypeInv, TypeOK
    <3> QED
      BY <1>0, <3>1 DEF EntriesSettled
  <2>6. CASE HandleAck
    <3>1. /\ \A k \in PacketIds : store'[k] \in {store[k], "none"} /\ retry'[k] \in {retry[k], "none"}
          /\ record' = store' /\ used' = used
      BY <2>6 DEF HandleAck, Acknowledged, historyVars, TypeInv, TypeOK
    <3> QED
      BY <1>0, <3>1 DEF EntriesSettled
  <2>7. CASE UNCHANGED <<store, record, retry>> /\ used \subseteq used'
    BY <1>0, <2>7 DEF EntriesSettled
  <2> QED
    BY <2>1, <2>2, <2>3, <2>4, <2>5, <2>6, <2>7
    DEF Next, Listen, Client, Publish, Retry, Deliver, ClientReceive, ClientPublish, ClientResume, ClientResend, vars,
        sessionVars, historyVars
<1>5. PublishBegun'
  <2>1. CASE \A q : In(q, up') => q.type # "PUBLISH" \/ In(q, up)
    BY <1>1, <2>1 DEF PublishBegun
  <2>2. CASE up' = <<>>
    BY <2>1, <2>2, Empty
  <2>3. ASSUME NEW t, Reads(t) PROVE PublishBegun'
    BY <2>1, <2>3, ReadsType
  <2>4. CASE ClientReceive
    BY <2>1, <2>4, Received
  <2>5. ASSUME NEW m \in Msgs, ClientPublish(m) PROVE PublishBegun'
    <3>1. up' = Append(up, Publication(m, FALSE)) /\ Publication(m, FALSE) \in PacketSet
      BY <2>5, PublicationType DEF ClientPublish, Answer
    <3>2. m \in Begun(Publication(m, FALSE).id)' /\ Publication(m, FALSE).msg = m
      BY <2>5 DEF ClientPublish, Begun, Publication, TypeInv, TypeOK
    <3> QED
      BY <1>1, <1>2, <3>1, <3>2, Appended DEF PublishBegun
  <2>6. ASSUME NEW m \in Msgs, client[m] \in {"publishing", "releasing"}, Again(m), client' = client PROVE PublishBegun'
    <3>1. CASE up' = Append(up, Publication(m, TRUE))
      <4>1. Publication(m, TRUE) \in PacketSet /\ m \in Begun(Publication(m, TRUE).id)' /\ Publication(m, TRUE).msg = m
        BY <2>6, PublicationType DEF Begun, Publication
      <4> QED
        BY <1>1, <1>2, <3>1, <4>1, Appended DEF PublishBegun
    <3>2. CASE up' = Append(up, Packet("PUBREL", PacketID[m]))
      <4>1. Packet("PUBREL", PacketID[m]) \in PacketSet /\ Packet("PUBREL", PacketID[m]).type # "PUBLISH"
        BY PacketType, InboundAssumption DEF Packet
      <4> QED
        BY <1>2, <2>1, <3>2, <4>1, Appended
    <3> QED
      BY <2>6, <3>1, <3>2 DEF Again, Answer
  <2>7. ASSUME NEW m \in Msgs, ClientResume(m) \/ ClientResend(m) PROVE PublishBegun'
    BY <2>6, <2>7 DEF ClientResume, ClientResend, clientVars, TypeInv, TypeOK
  <2> QED
    BY <2>1, <2>2, <2>3, <2>4, <2>5, <2>7
    DEF Next, Listen, Client, Connect, Close, Restart, HandlePublish, HandlePubRel, HandleAck, Publish, Retry, Deliver, Queue, vars
<1>6. AnswersSettled'
  <2>1. CASE \A q : In(q, down') => q.type # "PUBREC" \/ In(q, down)
    BY <1>0, <2>1 DEF AnswersSettled
  <2>2. CASE down' = <<>>
    BY <2>1, <2>2, Empty
  <2>3. CASE Connect
    <3>1. \A q : In(q, down') => q.type = "PUBLISH"
      BY <2>3, Replayed, ZenonT(40) DEF Connect
    <3> QED
      BY <2>1, <3>1
  <2>4. CASE HandlePublish
    <3>1. Reads("PUBLISH")
      BY <2>4 DEF HandlePublish
    <3>2. PICK p \in PacketSet : p = Head(up)
      BY <3>1, ReadsType
    <3>3. Settled(p.id)'
      BY <2>4, <3>2, PublishSettles
    <3>4. Packet("PUBREC", p.id) \in PacketSet /\ Packet("PUBREC", p.id).id = p.id
      BY PacketType DEF PacketSet, Packet
    <3>5. down' = Append(down, Packet("PUBREC", p.id))
      BY <2>4, <3>2 DEF HandlePublish, emit
    <3> QED
      BY <1>0, <1>2, <3>3, <3>4, <3>5, Appended DEF AnswersSettled
  <2>5. ASSUME NEW id \in PacketIds, NEW t \in {"PUBLISH", "PUBREL", "PUBCOMP"}, down' = Append(down, Packet(t, id))
        PROVE  AnswersSettled'
    <3>1. Packet(t, id) \in PacketSet /\ Packet(t, id).type # "PUBREC"
      BY PacketType DEF Packet
    <3> QED
      BY <1>2, <2>1, <2>5, <3>1, Appended
  <2>6. CASE HandlePubRel
    <3>1. Reads("PUBREL")
      BY <2>6 DEF HandlePubRel
    <3> QED
      BY <2>5, <2>6, <3>1, ReadsType DEF HandlePubRel, emit
  <2>7. ASSUME NEW id \in PacketIds, Retry(id) \/ Deliver(id) PROVE AnswersSettled'
    BY <2>5, <2>7 DEF Retry, Deliver, emit
  <2>8. CASE ClientReceive
    BY <2>1, <2>8, Received
  <2> QED
    BY <2>1, <2>2, <2>3, <2>4, <2>6, <2>7, <2>8
    DEF Next, Listen, Client, Close, Restart, HandleAck, Publish, Queue, ClientPublish, ClientResume, ClientResend, vars
<1> QED
  BY <1>0, <1>3, <1>4, <1>5, <1>6

\* A message whose handshake is complete was published, or one of the
\* exceptions of CompletedWasPublished holds.
\* The handshake: HandlePublish stores and answers before it publishes
\* (client.go:437-452), and a duplicate is not published (client.go:431-436).
THEOREM CompletedPublished == Spec => []CompletedWasPublished
<1>1. HandshakeInv => CompletedWasPublished
  BY DEF HandshakeInv, AnsweredAccounted, Accounted, CompletedWasPublished
<1> QED
  BY <1>1, InitHandshake, NextHandshake, PTL DEF Spec

----------------------------------------------------------------------------
\* The inductive invariant of OncePerConnection.
\*
\* It follows, for one message, the queue q to the broker, how often the
\* message was published on the connection (n), the entry under its
\* identifier (e) and its state at the client (s).

\* p is a PUBLISH of m, or its PUBREL.
Of(p, m)    == p.type = "PUBLISH" /\ p.msg = m
IsRel(p, m) == p.type = "PUBREL" /\ p.id = PacketID[m]

\* Nothing of m was published, or is before position i.
Clear(q, n, m, i) == n = 0 /\ \A k \in 1..(i - 1) : ~Of(q[k], m)

\* A published message that may come again is recognised.
Known(q, n, e, s, m) == n # 0 /\ (s = "publishing" \/ \E i \in DOMAIN q : Of(q[i], m)) => e # "none"

\* A PUBREL with a PUBLISH of m behind it, or still to be sent, belongs to an
\* earlier message with its identifier: m is all behind it.
Behind(q, n, s, m) ==
    \A i \in DOMAIN q : IsRel(q[i], m) /\ (s = "publishing" \/ \E j \in DOMAIN q : j > i /\ Of(q[j], m))
        => Clear(q, n, m, i)

\* A PUBLISH that is not a duplicate is the first of m.
NewFirst(q, n, m) == \A i \in DOMAIN q : Of(q[i], m) /\ ~q[i].dup => Clear(q, n, m, i)

\* Together.
Once(q, n, e, s, m) == n \in {0, 1} /\ Known(q, n, e, s, m) /\ Behind(q, n, s, m) /\ NewFirst(q, n, m)

\* Fewer publications, more entries and an answered PUBLISH do no harm.
LEMMA OnceLess ==
    ASSUME NEW q \in Seq(PacketSet), NEW n, NEW e, NEW s, NEW m, NEW n2, NEW e2, NEW s2,
           Once(q, n, e, s, m), n2 \in {0, n}, e # "none" => e2 # "none",
           s2 = "publishing" => s = "publishing"
    PROVE  Once(q, n2, e2, s2, m)
  BY DEF Once, Known, Behind, NewFirst, Clear

\* A connection begins.
LEMMA OnceEmpty ==
    ASSUME NEW e, NEW s, NEW m
    PROVE  Once(<<>>, 0, e, s, m)
  BY DEF Once, Known, Behind, NewFirst, Clear

\* A packet is read that is nothing to m.
LEMMA OnceTail ==
    ASSUME NEW q \in Seq(PacketSet), q # <<>>, NEW n, NEW e, NEW s, NEW m, Once(q, n, e, s, m)
    PROVE  Once(Tail(q), n, e, s, m)
<1>1. Tail(q) \in Seq(PacketSet) /\ Len(q) \in Nat
  OBVIOUS
<1>2. ASSUME NEW i \in DOMAIN Tail(q)
      PROVE  i \in Nat /\ i + 1 \in DOMAIN q /\ Tail(q)[i] = q[i + 1]
  OBVIOUS
<1>3. ASSUME NEW i \in DOMAIN Tail(q), Clear(q, n, m, i + 1)
      PROVE  Clear(Tail(q), n, m, i)
  <2>1. ASSUME NEW k \in 1..(i - 1) PROVE ~Of(Tail(q)[k], m)
    <3>1. k \in DOMAIN Tail(q) /\ k + 1 \in 1..((i + 1) - 1)
      BY <1>1, <1>2, <1>3
    <3> QED
      BY <1>2, <1>3, <3>1 DEF Clear
  <2> QED
    BY <1>3, <2>1 DEF Clear
<1>4. Known(Tail(q), n, e, s, m)
  BY <1>2 DEF Once, Known
<1>5. Behind(Tail(q), n, s, m)
  <2>1. ASSUME NEW i \in DOMAIN Tail(q), IsRel(Tail(q)[i], m),
               s = "publishing" \/ \E j \in DOMAIN Tail(q) : j > i /\ Of(Tail(q)[j], m)
        PROVE  Clear(q, n, m, i + 1)
    <3>1. i + 1 \in DOMAIN q /\ IsRel(q[i + 1], m)
      BY <1>2, <2>1
    <3>2. s = "publishing" \/ \E j \in DOMAIN q : j > i + 1 /\ Of(q[j], m)
      <4>1. ASSUME NEW j \in DOMAIN Tail(q), j > i, Of(Tail(q)[j], m)
            PROVE  j + 1 \in DOMAIN q /\ j + 1 > i + 1 /\ Of(q[j + 1], m)
        BY <1>2, <4>1
      <4> QED
        BY <2>1, <4>1
    <3> QED
      BY <3>1, <3>2 DEF Once, Behind
  <2> QED
    BY <1>3, <2>1 DEF Behind
<1>6. NewFirst(Tail(q), n, m)
  BY <1>2, <1>3 DEF Once, NewFirst
<1> QED
  BY <1>4, <1>5, <1>6 DEF Once

\* PUBREL is read: its entry goes, and no PUBLISH comes that needs it.
LEMMA OnceReleased ==
    ASSUME NEW q \in Seq(PacketSet), q # <<>>, NEW n, NEW e, NEW s, NEW m, Once(q, n, e, s, m),
           IsRel(Head(q), m)
    PROVE  Once(Tail(q), n, "none", s, m)
<1>1. Once(Tail(q), n, e, s, m)
  BY OnceTail
<1>2. 1 \in DOMAIN q /\ IsRel(q[1], m)
  OBVIOUS
<1>3. ASSUME s = "publishing" \/ \E i \in DOMAIN Tail(q) : Of(Tail(q)[i], m) PROVE n = 0
  <2>1. ASSUME NEW i \in DOMAIN Tail(q), Of(Tail(q)[i], m)
        PROVE  i + 1 \in DOMAIN q /\ i + 1 > 1 /\ Of(q[i + 1], m)
    BY <2>1
  <2> QED
    BY <1>2, <1>3, <2>1 DEF Once, Behind, Clear
<1> QED
  BY <1>1, <1>3 DEF Once, Known

\* PUBLISH is read, and the message is about to be published: it was not yet.
LEMMA OncePublished ==
    ASSUME NEW q \in Seq(PacketSet), q # <<>>, NEW n, NEW e, NEW s, NEW m, Once(q, n, e, s, m),
           Of(Head(q), m), ~(Head(q).dup /\ e # "none")
    PROVE  n = 0 /\ \A e2 : e2 # "none" => Once(Tail(q), 1, e2, s, m)
<1>1. Len(q) \in Nat /\ 1 \in DOMAIN q /\ Of(q[1], m) /\ q[1] = Head(q)
  OBVIOUS
<1>2. n = 0
  <2>1. CASE Head(q).dup
    BY <1>1, <2>1 DEF Once, Known
  <2>2. CASE ~Head(q).dup
    BY <1>1, <2>2 DEF Once, NewFirst, Clear
  <2> QED
    BY <2>1, <2>2
<1>3. ASSUME NEW i \in DOMAIN Tail(q)
      PROVE  /\ i + 1 \in DOMAIN q /\ Tail(q)[i] = q[i + 1] /\ i \in Nat
             /\ ~Clear(q, n, m, i + 1)
  <2>1. i + 1 \in DOMAIN q /\ Tail(q)[i] = q[i + 1] /\ i \in Nat /\ 1 \in 1..((i + 1) - 1)
    OBVIOUS
  <2> QED
    BY <1>1, <2>1 DEF Clear
<1>4. ASSUME NEW i \in DOMAIN Tail(q), IsRel(Tail(q)[i], m)
      PROVE  s # "publishing" /\ \A j \in DOMAIN Tail(q) : j > i => ~Of(Tail(q)[j], m)
  <2>1. i + 1 \in DOMAIN q /\ IsRel(q[i + 1], m) /\ ~Clear(q, n, m, i + 1)
    BY <1>3, <1>4
  <2>2. s # "publishing" /\ \A j \in DOMAIN q : j > i + 1 => ~Of(q[j], m)
    BY <2>1 DEF Once, Behind
  <2>3. ASSUME NEW j \in DOMAIN Tail(q), j > i PROVE ~Of(Tail(q)[j], m)
    <3>1. j + 1 \in DOMAIN q /\ Tail(q)[j] = q[j + 1] /\ j + 1 > i + 1
      BY <1>3, <2>3
    <3> QED
      BY <2>2, <3>1
  <2> QED
    BY <2>2, <2>3
<1>5. ASSUME NEW i \in DOMAIN Tail(q) PROVE ~(Of(Tail(q)[i], m) /\ ~Tail(q)[i].dup)
  BY <1>3, <1>5 DEF Once, NewFirst
<1>6. Behind(Tail(q), 1, s, m)
  BY <1>4 DEF Behind
<1>7. NewFirst(Tail(q), 1, m)
  BY <1>5 DEF NewFirst
<1>8. ASSUME NEW e2, e2 # "none" PROVE Once(Tail(q), 1, e2, s, m)
  BY <1>6, <1>7, <1>8 DEF Once, Known
<1> QED
  BY <1>2, <1>8

\* A queue with one more packet, at its end.
LEMMA AppendedAt ==
    ASSUME NEW q \in Seq(PacketSet), NEW p \in PacketSet
    PROVE  /\ \A i \in DOMAIN Append(q, p) : i \in Nat /\ i <= Len(q) + 1 /\ (i # Len(q) + 1 => i \in DOMAIN q)
           /\ \A i \in DOMAIN q : i \in Nat /\ i <= Len(q) /\ Append(q, p)[i] = q[i]
           /\ Len(q) \in Nat /\ Append(q, p)[Len(q) + 1] = p
  OBVIOUS

\* What comes before a position of the queue is the same after Append.
LEMMA ClearAppend ==
    ASSUME NEW q \in Seq(PacketSet), NEW p \in PacketSet, NEW n, NEW m, NEW i \in 1..(Len(q) + 1),
           Clear(q, n, m, i)
    PROVE  Clear(Append(q, p), n, m, i)
<1>1. ASSUME NEW k \in 1..(i - 1) PROVE Append(q, p)[k] = q[k]
  <2>1. k \in DOMAIN q
    OBVIOUS
  <2> QED
    BY <2>1, AppendedAt
<1> QED
  BY <1>1 DEF Clear

\* The client or the broker's Retry makes it send a packet that is nothing to m.
LEMMA OnceOther ==
    ASSUME NEW q \in Seq(PacketSet), NEW p \in PacketSet, NEW n, NEW e, NEW s, NEW m, Once(q, n, e, s, m),
           ~Of(p, m), ~IsRel(p, m)
    PROVE  Once(Append(q, p), n, e, s, m)
<1> DEFINE t == Append(q, p)
<1>1. ASSUME NEW i \in DOMAIN t, Of(t[i], m) \/ IsRel(t[i], m)
      PROVE  i \in DOMAIN q /\ t[i] = q[i] /\ i \in 1..(Len(q) + 1)
  BY <1>1, AppendedAt
<1> HIDE DEF t
<1>2. ASSUME NEW i \in DOMAIN t, i \in 1..(Len(q) + 1), Clear(q, n, m, i) PROVE Clear(t, n, m, i)
  BY <1>2, ClearAppend DEF t
<1>3. Known(t, n, e, s, m)
  BY <1>1 DEF Once, Known
<1>4. Behind(t, n, s, m)
  <2>1. ASSUME NEW i \in DOMAIN t, IsRel(t[i], m), s = "publishing" \/ \E j \in DOMAIN t : j > i /\ Of(t[j], m)
        PROVE  Clear(q, n, m, i)
    BY <1>1, <2>1 DEF Once, Behind
  <2> QED
    BY <1>1, <1>2, <2>1 DEF Behind
<1>5. NewFirst(t, n, m)
  BY <1>1, <1>2 DEF Once, NewFirst
<1> QED
  BY <1>3, <1>4, <1>5 DEF Once, t

\* The client sends PUBREL when it is past the PUBLISH.
LEMMA OnceReleasing ==
    ASSUME NEW q \in Seq(PacketSet), NEW p \in PacketSet, NEW n, NEW e, NEW s, NEW m, Once(q, n, e, s, m),
           IsRel(p, m), s # "publishing"
    PROVE  Once(Append(q, p), n, e, s, m)
<1> DEFINE t == Append(q, p)
<1>1. ~Of(p, m)
  BY DEF Of, IsRel
<1>2. ASSUME NEW i \in DOMAIN t, Of(t[i], m)
      PROVE  i \in DOMAIN q /\ t[i] = q[i] /\ i \in 1..(Len(q) + 1)
  BY <1>1, <1>2, AppendedAt
<1>3. ASSUME NEW i \in DOMAIN t, NEW j \in DOMAIN t, j > i, Of(t[j], m)
      PROVE  i \in DOMAIN q /\ t[i] = q[i] /\ i \in 1..(Len(q) + 1)
  <2>1. j \in Nat /\ j <= Len(q) /\ i \in Nat /\ i <= Len(q) + 1 /\ Len(q) \in Nat
    BY <1>2, <1>3, AppendedAt
  <2> QED
    BY <1>3, <2>1, AppendedAt
<1> HIDE DEF t
<1>4. ASSUME NEW i \in DOMAIN t, i \in 1..(Len(q) + 1), Clear(q, n, m, i) PROVE Clear(t, n, m, i)
  BY <1>4, ClearAppend DEF t
<1>5. Known(t, n, e, s, m)
  BY <1>2 DEF Once, Known
<1>6. Behind(t, n, s, m)
  <2>1. ASSUME NEW i \in DOMAIN t, IsRel(t[i], m), NEW j \in DOMAIN t, j > i, Of(t[j], m)
        PROVE  Clear(t, n, m, i)
    <3>1. Clear(q, n, m, i)
      BY <1>2, <1>3, <2>1 DEF Once, Behind
    <3> QED
      BY <1>3, <1>4, <2>1, <3>1
  <2> QED
    BY <2>1 DEF Behind
<1>7. NewFirst(t, n, m)
  BY <1>2, <1>4 DEF Once, NewFirst
<1> QED
  BY <1>5, <1>6, <1>7 DEF Once, t

\* The client sends a duplicate while it has no PUBREC.
LEMMA OnceAgain ==
    ASSUME NEW q \in Seq(PacketSet), NEW p \in PacketSet, NEW n, NEW e, NEW s, NEW m, Once(q, n, e, s, m),
           Of(p, m), p.dup, s = "publishing"
    PROVE  Once(Append(q, p), n, e, s, m)
<1> DEFINE t == Append(q, p)
<1>1. ~IsRel(p, m)
  BY DEF Of, IsRel
<1>2. ASSUME NEW i \in DOMAIN t, IsRel(t[i], m) \/ (Of(t[i], m) /\ ~t[i].dup)
      PROVE  i \in DOMAIN q /\ t[i] = q[i] /\ i \in 1..(Len(q) + 1)
  BY <1>1, <1>2, AppendedAt
<1> HIDE DEF t
<1>3. ASSUME NEW i \in DOMAIN t, i \in 1..(Len(q) + 1), Clear(q, n, m, i) PROVE Clear(t, n, m, i)
  BY <1>3, ClearAppend DEF t
<1>4. Known(t, n, e, s, m)
  BY DEF Once, Known
<1>5. Behind(t, n, s, m)
  BY <1>2, <1>3 DEF Once, Behind
<1>6. NewFirst(t, n, m)
  BY <1>2, <1>3 DEF Once, NewFirst
<1> QED
  BY <1>4, <1>5, <1>6 DEF Once, t

\* The client begins a message of which nothing is on its way.
LEMMA OnceBegun ==
    ASSUME NEW q \in Seq(PacketSet), NEW p \in PacketSet, NEW e, NEW s, NEW m, Of(p, m),
           \A i \in DOMAIN q : ~Of(q[i], m)
    PROVE  Once(Append(q, p), 0, e, s, m)
<1> DEFINE t == Append(q, p)
<1>1. ASSUME NEW i \in DOMAIN t PROVE Clear(t, 0, m, i)
  <2>1. ASSUME NEW k \in 1..(i - 1) PROVE ~Of(t[k], m)
    <3>1. k \in DOMAIN q
      BY AppendedAt
    <3> QED
      BY <3>1, AppendedAt
  <2> QED
    BY <2>1 DEF Clear
<1> HIDE DEF t
<1>2. Known(t, 0, e, s, m) /\ Behind(t, 0, s, m) /\ NewFirst(t, 0, m)
  BY <1>1 DEF Known, Behind, NewFirst
<1> QED
  BY <1>2 DEF Once, t

----------------------------------------------------------------------------
\* How often a message was published on a connection, or is about to be.
Count(c, m) == published[c][m] + (IF publishing[c] = m THEN 1 ELSE 0)

\* An identifier that nothing but the client's messages has on this connection.
Own(id) == id \notin leftover[conn] \cup used

\* A message the client has not begun, and a connection to come, count nothing.
Fresh == \A c \in Conns, m \in Msgs : client[m] = "idle" \/ c > conn => Count(c, m) = 0

\* Acknowledgements that delete, resends and shared entries are of the others.
Foreign == link = "up" =>
    /\ \A p : In(p, up) /\ p.type \in {"PUBACK", "PUBCOMP"} => ~Own(p.id)
    /\ \A p : In(p, down) /\ p.type \in {"PUBLISH", "PUBREL"} => ~Own(p.id)
    /\ \A id \in PacketIds : retry[id] # "none" \/ id \in shared => ~Own(id)

\* What OncePerConnection says, with the publication that is about to be.
AtMost == \A c \in Conns, m \in Msgs : PacketID[m] \notin leftover[c] \cup used => Count(c, m) \in {0, 1}

\* How it holds on the connection that is open.
EachOnce == link = "up" =>
    \A m \in Msgs : Own(PacketID[m]) => Once(up, Count(conn, m), store[PacketID[m]], client[m], m)

\* Together.
OnceInv == Fresh /\ Foreign /\ AtMost /\ EachOnce

\* Counts are counts.
LEMMA CountType ==
    ASSUME TypeInv, NEW c \in Conns, NEW m \in Msgs
    PROVE  Count(c, m) \in Nat /\ published[c][m] <= Count(c, m)
  BY DEF TypeInv, TypeOK, Count

\* The invariant holds at the start ...
LEMMA InitOnce == Init => OnceInv
<1> SUFFICES ASSUME Init PROVE OnceInv
  OBVIOUS
<1>1. link # "up" /\ \A c \in Conns, m \in Msgs : published[c][m] = 0 /\ publishing[c] # m
  BY InboundAssumption DEF Init
<1>2. \A c \in Conns, m \in Msgs : Count(c, m) = 0
  BY <1>1 DEF Count
<1> QED
  BY <1>1, <1>2 DEF OnceInv, Fresh, Foreign, AtMost, EachOnce

\* Only HandlePublish adds to a count.
LEMMA CountStays ==
    ASSUME TypeInv, [Next]_vars, ~HandlePublish, NEW c \in Conns, NEW m \in Msgs, Count(c, m) \in {0, 1}
    PROVE  Count(c, m)' \in {0, Count(c, m)}
<1>1. published[c][m] \in Nat /\ (publishing[c] = m => publishing[c] # None)
  BY InboundAssumption DEF TypeInv, TypeOK
<1>2. CASE UNCHANGED <<published, publishing>>
  BY <1>2 DEF Count
<1>3. CASE Restart
  <2>1. published' = published /\ publishing'[c] # m
    BY <1>3, InboundAssumption DEF Restart
  <2> QED
    BY <1>1, <2>1 DEF Count
<1>4. ASSUME NEW d \in Conns, Publish(d) PROVE Count(c, m)' \in {0, Count(c, m)}
  <2>1. /\ publishing' = [publishing EXCEPT ![d] = None] /\ publishing[d] \in Msgs
        /\ publishing \in [Conns -> Msgs \cup {None}] /\ published \in [Conns -> [Msgs -> Nat]]
    BY <1>4 DEF Publish, TypeInv, TypeOK
  <2>2. published'[c][m] = published[c][m] \/ (c = d /\ publishing[d] = m /\ published'[c][m] = published[c][m] + 1)
    BY <1>4, <2>1 DEF Publish
  <2>3. CASE c = d
    <3>1. publishing'[c] # m
      BY <2>1, <2>3, InboundAssumption
    <3> QED
      BY <1>1, <2>2, <2>3, <3>1 DEF Count
  <2>4. CASE c # d
    <3>1. publishing'[c] = publishing[c]
      BY <2>1, <2>4
    <3> QED
      BY <1>1, <2>2, <2>4, <3>1 DEF Count
  <2> QED
    BY <2>3, <2>4
<1> QED
  BY <1>2, <1>3, <1>4
  DEF Next, Listen, Client, Connect, Close, HandlePubRel, HandleAck, Retry, Deliver,
      Queue, ClientReceive, ClientPublish, ClientResume, ClientResend, vars, historyVars

\* What HandlePublish does to the counts and to the entries.
LEMMA PublishCounts ==
    ASSUME HandshakeInv, HandlePublish
    PROVE  LET p == Head(up) IN
           /\ p \in PacketSet /\ p.type = "PUBLISH" /\ p.msg \in Msgs /\ PacketID[p.msg] = p.id
           /\ client[p.msg] # "idle" /\ link = "up" /\ conn \in Conns /\ up # <<>> /\ up' = Tail(up)
           /\ \/ /\ p.dup /\ store[p.id] # "none" /\ store' = store
                 /\ \A c \in Conns, m \in Msgs : Count(c, m)' = Count(c, m)
              \/ /\ ~(p.dup /\ store[p.id] # "none") /\ store' = [store EXCEPT ![p.id] = "in"]
                 /\ \A c \in Conns, m \in Msgs :
                      Count(c, m)' = IF c = conn /\ m = p.msg THEN Count(c, m) + 1 ELSE Count(c, m)
<1> DEFINE p == Head(up)
<1>1. Reads("PUBLISH") /\ published' = published
  BY DEF HandlePublish, historyVars
<1>2. p \in PacketSet /\ p.type = "PUBLISH" /\ In(p, up) /\ link = "up" /\ conn \in Conns /\ publishing[conn] = None
  BY <1>1, ReadsType DEF HandshakeInv
<1>3. p.msg \in Begun(p.id)
  BY <1>2 DEF HandshakeInv, PublishBegun
<1>4. p.msg \in Msgs /\ PacketID[p.msg] = p.id /\ client[p.msg] # "idle"
  BY <1>3 DEF Begun
<1>5. CASE p.dup /\ store[p.id] # "none"
  <2>1. store' = store /\ publishing' = publishing
    BY <1>5 DEF HandlePublish, StoreInbound
  <2> QED
    BY <1>1, <1>2, <1>4, <1>5, <2>1 DEF Count, Reads
<1>6. CASE ~(p.dup /\ store[p.id] # "none")
  <2>1. store' = [store EXCEPT ![p.id] = "in"] /\ publishing' = [publishing EXCEPT ![conn] = p.msg]
    BY <1>6 DEF HandlePublish, StoreInbound
  <2>2. \A c \in Conns, m \in Msgs :
          Count(c, m)' = IF c = conn /\ m = p.msg THEN Count(c, m) + 1 ELSE Count(c, m)
    <3>1. \A c \in Conns : publishing'[c] = IF c = conn THEN p.msg ELSE publishing[c]
      BY <1>2, <2>1 DEF HandshakeInv, TypeInv, TypeOK
    <3>2. \A c \in Conns, m \in Msgs : published[c][m] \in Nat
      BY DEF HandshakeInv, TypeInv, TypeOK
    <3> QED
      BY <1>1, <1>2, <3>1, <3>2, InboundAssumption DEF Count
  <2> QED
    BY <1>1, <1>2, <1>4, <1>6, <2>1, <2>2 DEF Reads
<1> QED
  BY <1>5, <1>6

\* While the connection is open, no identifier becomes the client's own.
LEMMA OwnShrinks ==
    ASSUME [Next]_vars, ~Connect
    PROVE  conn' = conn /\ leftover' = leftover /\ used \subseteq used' /\ \A id : Own(id)' => Own(id)
<1>1. conn' = conn /\ leftover' = leftover /\ used \subseteq used'
  BY DEF Next, Listen, Client, Close, Restart, HandlePublish, HandlePubRel, HandleAck, Publish, Retry, Deliver,
         Queue, ClientReceive, ClientPublish, ClientResume, ClientResend, vars, historyVars
<1> QED
  BY <1>1 DEF Own

\* Fresh is inductive.
LEMMA NextFresh == HandshakeInv /\ OnceInv /\ [Next]_vars => Fresh'
<1> SUFFICES ASSUME HandshakeInv, OnceInv, [Next]_vars, NEW c \in Conns, NEW m \in Msgs,
                    (client[m] = "idle")' \/ c > conn'
             PROVE  Count(c, m)' = 0
  BY DEF Fresh
<1>1. conn \in Int /\ conn' \in {conn, conn + 1} /\ c \in Int
  BY OwnShrinks DEF Connect, HandshakeInv, TypeInv, TypeOK, Conns
<1>2. client'[m] = "idle" => client[m] = "idle"
  <2>1. \A id : Begun(id) \subseteq Begun(id)'
    BY BegunStays DEF HandshakeInv
  <2>2. (m \in Begun(PacketID[m]) <=> client[m] # "idle") /\ (m \in Begun(PacketID[m])' <=> client'[m] # "idle")
    BY DEF Begun
  <2> QED
    BY <2>1, <2>2
<1>3. Count(c, m) = 0
  BY <1>1, <1>2 DEF OnceInv, Fresh
<1>4. CASE HandlePublish
  <2>1. ~Connect
    BY <1>4 DEF HandlePublish, Reads, Connect
  <2>2. ~(c = conn /\ m = Head(up).msg)
    BY <1>1, <1>2, <1>4, <2>1, PublishCounts, OwnShrinks
  <2> QED
    BY <1>3, <1>4, <2>2, PublishCounts
<1>5. CASE ~HandlePublish
  BY <1>3, <1>5, CountStays DEF HandshakeInv
<1> QED
  BY <1>4, <1>5

\* Foreign is inductive.
LEMMA NextForeign == HandshakeInv /\ OnceInv /\ [Next]_vars => Foreign'
<1> SUFFICES ASSUME HandshakeInv, OnceInv, [Next]_vars, link' = "up" PROVE Foreign'
  BY DEF Foreign
<1>1. up \in Seq(PacketSet) /\ down \in Seq(PacketSet) /\ TypeInv
  BY DEF HandshakeInv, TypeInv, TypeOK
<1>2. CASE Connect
  <2>1. /\ up' = <<>> /\ conn + 1 \in Conns /\ conn' = conn + 1 /\ retry' = record
        /\ shared' = {id \in PacketIds : record[id] # "none"}
        /\ leftover' = [leftover EXCEPT ![conn + 1] = shared']
    BY <1>1, <1>2, InboundAssumption DEF Connect, TypeInv, TypeOK, Conns
  <2>2. leftover'[conn'] = shared'
    BY <1>1, <2>1 DEF TypeInv, TypeOK
  <2>3. \A id \in PacketIds : record[id] # "none" => ~Own(id)'
    BY <2>1, <2>2 DEF Own
  <2>4. ASSUME NEW p, In(p, down') PROVE ~Own(p.id)'
    <3>1. PICK s \in [1..Cardinality({id \in PacketIds : record[id] = "out"}) -> PacketIds] :
            /\ {s[i] : i \in DOMAIN s} = {id \in PacketIds : record[id] = "out"}
            /\ down' = [i \in DOMAIN s |-> Packet("PUBLISH", s[i])]
      BY <1>2 DEF Connect
    <3>2. PICK i \in DOMAIN s : p = Packet("PUBLISH", s[i])
      BY <2>4, <3>1 DEF In
    <3>3. p.id = s[i] /\ s[i] \in {id \in PacketIds : record[id] = "out"}
      BY <3>1, <3>2 DEF Packet
    <3> QED
      BY <2>3, <3>3
  <2>5. \A p : ~In(p, up')
    BY <2>1, Empty
  <2> QED
    BY <2>1, <2>3, <2>4, <2>5 DEF Foreign
<1>3. CASE ~Connect
  <2>1. link = "up"
    BY <1>3 DEF Next, Listen, Client, Close, Restart, HandlePublish, HandlePubRel, HandleAck, Publish, Retry, Deliver,
                Queue, ClientReceive, ClientPublish, ClientResume, ClientResend, Reads, vars
  <2>2. \A id : ~Own(id) => ~Own(id)'
    BY <1>3, OwnShrinks
  <2>3. /\ \A p : In(p, up) /\ p.type \in {"PUBACK", "PUBCOMP"} => ~Own(p.id)'
        /\ \A p : In(p, down) /\ p.type \in {"PUBLISH", "PUBREL"} => ~Own(p.id)'
        /\ \A id \in PacketIds : retry[id] # "none" \/ id \in shared => ~Own(id)'
    BY <2>1, <2>2 DEF OnceInv, Foreign
  <2>4. \A p : In(p, up') /\ p.type \in {"PUBACK", "PUBCOMP"} => In(p, up) \/ ~Own(p.id)'
    <3>1. ASSUME NEW t, Reads(t) PROVE \A p : In(p, up') => In(p, up)
      BY <1>1, <3>1, ReadsType
    <3>2. ASSUME NEW p \in PacketSet, up' = Append(up, p), p.type \in {"PUBLISH", "PUBREL"} \/ ~Own(p.id)'
          PROVE  \A q : In(q, up') /\ q.type \in {"PUBACK", "PUBCOMP"} => In(q, up) \/ ~Own(q.id)'
      BY <1>1, <3>2, Appended
    <3>3. ASSUME NEW m \in Msgs, ClientPublish(m) \/ ClientResume(m) \/ ClientResend(m)
          PROVE  \E p \in PacketSet : up' = Append(up, p) /\ p.type \in {"PUBLISH", "PUBREL"}
      <4>1. /\ Publication(m, FALSE) \in PacketSet /\ Publication(m, FALSE).type = "PUBLISH"
            /\ Publication(m, TRUE) \in PacketSet /\ Publication(m, TRUE).type = "PUBLISH"
        BY PublicationType DEF Publication
      <4>2. Packet("PUBREL", PacketID[m]) \in PacketSet /\ Packet("PUBREL", PacketID[m]).type = "PUBREL"
        BY PacketType, InboundAssumption DEF Packet
      <4> QED
        BY <3>3, <4>1, <4>2 DEF ClientPublish, ClientResume, ClientResend, Again, Answer
    <3>4. ASSUME ClientReceive, up' # up
          PROVE  \E p \in PacketSet : up' = Append(up, p) /\ (p.type = "PUBREL" \/ ~Own(p.id)')
      <4> DEFINE r == Head(down)
      <4>1. r \in PacketSet /\ r.id \in PacketIds /\ In(r, down)
        BY <1>1, <3>4, Taken DEF ClientReceive, PacketSet
      <4>2. r.type \in {"PUBLISH", "PUBREL", "PUBREC", "PUBCOMP"}
        BY <1>1, <4>1 DEF TypeInv, PacketSet
      <4>3. PICK t \in {"PUBACK", "PUBCOMP", "PUBREL"} :
              up' = Append(up, Packet(t, r.id)) /\ (t = "PUBREL" \/ r.type \in {"PUBLISH", "PUBREL"})
        BY <3>4, <4>2 DEF ClientReceive, Answer
      <4>4. Packet(t, r.id) \in PacketSet /\ Packet(t, r.id).id = r.id /\ Packet(t, r.id).type = t
        BY <4>1, PacketType DEF Packet
      <4> QED
        BY <2>3, <4>1, <4>3, <4>4
    <3> QED
      BY <1>3, <3>1, <3>2, <3>3, <3>4
      DEF Next, Listen, Client, Close, Restart, HandlePublish, HandlePubRel, HandleAck, Publish, Retry, Deliver, Queue, vars
  <2>5. \A p : In(p, down') /\ p.type \in {"PUBLISH", "PUBREL"} => In(p, down) \/ ~Own(p.id)'
    <3>1. ASSUME NEW p \in PacketSet, down' = Append(down, p), p.type \in {"PUBREC", "PUBCOMP"} \/ ~Own(p.id)'
          PROVE  \A q : In(q, down') /\ q.type \in {"PUBLISH", "PUBREL"} => In(q, down) \/ ~Own(q.id)'
      BY <1>1, <3>1, Appended
    <3>2. ASSUME HandlePublish \/ HandlePubRel
          PROVE  \E p \in PacketSet : down' = Append(down, p) /\ p.type \in {"PUBREC", "PUBCOMP"}
      <4>1. Head(up).id \in PacketIds
        BY <1>1, <3>2, ReadsType DEF HandlePublish, HandlePubRel
      <4>2. \A t \in {"PUBREC", "PUBCOMP"} : Packet(t, Head(up).id) \in PacketSet /\ Packet(t, Head(up).id).type = t
        BY <4>1, PacketType DEF Packet
      <4> QED
        BY <3>2, <4>2 DEF HandlePublish, HandlePubRel, emit
    <3>3. ASSUME NEW id \in PacketIds, Retry(id) \/ Deliver(id)
          PROVE  \E p \in PacketSet : down' = Append(down, p) /\ ~Own(p.id)'
      <4>1. ~Own(id)'
        <5>1. CASE Retry(id)
          BY <2>3, <5>1 DEF Retry
        <5>2. CASE Deliver(id)
          BY <5>2 DEF Deliver, Own
        <5> QED
          BY <3>3, <5>1, <5>2
      <4>2. PICK t \in {"PUBLISH", "PUBREL", "PUBCOMP"} : down' = Append(down, Packet(t, id))
        BY <3>3 DEF Retry, Deliver, emit
      <4>3. Packet(t, id) \in PacketSet /\ Packet(t, id).id = id
        BY PacketType DEF Packet
      <4> QED
        BY <4>1, <4>2, <4>3
    <3>4. CASE ClientReceive
      BY <1>1, <3>4, Received
    <3> QED
      BY <1>3, <3>1, <3>2, <3>3, <3>4
      DEF Next, Listen, Client, Close, Restart, HandleAck, Publish, Queue,
          ClientPublish, ClientResume, ClientResend, vars
  <2>6. \A id \in PacketIds : retry'[id] # "none" \/ id \in shared' => retry[id] # "none" \/ id \in shared
    <3>1. CASE HandlePubRel
      BY <1>1, <3>1 DEF HandlePubRel, TypeInv, TypeOK
    <3>2. CASE HandleAck
      BY <1>1, <3>2 DEF HandleAck, TypeInv, TypeOK
    <3>3. CASE HandlePublish
      BY <3>3 DEF HandlePublish, StoreInbound
    <3>4. CASE UNCHANGED <<retry, shared>>
      BY <3>4
    <3> QED
      BY <1>3, <2>1, <3>1, <3>2, <3>3, <3>4
      DEF Next, Listen, Client, Close, Restart, Publish, Retry, Deliver, Queue, ClientReceive,
          ClientPublish, ClientResume, ClientResend, vars, sessionVars
  <2> QED
    BY <2>3, <2>4, <2>5, <2>6 DEF Foreign
<1> QED
  BY <1>2, <1>3

\* EachOnce is inductive: what the broker reads ...
LEMMA ReadOnce ==
    ASSUME HandshakeInv, OnceInv, Listen, NEW m \in Msgs, Own(PacketID[m])'
    PROVE  Once(up, Count(conn, m), store[PacketID[m]], client[m], m)'
<1> DEFINE r == Head(up)
           id == PacketID[m]
<1>1. PICK t : Reads(t)
  BY DEF Listen, HandlePublish, HandlePubRel, HandleAck
<1>2. /\ TypeInv /\ [Next]_vars /\ ~Connect
      /\ up \in Seq(PacketSet) /\ up # <<>> /\ up' = Tail(up) /\ client' = client
      /\ link = "up" /\ conn \in Conns /\ r \in PacketSet /\ r.id \in PacketIds /\ In(r, up) /\ id \in PacketIds
  BY <1>1, ReadsType, InboundAssumption
  DEF HandshakeInv, TypeInv, TypeOK, Reads, Next, Listen, HandlePublish, HandlePubRel, HandleAck, Connect, clientVars
<1>3. conn' = conn /\ Own(id)
  BY <1>2, OwnShrinks
<1>4. PICK q, n, e, s : q = up /\ n = Count(conn, m) /\ e = store[id] /\ s = client[m]
  OBVIOUS
<1>5. q \in Seq(PacketSet) /\ q # <<>> /\ Once(q, n, e, s, m) /\ up' = Tail(q) /\ Head(q) = r
  BY <1>2, <1>3, <1>4 DEF OnceInv, EachOnce
<1>6. Once(Tail(q), n, e, s, m) /\ n \in {0, 1} /\ Tail(q) \in Seq(PacketSet)
  BY <1>5, OnceTail DEF Once
<1>7. ASSUME NEW n2, NEW e2, Count(conn, m)' = n2, store'[id] = e2, Once(Tail(q), n2, e2, s, m)
      PROVE  Once(up, Count(conn, m), store[PacketID[m]], client[m], m)'
  BY <1>2, <1>4, <1>5, <1>7
<1>8. CASE HandlePublish
  <2>1. /\ r.type = "PUBLISH" /\ r.msg \in Msgs /\ PacketID[r.msg] = r.id
        /\ \/ /\ r.dup /\ store[r.id] # "none" /\ store' = store
              /\ Count(conn, m)' = n
           \/ /\ ~(r.dup /\ store[r.id] # "none") /\ store' = [store EXCEPT ![r.id] = "in"]
              /\ Count(conn, m)' = IF m = r.msg THEN n + 1 ELSE n
    BY <1>2, <1>3, <1>4, <1>8, PublishCounts
  <2>2. CASE store' = store /\ Count(conn, m)' = n
    BY <1>4, <1>6, <1>7, <2>2
  <2>3. CASE /\ ~(r.dup /\ store[r.id] # "none") /\ store' = [store EXCEPT ![r.id] = "in"]
             /\ Count(conn, m)' = IF m = r.msg THEN n + 1 ELSE n
    <3>1. store'[id] = IF id = r.id THEN "in" ELSE e
      BY <1>2, <1>4, <2>3 DEF TypeInv, TypeOK
    <3>2. CASE m = r.msg
      <4>1. Of(Head(q), m) /\ ~(Head(q).dup /\ e # "none") /\ store'[id] = "in"
        BY <1>4, <1>5, <2>1, <2>3, <3>1, <3>2 DEF Of
      <4>2. n = 0 /\ Once(Tail(q), 1, "in", s, m)
        BY <1>5, <4>1, OncePublished
      <4>3. Count(conn, m)' = 1
        BY <2>3, <3>2, <4>2
      <4> QED
        BY <1>7, <4>1, <4>2, <4>3
    <3>3. CASE m # r.msg
      <4>1. PICK e2 : e2 = store'[id]
        OBVIOUS
      <4>2. e2 # "none" \/ e2 = e
        BY <3>1, <4>1
      <4>3. Once(Tail(q), n, e2, s, m)
        BY <1>6, <4>2, OnceLess
      <4> QED
        BY <1>7, <2>3, <3>3, <4>1, <4>3
    <3> QED
      BY <3>2, <3>3
  <2> QED
    BY <2>1, <2>2, <2>3
<1>9. CASE ~HandlePublish
  <2>1. PICK n2 : n2 = Count(conn, m)'
    OBVIOUS
  <2>2. n2 \in {0, n}
    BY <1>2, <1>3, <1>4, <1>6, <1>9, <2>1, CountStays
  <2>3. CASE HandlePubRel /\ r.id = id
    <3>1. store'[id] = "none" /\ IsRel(Head(q), m)
      BY <1>2, <1>5, <2>3 DEF HandlePubRel, Reads, IsRel, TypeInv, TypeOK
    <3>2. Once(Tail(q), n, "none", s, m)
      BY <1>5, <3>1, OnceReleased
    <3>3. Once(Tail(q), n2, "none", s, m)
      BY <1>6, <2>2, <3>2, OnceLess
    <3> QED
      BY <1>7, <2>1, <3>1, <3>3
  <2>4. CASE HandlePubRel /\ r.id # id
    <3>1. store'[id] = e
      BY <1>2, <1>4, <2>4 DEF HandlePubRel, TypeInv, TypeOK
    <3>2. Once(Tail(q), n2, e, s, m)
      BY <1>6, <2>2, OnceLess
    <3> QED
      BY <1>7, <2>1, <3>1, <3>2
  <2>5. CASE HandleAck
    <3>1. r.type \in {"PUBACK", "PUBCOMP"}
      BY <2>5 DEF HandleAck, Reads
    <3>2. r.id # id
      BY <1>2, <1>3, <3>1 DEF OnceInv, Foreign
    <3>3. store'[id] = e
      BY <1>2, <1>4, <2>5, <3>2 DEF HandleAck, Acknowledged, TypeInv, TypeOK
    <3>4. Once(Tail(q), n2, e, s, m)
      BY <1>6, <2>2, OnceLess
    <3> QED
      BY <1>7, <2>1, <3>3, <3>4
  <2> QED
    BY <1>9, <2>3, <2>4, <2>5 DEF Listen
<1> QED
  BY <1>8, <1>9

\* ... what the client sends ...
LEMMA SentOnce ==
    ASSUME HandshakeInv, OnceInv, NEW l \in Msgs, ClientPublish(l) \/ ClientResume(l) \/ ClientResend(l),
           NEW m \in Msgs, Own(PacketID[m])'
    PROVE  Once(up, Count(conn, m), store[PacketID[m]], client[m], m)'
<1> DEFINE id == PacketID[m]
<1>1. /\ TypeInv /\ [Next]_vars /\ link = "up" /\ store' = store
      /\ UNCHANGED <<conn, published, publishing>>
      /\ up \in Seq(PacketSet) /\ ~Connect /\ conn \in Conns
  <2>1. link = "up" /\ store' = store /\ UNCHANGED <<conn, published, publishing>>
    BY DEF ClientPublish, ClientResume, ClientResend, sessionVars, historyVars
  <2>2. [Next]_vars
    BY DEF Next, Client
  <2>3. TypeInv /\ up \in Seq(PacketSet) /\ conn \in Conns
    BY <2>1, InboundAssumption DEF HandshakeInv, TypeInv, TypeOK, Conns
  <2> QED
    BY <2>1, <2>2, <2>3 DEF Connect
<1>2. Own(id) /\ Count(conn, m)' = Count(conn, m)
  BY <1>1, OwnShrinks DEF Count
<1>3. PICK q, n, e, s : q = up /\ n = Count(conn, m) /\ e = store[id] /\ s = client[m]
  OBVIOUS
<1>4. q \in Seq(PacketSet) /\ Once(q, n, e, s, m)
  BY <1>1, <1>2, <1>3 DEF OnceInv, EachOnce
<1>5. ASSUME NEW p \in PacketSet, up' = Append(q, p), client'[m] = s, Once(Append(q, p), n, e, s, m)
      PROVE  Once(up, Count(conn, m), store[PacketID[m]], client[m], m)'
  BY <1>1, <1>2, <1>3, <1>5
<1>6. ASSUME ClientPublish(l) PROVE Once(up, Count(conn, m), store[PacketID[m]], client[m], m)'
  <2>1. PICK p \in PacketSet : p = Publication(l, FALSE)
    BY PublicationType
  <2>2. /\ up' = Append(q, p) /\ client' = [client EXCEPT ![l] = "publishing"] /\ client[l] = "idle"
        /\ p.type = "PUBLISH" /\ p.msg = l
    BY <1>3, <1>6, <2>1 DEF ClientPublish, Answer, Publication
  <2>3. CASE l = m
    <3>1. n = 0
      BY <1>1, <1>3, <2>2, <2>3 DEF OnceInv, Fresh
    <3>2. \A i \in DOMAIN q : ~Of(q[i], m)
      BY <1>3, <2>2, <2>3 DEF HandshakeInv, PublishBegun, Begun, In, Of
    <3>3. PICK s2 : s2 = client'[m]
      OBVIOUS
    <3>4. Once(Append(q, p), 0, e, s2, m)
      BY <1>4, <2>2, <2>3, <3>2, OnceBegun DEF Of
    <3> QED
      BY <1>1, <1>2, <1>3, <2>2, <3>1, <3>3, <3>4
  <2>4. CASE l # m
    <3>1. client'[m] = s
      BY <1>1, <1>3, <2>2, <2>4 DEF TypeInv, TypeOK
    <3>2. ~Of(p, m) /\ ~IsRel(p, m)
      BY <2>2, <2>4 DEF Of, IsRel
    <3> QED
      BY <1>4, <1>5, <2>2, <3>1, <3>2, OnceOther
  <2> QED
    BY <2>3, <2>4
<1>7. ASSUME ClientResume(l) \/ ClientResend(l)
      PROVE  Once(up, Count(conn, m), store[PacketID[m]], client[m], m)'
  <2>1. client' = client /\ client[l] \in {"publishing", "releasing"} /\ Again(l)
    BY <1>1, <1>7 DEF ClientResume, ClientResend, clientVars, TypeInv, TypeOK
  <2>2. CASE client[l] = "publishing"
    <3>1. PICK p \in PacketSet : p = Publication(l, TRUE)
      BY PublicationType
    <3>2. up' = Append(q, p) /\ client'[m] = s /\ p.type = "PUBLISH" /\ p.msg = l /\ p.dup
      BY <1>3, <2>1, <2>2, <3>1 DEF Again, Answer, Publication
    <3>3. CASE l = m
      <4>1. Once(Append(q, p), n, e, s, m)
        BY <1>3, <1>4, <2>2, <3>2, <3>3, OnceAgain DEF Of
      <4> QED
        BY <1>5, <3>2, <4>1
    <3>4. CASE l # m
      <4>1. Once(Append(q, p), n, e, s, m)
        BY <1>4, <3>2, <3>4, OnceOther DEF Of, IsRel
      <4> QED
        BY <1>5, <3>2, <4>1
    <3> QED
      BY <3>3, <3>4
  <2>3. CASE client[l] = "releasing"
    <3>1. PICK p \in PacketSet : p = Packet("PUBREL", PacketID[l])
      BY PacketType, InboundAssumption
    <3>2. up' = Append(q, p) /\ client'[m] = s /\ p.type = "PUBREL" /\ p.id = PacketID[l]
      BY <1>3, <2>1, <2>3, <3>1 DEF Again, Answer, Packet
    <3>3. CASE PacketID[l] = id
      <4>1. s # "publishing"
        BY <1>3, <2>3, <3>3 DEF HandshakeInv, OneInProgress
      <4>2. Once(Append(q, p), n, e, s, m)
        BY <1>4, <3>2, <3>3, <4>1, OnceReleasing DEF IsRel
      <4> QED
        BY <1>5, <3>2, <4>2
    <3>4. CASE PacketID[l] # id
      <4>1. Once(Append(q, p), n, e, s, m)
        BY <1>4, <3>2, <3>4, OnceOther DEF Of, IsRel
      <4> QED
        BY <1>5, <3>2, <4>1
    <3> QED
      BY <3>3, <3>4
  <2> QED
    BY <2>1, <2>2, <2>3
<1> QED
  BY <1>6, <1>7

\* ... and what it answers.
LEMMA AnsweredOnce ==
    ASSUME HandshakeInv, OnceInv, ClientReceive, NEW m \in Msgs, Own(PacketID[m])'
    PROVE  Once(up, Count(conn, m), store[PacketID[m]], client[m], m)'
<1> DEFINE id == PacketID[m]
           r == Head(down)
<1>1. /\ TypeInv /\ [Next]_vars /\ link = "up" /\ store' = store
      /\ UNCHANGED <<conn, published, publishing>>
      /\ up \in Seq(PacketSet) /\ ~Connect /\ conn \in Conns
  <2>1. link = "up" /\ store' = store /\ UNCHANGED <<conn, published, publishing>>
    BY DEF ClientReceive, sessionVars, historyVars
  <2>2. [Next]_vars
    BY DEF Next, Client
  <2>3. TypeInv /\ up \in Seq(PacketSet) /\ conn \in Conns
    BY <2>1, InboundAssumption DEF HandshakeInv, TypeInv, TypeOK, Conns
  <2> QED
    BY <2>1, <2>2, <2>3 DEF Connect
<1>2. Own(id) /\ Count(conn, m)' = Count(conn, m)
  BY <1>1, OwnShrinks DEF Count
<1>3. PICK q, n, e, s, s2 : q = up /\ n = Count(conn, m) /\ e = store[id] /\ s = client[m] /\ s2 = client'[m]
  OBVIOUS
<1>4. q \in Seq(PacketSet) /\ Once(q, n, e, s, m) /\ n \in {0, n}
  BY <1>1, <1>2, <1>3 DEF OnceInv, EachOnce
<1>5. s2 = "publishing" => s = "publishing"
  BY <1>1, <1>3, Received
<1>6. Once(q, n, e, s2, m)
  BY <1>4, <1>5, OnceLess
<1>7. r \in PacketSet /\ r.id \in PacketIds /\ r.type \in {"PUBLISH", "PUBREL", "PUBREC", "PUBCOMP"}
  BY <1>1, Received DEF PacketSet, TypeInv
<1>8. CASE up' = up
  BY <1>1, <1>2, <1>3, <1>6, <1>8
<1>9. CASE up' # up
  <2>1. PICK t \in {"PUBACK", "PUBCOMP", "PUBREL"} :
          /\ up' = Append(q, Packet(t, r.id))
          /\ t = "PUBREL" =>
               client' = [k \in Msgs |-> IF k \in InProgress(r.id) THEN "releasing" ELSE client[k]]
    BY <1>3, <1>7, <1>9 DEF ClientReceive, Answer
  <2>2. PICK p \in PacketSet : p = Packet(t, r.id)
    BY <1>7, PacketType
  <2>3. p.type = t /\ p.id = r.id /\ up' = Append(q, p)
    BY <2>1, <2>2 DEF Packet
  <2>4. CASE IsRel(p, m)
    <3>1. t = "PUBREL" /\ r.id = id
      BY <2>3, <2>4 DEF IsRel
    <3>2. s2 # "publishing"
      BY <1>3, <2>1, <3>1 DEF InProgress
    <3>3. Once(Append(q, p), n, e, s2, m)
      BY <1>4, <1>6, <2>4, <3>2, OnceReleasing
    <3> QED
      BY <1>1, <1>2, <1>3, <2>3, <3>3
  <2>5. CASE ~IsRel(p, m)
    <3>1. Once(Append(q, p), n, e, s2, m)
      BY <1>4, <1>6, <2>3, <2>5, OnceOther DEF Of
    <3> QED
      BY <1>1, <1>2, <1>3, <2>3, <3>1
  <2> QED
    BY <2>4, <2>5
<1> QED
  BY <1>8, <1>9

\* The remaining steps leave the queue alone, or begin it.
LEMMA NextEachOnce == HandshakeInv /\ OnceInv /\ [Next]_vars => EachOnce'
<1> SUFFICES ASSUME HandshakeInv, OnceInv, [Next]_vars, link' = "up", NEW m \in Msgs, Own(PacketID[m])'
             PROVE  Once(up, Count(conn, m), store[PacketID[m]], client[m], m)'
  BY DEF EachOnce
<1>1. CASE Connect
  <2>1. up' = <<>> /\ conn' \in Conns /\ conn' = conn + 1 /\ conn \in Int /\ UNCHANGED <<published, publishing>>
    BY <1>1, InboundAssumption DEF Connect, HandshakeInv, TypeInv, TypeOK, Conns
  <2>2. PICK c \in Conns : c = conn'
    BY <2>1
  <2>3. Count(c, m) = 0 /\ Count(conn, m)' = Count(c, m)
    BY <2>1, <2>2 DEF OnceInv, Fresh, Count
  <2>4. PICK e, s : e = store'[PacketID[m]] /\ s = client'[m]
    OBVIOUS
  <2>5. Once(<<>>, 0, e, s, m)
    BY OnceEmpty
  <2> QED
    BY <2>1, <2>3, <2>4, <2>5
<1>2. CASE Listen
  BY <1>2, ReadOnce
<1>3. CASE ClientReceive
  BY <1>3, AnsweredOnce
<1>4. ASSUME NEW l \in Msgs, ClientPublish(l) \/ ClientResume(l) \/ ClientResend(l)
      PROVE  Once(up, Count(conn, m), store[PacketID[m]], client[m], m)'
  BY <1>4, SentOnce
<1>5. CASE UNCHANGED <<link, conn, up, store, client>> /\ ~Connect /\ ~HandlePublish
  <2>1. Own(PacketID[m]) /\ conn \in Conns /\ up \in Seq(PacketSet)
    BY <1>5, OwnShrinks, InboundAssumption DEF HandshakeInv, TypeInv, TypeOK, Conns
  <2>2. PICK q, n, n2, e, s : /\ q = up /\ n = Count(conn, m) /\ n2 = Count(conn, m)'
                              /\ e = store[PacketID[m]] /\ s = client[m]
    OBVIOUS
  <2>3. Once(q, n, e, s, m) /\ n \in {0, 1} /\ q \in Seq(PacketSet)
    BY <1>5, <2>1, <2>2 DEF OnceInv, EachOnce, Once
  <2>4. n2 \in {0, n}
    BY <1>5, <2>1, <2>2, <2>3, CountStays DEF HandshakeInv
  <2>5. Once(q, n2, e, s, m)
    BY <2>3, <2>4, OnceLess
  <2> QED
    BY <1>5, <2>2, <2>5
<1>6. \/ Connect \/ Listen \/ ClientReceive
      \/ \E l \in Msgs : ClientPublish(l) \/ ClientResume(l) \/ ClientResend(l)
      \/ UNCHANGED <<link, conn, up, store, client>>
  BY DEF Next, Client, Close, Restart, Publish, Retry, Deliver, Queue, vars, sessionVars, clientVars
<1> QED
  BY <1>1, <1>2, <1>3, <1>4, <1>5, <1>6 DEF Listen

\* AtMost is inductive: on the open connection by EachOnce, on the others
\* because only HandlePublish of the open one counts.
LEMMA NextAtMost == HandshakeInv /\ OnceInv /\ [Next]_vars => AtMost'
<1> SUFFICES ASSUME HandshakeInv, OnceInv, [Next]_vars, NEW c \in Conns, NEW m \in Msgs,
                    PacketID[m] \notin leftover'[c] \cup used'
             PROVE  Count(c, m)' \in {0, 1}
  BY DEF AtMost
<1>1. CASE Connect
  <2>1. /\ conn \in 0..MaxConns /\ conn + 1 \in Conns /\ c \in Int /\ used' = used
        /\ \A d \in Conns : d # conn + 1 => leftover'[d] = leftover[d]
    BY <1>1, InboundAssumption DEF Connect, HandshakeInv, TypeInv, TypeOK, Conns
  <2>2. Count(c, m) \in {0, 1}
    <3>1. CASE c = conn + 1
      BY <2>1, <3>1 DEF OnceInv, Fresh
    <3>2. CASE c # conn + 1
      BY <2>1, <3>2 DEF OnceInv, AtMost
    <3> QED
      BY <3>1, <3>2
  <2>3. ~HandlePublish
    BY <1>1 DEF HandlePublish, Reads, Connect
  <2> QED
    BY <2>2, <2>3, CountStays DEF HandshakeInv
<1>2. CASE ~Connect
  <2>1. Count(c, m) \in {0, 1} /\ conn' = conn
    BY <1>2, OwnShrinks DEF OnceInv, AtMost
  <2>2. CASE ~HandlePublish
    BY <2>1, <2>2, CountStays DEF HandshakeInv
  <2>3. CASE HandlePublish /\ c # conn
    BY <2>1, <2>3, PublishCounts
  <2>4. CASE HandlePublish /\ c = conn
    <3>1. link' = "up"
      BY <2>4 DEF HandlePublish, Reads
    <3>2. Own(PacketID[m])'
      BY <2>1, <2>4 DEF Own
    <3>3. Once(up, Count(conn, m), store[PacketID[m]], client[m], m)'
      BY <3>1, <3>2, NextEachOnce DEF EachOnce
    <3> QED
      BY <2>1, <2>4, <3>3 DEF Once
  <2> QED
    BY <2>2, <2>3, <2>4
<1> QED
  BY <1>1, <1>2

\* A message is published at most once on a connection on which its identifier
\* is the client's own, however often the client sends it and whatever is
\* acknowledged, resent or cut short (client.go:431-441, 478-479).
THEOREM PublishedOnce == Spec => []OncePerConnection
<1>1. OnceInv /\ HandshakeInv => OncePerConnection
  <2> SUFFICES ASSUME OnceInv, HandshakeInv, NEW c \in Conns, NEW m \in Msgs,
                      PacketID[m] \notin leftover[c] \cup used
               PROVE  published[c][m] <= 1
    BY DEF OncePerConnection
  <2>1. Count(c, m) \in {0, 1} /\ published[c][m] <= Count(c, m) /\ published[c][m] \in Nat
    BY CountType DEF OnceInv, AtMost, HandshakeInv, TypeInv, TypeOK
  <2> QED
    BY <2>1
<1>2. HandshakeInv /\ OnceInv /\ [Next]_vars => OnceInv'
  BY NextFresh, NextForeign, NextAtMost, NextEachOnce DEF OnceInv
<1> QED
  BY <1>1, <1>2, InitHandshake, NextHandshake, InitOnce, PTL DEF Spec
====
