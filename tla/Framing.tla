---- MODULE Framing ----
(***************************************************************************)
(* How listen cuts the bytes that follow CONNECT into packets: over TCP,   *)
(* whose segments end anywhere, and over WebSockets, whose frames do.      *)
(*                                                                         *)
(* Over TCP the two bytes of the fixed header are read with one Read of a  *)
(* bufio.Reader, which gives what it has; everything else is read in full. *)
(* Over WebSockets everything is read in full, and each packet starts with *)
(* the next frame.  A misplaced byte is read as whatever it stands for.    *)
(***************************************************************************)
EXTENDS Integers, Sequences, SequencesExt

CONSTANTS
    Base,       \* 128: a length byte holds a digit, and Base if another follows
    TypeOf,     \* first byte -> "ack" (of fixed length), "release" (PUBREL), "body",
                \* "ping" (nothing is read after the header), or "none" (the loop ends)
    AckRemLen,  \* PubackRemLen, PubrelRemLen, ...
    MinRemLen,  \* what is shorter is refused, or fails
    Packets,    \* the well-formed packets: first byte and body
    MaxPackets, \* bound: packets the client sends
    BufSize     \* the most a segment or frame brings at a time

Bytes == 0..(2 * Base - 1)

ASSUME FramingAssumption ==
    /\ Base \in Nat /\ Base > 1
    /\ TypeOf \in [Bytes -> {"ack", "release", "body", "ping", "none"}]
    /\ AckRemLen \in Nat \ {0} /\ MinRemLen \in Nat \ {0}
    /\ Packets \subseteq [first : Bytes, body : Seq(Bytes)]
    /\ \A p \in Packets :
         /\ Len(p.body) < Base * Base * Base * Base
         /\ TypeOf[p.first] \in {"ack", "release"} => Len(p.body) = AckRemLen
         /\ TypeOf[p.first] = "body" => Len(p.body) >= MinRemLen
         /\ TypeOf[p.first] = "ping" => p.body = <<>>
         /\ TypeOf[p.first] # "none"
    /\ \A b \in Bytes : TypeOf[b] = "ping" => [first |-> b, body |-> <<>>] \in Packets
    /\ MaxPackets \in Nat /\ BufSize \in Nat \ {0}

VARIABLES
    ws,         \* the connection is a WebSocket
    net,        \* bytes on the way to the broker
    buf,        \* the buffer of the reader, or the rest of the frame
    pc,         \* what listen is at: "start", "header", "length", "body" or "closed"
    got,        \* the bytes of the present read
    first,      \* the first byte of the packet
    lens,       \* remLenEncoded
    hungUp,     \* the client has closed the connection
    connected,  \* c.connected: no other connection has taken over its client id
    sent,       \* history: the packets of the client
    handled,    \* history: the packets listen has handled
    short,      \* history: a header was read from one byte
    lost        \* history: a frame held more than its packet

packetVars == <<pc, got, first, lens>>
peerVars == <<ws, hungUp, connected, sent>>
vars == <<peerVars, net, buf, packetVars, handled, short, lost>>

----------------------------------------------------------------------------
Power == <<1, Base, Base * Base, Base * Base * Base>>

\* The number of bytes that Encode makes.
Digits(x) ==
    CASE x = 0 -> 0
      [] x \in 1..(Power[2] - 1) -> 1
      [] x \in Power[2]..(Power[3] - 1) -> 2
      [] x \in Power[3]..(Power[4] - 1) -> 3
      [] OTHER -> 4

\* Mutant: the most significant digit comes first.
EncodeBackwards(x) ==
    [i \in 1..Digits(x) |->
        ((x \div Power[Digits(x) + 1 - i]) % Base) + (IF i < Digits(x) THEN Base ELSE 0)]

\* For what MQTT allows, below Base^4.
Encode(x) ==
    [i \in 1..Digits(x) |-> ((x \div Power[i]) % Base) + (IF i < Digits(x) THEN Base ELSE 0)]

Malformed == -1

\* For the bytes listen has collected; the fourth one makes mult too large,
\* whatever it holds.
Decode(s) ==
    LET part(i) == IF i <= Len(s) THEN (s[i] % Base) * Power[i] ELSE 0
    IN  IF Len(s) > 3 THEN Malformed ELSE part(1) + part(2) + part(3)

\* Where Encode makes nothing of 0, a client sends a byte.
Wire(p) == <<p.first>> \o (IF p.body = <<>> THEN <<0>> ELSE Encode(Len(p.body))) \o p.body

----------------------------------------------------------------------------
\* The client sends a packet, ...
Send(p) ==
    /\ ~hungUp /\ Len(sent) < MaxPackets
    /\ sent' = Append(sent, p) /\ net' = net \o Wire(p)
    /\ UNCHANGED <<ws, hungUp, connected, buf, packetVars, handled, short, lost>>

\* ... or closes the connection.
HangUp ==
    /\ ~hungUp
    /\ hungUp' = TRUE
    /\ UNCHANGED <<ws, connected, sent, net, buf, packetVars, handled, short, lost>>

\* addClient closes the connection for another one with the same client id.  The
\* flag and the socket are not closed in one step: a read may still succeed.
TakeOver ==
    /\ connected
    /\ connected' = FALSE
    /\ UNCHANGED <<ws, hungUp, sent, net, buf, packetVars, handled, short, lost>>

Reading == pc \in {"header", "length", "body"}

\* A read that finds nothing waits for a segment or frame, of any size.
Receive(k) ==
    /\ Reading /\ buf = <<>> /\ k <= Len(net)
    /\ buf' = SubSeq(net, 1, k) /\ net' = SubSeq(net, k + 1, Len(net))
    /\ UNCHANGED <<peerVars, packetVars, handled, short, lost>>

\* No more will come, or the broker itself has closed the socket.
ReadFails ==
    /\ Reading /\ buf = <<>>
    /\ (net = <<>> /\ hungUp) \/ ~connected
    /\ pc' = "closed"
    /\ UNCHANGED <<peerVars, net, buf, got, first, lens, handled, short, lost>>

\* The next turn of the loop: wsNextReader drops what is left of the frame.
Start ==
    /\ pc = "start" /\ connected
    /\ pc' = "header" /\ got' = <<>>
    /\ IF ws THEN buf' = <<>> /\ lost' = (lost \/ buf # <<>>) ELSE UNCHANGED <<buf, lost>>
    /\ UNCHANGED <<peerVars, net, first, lens, handled, short>>

\* Or there is none: the connection was closed by addClient.
Leave ==
    /\ pc = "start" /\ ~connected
    /\ pc' = "closed"
    /\ UNCHANGED <<peerVars, net, buf, got, first, lens, handled, short, lost>>

\* Mutant: a read takes all there is.
TakeEverything(n) ==
    /\ buf # <<>>
    /\ got' = got \o buf /\ buf' = <<>>

\* A read of n bytes takes what it can.
Take(n) ==
    /\ buf # <<>>
    /\ LET k == IF n - Len(got) < Len(buf) THEN n - Len(got) ELSE Len(buf) IN
       /\ got' = got \o SubSeq(buf, 1, k)
       /\ buf' = SubSeq(buf, k + 1, Len(buf))

WantsHeader(bytes) == /\ first' = bytes[1] /\ lens' = <<bytes[2]>> /\ pc' = "length"

\* read: over TCP one Read, and the second byte stays 0 if it was not there.
ReadHeader ==
    /\ pc = "header"
    /\ Take(2)
    /\ IF Len(got') = 2 THEN WantsHeader(got') /\ UNCHANGED short
       ELSE IF ws THEN UNCHANGED <<first, lens, pc, short>>
       ELSE WantsHeader(Append(got', 0)) /\ short' = TRUE
    /\ UNCHANGED <<peerVars, net, handled, lost>>

\* The last length byte says that there is one more.
Continues == Last(lens) >= Base

ReadLength ==
    /\ pc = "length" /\ Continues /\ buf # <<>>
    /\ lens' = Append(lens, Head(buf)) /\ buf' = Tail(buf)
    /\ UNCHANGED <<peerVars, net, pc, got, first, handled, short, lost>>

RemLen == Decode(lens)

Header == pc = "length" /\ ~Continues

\* Four length bytes, a type or a length that cannot be.
Break ==
    /\ Header
    /\ \/ RemLen = Malformed
       \/ TypeOf[first] = "none"
       \/ TypeOf[first] = "ack" /\ RemLen # AckRemLen
       \/ TypeOf[first] = "body" /\ RemLen < MinRemLen
    /\ pc' = "closed"
    /\ UNCHANGED <<peerVars, net, buf, got, first, lens, handled, short, lost>>

\* PINGREQ: the remaining length is not looked at.
HandlePing ==
    /\ Header /\ RemLen # Malformed /\ TypeOf[first] = "ping"
    /\ handled' = Append(handled, [first |-> first, body |-> <<>>])
    /\ pc' = "start"
    /\ UNCHANGED <<peerVars, net, buf, got, first, lens, short, lost>>

\* PUBREL is read with its proper length, whatever its header says.
Want == IF TypeOf[first] = "release" THEN AckRemLen ELSE RemLen

StartBody ==
    /\ Header
    /\ \/ TypeOf[first] = "ack" /\ RemLen = AckRemLen
       \/ TypeOf[first] = "release" /\ RemLen # Malformed
       \/ TypeOf[first] = "body" /\ RemLen >= MinRemLen
    /\ pc' = "body" /\ got' = <<>>
    /\ UNCHANGED <<peerVars, net, buf, first, lens, handled, short, lost>>

\* Mutant: one byte too many.
FullAndOne == Len(got') = Want + 1

\* Mutant: one Read is enough for the body as well.
FullAtOnce == got' # <<>>

Full == Len(got') = Want

\* readFull, and then the packet is handled, or refused as malformed.
ReadBody ==
    /\ pc = "body"
    /\ Take(Want)
    /\ LET p == [first |-> first, body |-> got'] IN
       IF ~Full THEN UNCHANGED <<pc, handled>>
       ELSE IF p \in Packets THEN pc' = "start" /\ handled' = Append(handled, p)
       ELSE pc' = "closed" /\ UNCHANGED handled
    /\ UNCHANGED <<peerVars, net, first, lens, short, lost>>

----------------------------------------------------------------------------
Init ==
    /\ ws \in BOOLEAN /\ hungUp = FALSE /\ connected = TRUE /\ sent = <<>>
    /\ net = <<>> /\ buf = <<>>
    /\ pc = "start" /\ got = <<>> /\ first = 0 /\ lens = <<0>>
    /\ handled = <<>> /\ short = FALSE /\ lost = FALSE

Listen ==
    \/ \E k \in 1..BufSize : Receive(k)
    \/ ReadFails \/ Start \/ Leave \/ ReadHeader \/ ReadLength
    \/ Break \/ HandlePing \/ StartBody \/ ReadBody

Next == Listen \/ HangUp \/ TakeOver \/ \E p \in Packets : Send(p)

Spec == Init /\ [][Next]_vars

\* The network delivers and the listen goroutine reads.
Fairness == WF_vars(Listen)

FairSpec == Spec /\ Fairness

----------------------------------------------------------------------------
\* Type invariant; no read takes more than it asked for.
TypeOK ==
    /\ ws \in BOOLEAN /\ hungUp \in BOOLEAN /\ connected \in BOOLEAN
    /\ short \in BOOLEAN /\ lost \in BOOLEAN
    /\ pc \in {"start", "header", "length", "body", "closed"}
    /\ net \in Seq(Bytes) /\ buf \in Seq(Bytes) /\ got \in Seq(Bytes)
    /\ first \in Bytes /\ lens \in Seq(Bytes) \ {<<>>}
    /\ pc = "header" => Len(got) < 2
    /\ pc = "body" => RemLen # Malformed /\ Len(got) < Want
    /\ sent \in Seq(Packets) /\ handled \in Seq(Packets)

Disturbed == short \/ lost

\* What listen decodes is the length of the packet the client sent next, up to
\* three length bytes; it takes longer ones for malformed (bytes/encoding.go:22-39,
\* client.go:139-160).
DecodesTheLength ==
    Header /\ ~Disturbed =>
        LET n == Len(sent[Len(handled) + 1].body)
        IN  RemLen = IF n < Power[4] THEN n ELSE Malformed

\* Listen handles the packets the client has sent, whole and in order,
\* wherever segments and frames end; unless a segment ends after the first
\* byte of a packet, or a frame goes on after the end of one (client.go:44-105, 120-160).
HandledAsSent == ~Disturbed => IsPrefix(handled, sent)

\* listen gives up a connection only if the client has closed it, another one has
\* taken over its client id, the next packet is too long for three length bytes,
\* or for the reasons above (client.go:121-172, broker.go:170-175,
\* bytes/encoding.go:26-32).
ClosedForAReason ==
    pc = "closed" /\ connected /\ ~Disturbed =>
        \/ hungUp /\ net = <<>>
        \/ /\ Len(handled) < Len(sent)
           /\ Len(sent[Len(handled) + 1].body) >= Power[4]

\* Each packet is handled, if the connection stays, without waiting for
\* another one (client.go:60-105, 120-172).
EachIsHandled ==
    \A i \in 1..MaxPackets :
        Len(sent) >= i ~> (Len(handled) >= i \/ pc = "closed" \/ Disturbed)
====
