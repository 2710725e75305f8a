---- MODULE MCFraming ----
EXTENDS Framing

\* With Base = 3 a byte is 0..5, and each type has one first byte.
Types == [b \in 0..5 |-> <<"none", "ping", "ack", "body", "release", "none">>[b + 1]]

\* A ping, an acknowledgement, a release, bodies with one, two and three
\* length digits, and one that is too long.  The shorter bodies hold bytes
\* that read as packets.
SomePackets ==
    {[first |-> 1, body |-> <<>>], [first |-> 2, body |-> <<1>>], [first |-> 4, body |-> <<0>>]} \cup
    {[first |-> 3, body |-> b] : b \in {<<1, 0>>, <<1, 0, 1>>, [i \in 1..9 |-> i % 3], [i \in 1..27 |-> 0]}}
====
