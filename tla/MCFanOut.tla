---- MODULE MCFanOut ----
EXTENDS FanOut, TLC

CONSTANTS s1, s2, p1, plus, a, A, B

\* s1 subscribes at both depths.  At the top it meets s2, another client, so
\* that its end removes its subscription from a list that somebody else is in;
\* below it meets p1, a connection of its own client.
SomeWants  == s1 :> {plus, a} @@ s2 :> {plus} @@ p1 :> {a}
TwoClients == s1 :> A @@ s2 :> B @@ p1 :> A
====
