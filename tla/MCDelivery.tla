---- MODULE MCDelivery ----
EXTENDS Delivery

CONSTANTS live1, live2, ret1, s1, s2

\* QoS of the messages and of the subscriptions, such that QoS 0, 1 and 2 and
\* a downgrade from 2 to 1 all occur.
PubQoS1 == [m \in Messages |-> IF m = live2 THEN 0 ELSE 2]
SubQoS1 == [s \in Subscribers |-> IF s = s2 THEN 1 ELSE 2]
====
