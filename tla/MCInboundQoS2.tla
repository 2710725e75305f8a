---- MODULE MCInboundQoS2 ----
EXTENDS InboundQoS2

CONSTANTS m1, m2

\* The client uses an identifier again.
OneId == [m \in Msgs |-> 1]
====
