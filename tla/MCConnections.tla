---- MODULE MCConnections ----
EXTENDS Connections

CONSTANTS k1, k2, k3, id1

\* All connections are of one client id: only those meet each other.
OneId == [k \in Conns |-> id1]
====
