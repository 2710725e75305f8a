SPECIFICATION FairSpec
CONSTANTS
    None = None
    m1 = m1
    m2 = m2
    Msgs = {m1, m2}
    PacketIds = {1, 2}
    PacketID <- OneId
    BrokerIds = {2}
    Refusable = {m2}
    MaxConns = 3
    MaxResend = 1
INVARIANTS
    TypeOK
    OncePerConnection
    CompletedWasPublished
PROPERTIES
    HandshakeEnds
\* The system may stop: connections are bounded and the client may be idle.
CHECK_DEADLOCK FALSE
