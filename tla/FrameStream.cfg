SPECIFICATION FairSpec
CONSTANTS
    Base = 3
    TypeOf <- Types
    AckRemLen = 1
    MinRemLen = 2
    Packets <- SomePackets
    MaxPackets = 3
    BufSize = 3
INVARIANTS
    TypeOK
    DecodesTheLength
    HandledAsSent
    ClosedForAReason
PROPERTIES
    EachIsHandled
\* The system may stop: the client need not send, and a closed connection is idle.
CHECK_DEADLOCK FALSE
