SPECIFICATION FairSpec
CONSTANTS
    None = None
    m1 = m1
    m2 = m2
    l1 = l1
    l2 = l2
    Msgs = {m1, m2}
    ExactlyOnce = {m2}
    Lists = {l1, l2}
    TopLists = {l1}
    Cleans = {3}
    InboundIds = {1}
    MaxConns = 4
    Failing = {2, 3}
INVARIANTS
    TypeOK
    QueuedIsKept
    AckedIsForgotten
    CleanStartsFromNothing
    ReplayInOrder
PROPERTIES
    ReplayGetsThrough
\* The system may stop: connections and messages are bounded.
CHECK_DEADLOCK FALSE
