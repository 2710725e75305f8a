SPECIFICATION FairSpec
CONSTANTS
    None = None
    s1 = s1
    s2 = s2
    p1 = p1
    plus = plus
    a = a
    A = A
    B = B
    Conns = {s1, s2, p1}
    ID <- TwoClients
    Clean = {p1}
    Names = {plus, a}
    Below = {a}
    Wild = {plus}
    Wants <- SomeWants
    Publishers = {p1}
    Leavers = {s1}
    Stalled = {s2}
INVARIANTS
    TypeOK
    AudienceServed
    OneSubscriptionEach
PROPERTIES
    NobodyWaitsForever
\* The system may stop: connections may stay idle.
CHECK_DEADLOCK FALSE
