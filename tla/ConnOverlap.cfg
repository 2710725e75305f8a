SPECIFICATION FairSpec
CONSTANTS
    None = None
    k1 = k1
    k2 = k2
    k3 = k3
    id1 = id1
    ClientIDs = {id1}
    ClientID <- OneId
    Conns = {k1, k2}
    Clean = {k2}
    HasWill = {k1, k2}
    Refused = {k1, k2}
INVARIANTS
    TypeOK
    GoneForGood
    WillUnlessGraceful
    NotifiedUnlessTakenOver
    ServedUnlessMet
PROPERTIES
    ClosedIsTakenApart
\* The system may stop: every connection comes to an end and none is reused.
CHECK_DEADLOCK FALSE
