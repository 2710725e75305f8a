SPECIFICATION Spec
CONSTANTS
    None = None
    live1 = live1
    live2 = live2
    ret1 = ret1
    s1 = s1
    s2 = s2
    Start = 1
    Bound = 2
    Live = {live1}
    Retained = {}
    Subscribers = {s1, s2}
    CleanSession = {}
    PubQoS <- PubQoS1
    SubQoS <- SubQoS1
    MaxResend = 1
    Wraps = TRUE
INVARIANTS
    AckedMeansDelivered
\* The system may stop: nobody has to publish, and closed connections stay closed.
CHECK_DEADLOCK FALSE
