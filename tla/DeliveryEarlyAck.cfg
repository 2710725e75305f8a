SPECIFICATION Spec
CONSTANTS
    None = None
    live1 = live1
    live2 = live2
    ret1 = ret1
    s1 = s1
    s2 = s2
    Start = 1
    Bound = 3
    Live = {live1}
    Retained = {}
    Subscribers = {s1}
    CleanSession = {}
    PubQoS <- PubQoS1
    SubQoS <- SubQoS1
    MaxResend = 1
    Wraps = FALSE
PROPERTIES
    ResendOnlyUnacknowledged
\* The system may stop: nobody has to publish, and closed connections stay closed.
CHECK_DEADLOCK FALSE
