---- MODULE AtLeastOnce ----
(***************************************************************************)
(* What the broker promises for one message going to one subscriber: it is *)
(* sent first, the subscriber receives it after that, and only then does   *)
(* the broker regard it as acknowledged, for good.  How often it is sent   *)
(* or received is left open: duplicates are allowed, silence is not called *)
(* an acknowledgement.                                                     *)
(***************************************************************************)
CONSTANT Deliveries

VARIABLES
    sent,       \* handed to the network or to Retry
    received,   \* given to the subscriber's application at least once
    completed   \* acknowledged: the broker stops caring

vars == <<sent, received, completed>>

Init == sent = {} /\ received = {} /\ completed = {}

Send(d) ==
    /\ sent' = sent \cup {d}
    /\ UNCHANGED <<received, completed>>

Receive(d) ==
    /\ d \in sent
    /\ received' = received \cup {d}
    /\ UNCHANGED <<sent, completed>>

Complete(d) ==
    /\ d \in received
    /\ completed' = completed \cup {d}
    /\ UNCHANGED <<sent, received>>

Next == \E d \in Deliveries : Send(d) \/ Receive(d) \/ Complete(d)

Spec == Init /\ [][Next]_vars
====
