-------------------------- MODULE MCRealtimeClient --------------------------
(* Two callbacks for one event and one for another event of a channel that *)
(* is also subscribed to without a callback, and two publishes.            *)
EXTENDS RealtimeClient

CONSTANTS l1, l2, l3, m1, m2, c1, e1, e2

MCListeners == {l1, l2, l3}
MCMsgs == {m1, m2}
MCEvents == {e1, e2}
MCChannelOf == [x \in MCListeners \cup MCMsgs |-> c1]
MCEventOf == [l \in MCListeners |-> IF l = l3 THEN e2 ELSE e1]
=============================================================================
