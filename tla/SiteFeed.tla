------------------------------- MODULE SiteFeed -------------------------------
(***************************************************************************)
(* What realtime promises a page (docs/user/sdk.md, "Realtime"): the events *)
(* of the channels it subscribed to, on its own site, in one order, none   *)
(* of them twice.  An event that finds no room for a peer is not owed to   *)
(* it; whatever is owed is delivered first come, first served.             *)
(***************************************************************************)
EXTENDS Naturals, Sequences

CONSTANTS Peers, Sites, SiteOf, Channels

VARIABLES
    number,      \* events published so far
    wants,       \* per peer: the channels it is subscribed to
    owed,        \* per peer: the events on their way to it
    got          \* per peer: the events it received

Init ==
    /\ number = 0
    /\ wants = [p \in Peers |-> {}]
    /\ owed = [p \in Peers |-> <<>>]
    /\ got = [p \in Peers |-> <<>>]

Subscribe(p, ch) ==
    /\ wants' = [wants EXCEPT ![p] = @ \cup {ch}]
    /\ UNCHANGED <<number, owed, got>>

Unsubscribe(p, ch) ==
    /\ wants' = [wants EXCEPT ![p] = @ \ {ch}]
    /\ UNCHANGED <<number, owed, got>>

\* To some subscribers of the site, and to nobody else.
Publish(s, ch) ==
    LET e == [n |-> number + 1, site |-> s, channel |-> ch]
    IN  /\ number' = number + 1
        /\ \E reached \in SUBSET {p \in Peers : SiteOf[p] = s /\ ch \in wants[p]} :
              owed' = [p \in Peers |-> IF p \in reached THEN Append(owed[p], e) ELSE owed[p]]
        /\ UNCHANGED <<wants, got>>

Deliver(p) ==
    /\ owed[p] # <<>>
    /\ got' = [got EXCEPT ![p] = Append(@, Head(owed[p]))]
    /\ owed' = [owed EXCEPT ![p] = Tail(@)]
    /\ UNCHANGED <<number, wants>>

Next ==
    \/ \E p \in Peers, ch \in Channels : Subscribe(p, ch) \/ Unsubscribe(p, ch)
    \/ \E s \in Sites, ch \in Channels : Publish(s, ch)
    \/ \E p \in Peers : Deliver(p)

Spec == Init /\ [][Next]_<<number, wants, owed, got>>
==============================================================================
