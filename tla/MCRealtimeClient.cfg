SPECIFICATION FairSpec
CONSTANTS
    l1 = l1
    l2 = l2
    l3 = l3
    m1 = m1
    m2 = m2
    c1 = c1
    e1 = e1
    e2 = e2
    None = None
    Listeners <- MCListeners
    Msgs <- MCMsgs
    Channels = {c1}
    Events <- MCEvents
    ChannelOf <- MCChannelOf
    EventOf <- MCEventOf
    Again = {l1}
    MaxDrops = 2
INVARIANTS ListenersKept Resubscribed PublishedInOrder PublisherHears Rearmed
PROPERTY Reconnects
CHECK_DEADLOCK FALSE
