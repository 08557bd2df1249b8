SPECIFICATION Spec
CONSTANTS
    c1 = c1
    c2 = c2
    c3 = c3
    s1 = s1
    s2 = s2
    Conns = {c1, c2, c3}
    Sites = {s1, s2}
    SiteOf <- OneSite
    Channels = {h1}
    MaxPerSite = 2
    Queue = 1
    MaxFrames <- FewFrames
    MaxEvents = 2
INVARIANTS SeatsExact ListedIsOpen NeverStuck
PROPERTIES NothingMissed LeavesSoon FeedKept
CHECK_DEADLOCK FALSE
