\* Requests of two UIs overlap on one fetcher, which also switches its own box and
\* refreshes through an upstream of its own.
CONSTANTS
    epwr = epwr
    epgd = epgd
    wroclaw = wroclaw
    gdansk = gdansk
    p1 = p1
    p2 = p2
    Threshold = 2
    Cooldown = 1
    Box <- TwoBoxes
    BootBox = epwr
    Upstream = {u}
    UI = {wroclaw, gdansk}
    UIBox <- TwoUIs
    Proc = {p1, p2, u}
    Owner <- TwoRequests
    NoList = NoList
    Failed = Failed
    MaxGen = 2
    MaxTime = 2
SPECIFICATION FetcherSpec
INVARIANTS
    BodyIsForCaller
PROPERTIES
    CommitIsForWatchedBox
    OldBoxCannotHurt
    ImplementsSnapshot
