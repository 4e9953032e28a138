\* Two UIs, one request each at a time.
CONSTANTS
    epwr = epwr
    epgd = epgd
    wroclaw = wroclaw
    gdansk = gdansk
    p1 = p1
    p2 = p2
    Threshold = 2
    Cooldown = 1
    Box <- TwoBoxes
    BootBox = epwr
    Upstream = {}
    UI = {wroclaw, gdansk}
    UIBox <- TwoUIs
    Proc = {p1, p2}
    Owner <- TwoRequests
    NoList = NoList
    Failed = Failed
    MaxGen = 3
    MaxTime = 3
SPECIFICATION FetcherSpec
INVARIANTS
    UIShowsOwnAirport
