\* One goroutine, but fetches may fail.
CONSTANTS
    epwr = epwr
    epgd = epgd
    lo123 = lo123
    fr456 = fr456
    Airport <- TwoAirports
    BootFocus = epwr
    Dest <- OneFlightEach
    Proc = {p1}
    MayFail = TRUE
    MaxSwitch = 1
    NoSnap = NoSnap
    NoProc = NoProc
SPECIFICATION Spec
INVARIANTS
    NoReplay
