\* Two goroutines that refresh and switch in any order, overlapping and failing or not.
CONSTANTS
    epwr = epwr
    epgd = epgd
    lo123 = lo123
    fr456 = fr456
    Airport <- TwoAirports
    BootFocus = epwr
    Dest <- OneFlightEach
    Proc = {p1, p2}
    MayFail = TRUE
    MaxSwitch = 2
    NoSnap = NoSnap
    NoProc = NoProc
SPECIFICATION Spec
INVARIANTS
    DroppedNeverEvaluates
    QuietAlerts
PROPERTIES
    OncePerStay
    KeepsContract
    ArmedAgain
