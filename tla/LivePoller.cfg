\* Units of 15 s: interval 45 s, lease 90 s, heartbeat 30 s.  Heartbeats of a whole lease
\* may be lost, a refresh may outlast it, and the server may restart once.
CONSTANTS
    Tab = {t1, t2}
    Poller = {a, b}
    NoPoller = NoPoller
    NoTab = NoTab
    Interval = 3
    Lease = 6
    Beat = 2
    MaxRefresh = 7
    MaxLost = 3
    MaxCalls = 2
    Hasty = {t1}
    MaxRestart = 1
SPECIFICATION Spec
INVARIANTS
    TypeOK
    OnePoller
    LiveTabIsPolled
    OffIsQuiet
PROPERTIES
    PollerStops
    PollingResumes
