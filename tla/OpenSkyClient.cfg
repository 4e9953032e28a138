\* Three concurrent refreshes (Live tick, /refresh, POST /api/focus), each of up to
\* three requests; one may still be in flight when two of them have opened the circuit.
CONSTANTS
    Threshold = 2
    Cooldown = 2
    Retries = 2
    Caller = {c1, c2, c3}
SPECIFICATION ClientSpec
INVARIANTS
    ClientTypeOK
    OutageBudget
    RequestBudget
PROPERTIES
    TripIsTemporary
    KeepsCalls
