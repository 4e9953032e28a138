\* Two attempts a window of three, a lock that may take one unit, four POST and two GET requests
\* at a time, a cookie that lives for three units.
CONSTANTS
    Attempt = {a1, a2, a3, a4}
    Max = 2
    Window = 3
    MaxDelay = 1
    CookieTTL = 3
    Renewal = {r1, r2}
SYMMETRY Alike
SPECIFICATION AuthSpec
INVARIANTS
    WindowBudget
    LogoutHolds
PROPERTIES
    NoLockout
