\* Two callers are enough for a second half-open try.
CONSTANTS
    Threshold = 3
    Cooldown = 1
    Caller = {c1, c2}
SPECIFICATION Spec
INVARIANTS
    OneHalfOpenTry
