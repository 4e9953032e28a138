\* The file with SQLite (Docker Compose) or with Redis (a replica), one aircraft,
\* half-second ticks, a crash.
CONSTANTS
    Icao = {ac}
    Pos = {x, y}
    Environments = {{"file", "db"}, {"file", "redis"}}
    NoTrail = NoTrail
    Torn = Torn
    MaxPoints = 2
    Grace = 3
    Second = 2
    MaxTime = 4
    MaxCrash = 1
SPECIFICATION Spec
INVARIANTS
    TypeOK
    FileIsWhole
    Chronological
    GraceEnds
    KeepsTrails
