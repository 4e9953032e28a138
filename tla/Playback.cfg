\* Two aircraft, five answers (MCPlayback), the slowest and the fastest speed,
\* links of both kinds.
CONSTANTS
    Icao <- MCIcao
    Nobody = "nobody"
    Answers <- MCAnswers
    Steps = {1, 4}
    Links = {2, 4}
    MaxAt = 6
SPECIFICATION Spec
INVARIANTS
    TypeOK
    FrameIsTrue
    ClockInRange
    OnePicture
    TimerFollows
    Interpolates
