------------------------------- MODULE Trails -------------------------------
(* Session trails and their persistence (cache.go recordTrailsLocked,        *)
(* persist.go, trails_store.go, main.run): every snapshot that lands adds a  *)
(* breadcrumb per aircraft and rewrites each configured backend, one after   *)
(* the other, under Store.mu; a restart merges what the backends hold.       *)
(* Time runs in fractions of a second: breadcrumbs and the SQLite seen_at    *)
(* column hold whole seconds, SeenAt itself is finer.                        *)
EXTENDS Integers, Sequences

CONSTANTS Icao, Pos,
          Environments, \* what TRAILS_FILE, TRAILS_DB, TRAILS_REDIS_URL may name
          NoTrail,
          Torn,         \* a file cut short by a crash or a full disk
          MaxPoints,    \* maxTrailPoints
          Grace,        \* trailGrace, in ticks
          Second,       \* ticks in a second
          MaxTime, MaxCrash     \* bounds

ASSUME TrailsAssumption == /\ {MaxPoints, Second} \subseteq Nat \ {0}
                           /\ {Grace, MaxTime, MaxCrash} \subseteq Nat
                           /\ Environments \subseteq SUBSET {"file", "db", "redis"}

VARIABLES now,
          configured,   \* the backends of this environment; never changes
          up,           \* the process is running
          trails,       \* Store.trails
          on,           \* backends this process writes
          saving,       \* the next write of persistTrailsLocked
          tmp, file, db, redis,         \* path.tmp, path, the table, the blob
          last,         \* history: each aircraft's latest sighting
          behind,       \* history: backends without the latest snapshot
          lost,         \* history: aircraft whose latest save was not what a boot used
          crashes

disk == <<tmp, file, db, redis>>
history == <<last, behind, lost>>
vars == <<now, configured, up, trails, on, saving, disk, history, crashes>>

Unix == now \div Second
Point == [pos : Pos, at : 0..(MaxTime \div Second)]
Trail == [points : Seq(Point), seen : 0..MaxTime]
Map == [Icao -> Trail \cup {NoTrail}]
Nothing == [i \in Icao |-> NoTrail]

ASSUME MapAssumption == /\ NoTrail \notin Trail \cup [pos : Pos, seen : 0..MaxTime]
                        /\ Torn \notin Map

TypeOK == /\ configured \in Environments
          /\ now \in 0..MaxTime /\ up \in BOOLEAN /\ crashes \in 0..MaxCrash
          /\ {trails, db, redis.blob} \subseteq Map
          /\ {tmp, file} \subseteq Map \cup {Torn}
          /\ \A i \in Icao : trails[i] # NoTrail => Len(trails[i].points) \in 1..MaxPoints
          /\ redis.until \in 0..(MaxTime + Grace)
          /\ saving \in {"no", "tmp", "rename", "db", "redis"}
          /\ on \subseteq configured /\ behind \subseteq configured /\ lost \subseteq Icao
          /\ last \in [Icao -> [pos : Pos, seen : 0..MaxTime] \cup {NoTrail}]

Init == /\ configured \in Environments
        /\ now = 0 /\ up = TRUE /\ crashes = 0
        /\ trails = Nothing /\ on = configured /\ saving = "no"
        /\ tmp = Nothing /\ file = Nothing /\ db = Nothing
        /\ redis = [blob |-> Nothing, until |-> 0]
        /\ last = [i \in Icao |-> NoTrail] /\ behind = {} /\ lost = {}
-----------------------------------------------------------------------------
InGrace(trail) == trail # NoTrail /\ now - trail.seen <= Grace

Kept(map) == [i \in Icao |-> IF InGrace(map[i]) THEN map[i] ELSE NoTrail]

\* What Trails() returns.
Served == {i \in Icao : InGrace(trails[i])}

\* Mutant: one point too many survives the trim.
Newest_OffByOne(points) == IF Len(points) <= MaxPoints + 1 THEN points ELSE Tail(points)

Newest(points) == IF Len(points) <= MaxPoints THEN points
                  ELSE SubSeq(points, Len(points) - MaxPoints + 1, Len(points))

\* The trail of an aircraft seen at pos: a near-duplicate only bumps SeenAt.
Extended(trail, pos) ==
    LET points == IF trail = NoTrail THEN <<>> ELSE trail.points
        moved  == points = <<>> \/ points[Len(points)].pos # pos
    IN  [points |-> IF moved THEN Newest(Append(points, [pos |-> pos, at |-> Unix])) ELSE points,
         seen   |-> now]

\* applyLocked with a list that holds the usable aircraft of seen, at positions at.
Record(seen, at) ==
    /\ up /\ saving = "no"
    /\ trails' = [i \in Icao |-> IF i \in seen THEN Extended(trails[i], at[i]) ELSE Kept(trails)[i]]
    /\ saving' = "tmp"
    /\ last' = [i \in Icao |-> IF i \in seen THEN [pos |-> at[i], seen |-> now] ELSE last[i]]
    /\ behind' = configured
    /\ lost' = lost \ seen
    /\ UNCHANGED <<now, configured, up, on, disk, crashes>>

\* Mutant: the file is renamed over the old one even if its write failed.
SaveTmp_IgnoresError ==
    /\ saving = "tmp"
    /\ saving' = "rename"
    /\ tmp' \in {Kept(trails), Torn}
    /\ UNCHANGED <<now, configured, up, trails, on, file, db, redis, history, crashes>>

\* SaveTrailsFile: an error on path.tmp leaves path alone, and nobody hears of it.
SaveTmp == /\ saving = "tmp"
           /\ \/ "file" \in on /\ tmp' = Kept(trails) /\ saving' = "rename"
              \/ "file" \in on /\ tmp' = Torn /\ saving' = "db"
              \/ "file" \notin on /\ UNCHANGED tmp /\ saving' = "db"
           /\ UNCHANGED <<now, configured, up, trails, on, file, db, redis, history, crashes>>

Rename == /\ saving = "rename"
          /\ saving' = "db"
          /\ \/ file' = tmp /\ tmp' = Nothing /\ behind' = behind \ {"file"}
             \/ UNCHANGED <<tmp, file, behind>>
          /\ UNCHANGED <<now, configured, up, trails, on, db, redis, last, lost, crashes>>

\* The table keeps SeenAt in whole seconds.
Row(trail) == IF trail = NoTrail THEN NoTrail
              ELSE [trail EXCEPT !.seen = Second * (@ \div Second)]

\* Mutant: a row that is there already is not replaced.
Rows_KeepOld == [i \in Icao |-> IF db[i] # NoTrail THEN db[i] ELSE Row(Kept(trails)[i])]

Rows == [i \in Icao |-> Row(Kept(trails)[i])]

\* SaveTrailsDB deletes and inserts in one transaction: all of it or nothing.
SaveDB == /\ saving = "db"
          /\ saving' = "redis"
          /\ \/ "db" \in on /\ db' = Rows /\ behind' = behind \ {"db"}
             \/ UNCHANGED <<db, behind>>
          /\ UNCHANGED <<now, configured, up, trails, on, tmp, file, redis, last, lost, crashes>>

\* One SET with the grace as TTL; it may time out.
SaveRedis == /\ saving = "redis"
             /\ saving' = "no"
             /\ \/ /\ "redis" \in on
                   /\ redis' = [blob |-> Kept(trails), until |-> now + Grace]
                   /\ behind' = behind \ {"redis"}
                \/ UNCHANGED <<redis, behind>>
             /\ UNCHANGED <<now, configured, up, trails, on, tmp, file, db, last, lost, crashes>>

\* The process dies, maybe in the middle of a write.
Crash == /\ up /\ crashes < MaxCrash
         /\ up' = FALSE
         /\ crashes' = crashes + 1
         /\ trails' = Nothing
         /\ saving' = "no"
         /\ tmp' \in IF saving = "tmp" THEN {tmp, Torn} ELSE {tmp}
         /\ UNCHANGED <<now, configured, on, file, db, redis, history>>

\* Mutant: a trail that is loaded counts as seen at the restart.
Load_SeenNow(map) == [i \in Icao |-> IF InGrace(map[i])
                                     THEN [points |-> Newest(map[i].points), seen |-> now]
                                     ELSE NoTrail]

Load(map) == [i \in Icao |-> IF InGrace(map[i])
                             THEN [map[i] EXCEPT !.points = Newest(@)]
                             ELSE NoTrail]

\* Mutant: points of the next backend are appended to those already loaded.
Merge_Appends(map, loaded) ==
    [i \in Icao |-> IF loaded[i] = NoTrail THEN map[i]
                    ELSE IF map[i] = NoTrail THEN loaded[i]
                    ELSE [loaded[i] EXCEPT !.points = Newest(map[i].points \o @)]]

\* The next backend overwrites the trails it has.
Merge(map, loaded) == [i \in Icao |-> IF loaded[i] = NoTrail THEN map[i] ELSE loaded[i]]

Blob == IF now >= redis.until THEN Nothing ELSE redis.blob

\* The backend whose trails a boot ends up with, if any was read.
Winner(readable) == IF "redis" \in readable THEN "redis"
                    ELSE IF "db" \in readable THEN "db"
                    ELSE IF "file" \in readable THEN "file" ELSE "none"

\* run: file, SQLite, Redis.  A file that cannot be read is written all the same; a
\* table that cannot be read is not, nor is a Redis that does not answer the ping.
Boot(readable, pinged) ==
    /\ ~up
    /\ "file" \in readable => file # Torn
    /\ "redis" \in readable => pinged # {}
    /\ up' = TRUE
    /\ on' = (configured \cap {"file"}) \cup (readable \cap {"db"}) \cup pinged
    /\ LET from(b, map) == IF b \in readable THEN Load(map) ELSE Nothing IN
         trails' = Merge(Merge(from("file", file), from("db", db)), from("redis", Blob))
    /\ lost' = IF Winner(readable) \in behind \cup {"none"} THEN Icao ELSE lost
    /\ UNCHANGED <<now, configured, saving, disk, last, behind, crashes>>

Tick == /\ now < MaxTime
        /\ now' = now + 1
        /\ UNCHANGED <<configured, up, trails, on, saving, disk, history, crashes>>

Next == \/ \E seen \in SUBSET Icao : \E at \in [seen -> Pos] : Record(seen, at)
        \/ SaveTmp \/ Rename \/ SaveDB \/ SaveRedis
        \/ Crash
        \/ \E readable \in SUBSET configured, pinged \in SUBSET (configured \cap {"redis"}) :
             Boot(readable, pinged)
        \/ Tick

Spec == Init /\ [][Next]_vars
-----------------------------------------------------------------------------
\* A crash or a failed write at any point never leaves a trails file that the next
\* boot cannot parse (and would then overwrite).
FileIsWhole == file # Torn

\* Playback interpolates between neighbours (PositionAt): whatever restarts and merges
\* did, breadcrumbs stay in the order of time and no two neighbours are one position.
Chronological ==
    \A i \in Icao : trails[i] # NoTrail =>
        LET points == trails[i].points IN
        \A k \in 1..(Len(points) - 1) : /\ points[k].at <= points[k + 1].at
                                        /\ points[k].pos # points[k + 1].pos

\* "drop 3 min after leaving the bbox" (README, trail playback): no trail is shown for
\* longer than the grace, and a restart from any backend does not renew it.
GraceEnds == \A i \in Served : last[i] # NoTrail /\ now - last[i].seen <= Grace

\* Within the grace (less a second, which SQLite may round off) a trail is shown up to its
\* newest position, across restarts too, as long as the backend that wins the merge
\* got the latest save.
KeepsTrails ==
    \A i \in Icao \ lost :
        (up /\ last[i] # NoTrail /\ now - last[i].seen <= Grace - Second) =>
            /\ i \in Served
            /\ trails[i].points[Len(trails[i].points)].pos = last[i].pos
=============================================================================
