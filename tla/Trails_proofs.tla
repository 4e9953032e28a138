---------------------------- MODULE Trails_proofs ----------------------------
(* For any number of aircraft, backends, crashes and failed writes: what the  *)
(* process and every backend hold are well-formed trails, in the order of     *)
(* time, no fresher than the aircraft's latest sighting; a restart does not   *)
(* renew them; and the backend with the latest save keeps each trail's end.   *)
EXTENDS Trails, SequenceTheorems, TLAPS

Last(points) == points[Len(points)]

Path(points) ==
    /\ points \in Seq(Point) /\ Len(points) >= 1
    /\ \A k \in 1..(Len(points) - 1) : /\ points[k].at <= points[k + 1].at
                                       /\ points[k].pos # points[k + 1].pos

\* At second u, with latest sighting sight.
Entry(trail, u, sight) ==
    /\ trail \in Trail /\ Path(trail.points) /\ Len(trail.points) <= MaxPoints
    /\ Last(trail.points).at <= u
    /\ sight # NoTrail /\ trail.seen <= sight.seen

Good(map, u, sights) ==
    map \in Map /\ \A i \in Icao : map[i] # NoTrail => Entry(map[i], u, sights[i])

Types == /\ now \in 0..MaxTime /\ up \in BOOLEAN /\ crashes \in 0..MaxCrash
         /\ configured \in Environments
         /\ redis \in [blob : Map, until : 0..(MaxTime + Grace)]
         /\ saving \in {"no", "tmp", "rename", "db", "redis"}
         /\ on \subseteq configured /\ behind \subseteq configured /\ lost \subseteq Icao
         /\ last \in [Icao -> [pos : Pos, seen : 0..MaxTime] \cup {NoTrail}]
         /\ \A i \in Icao : last[i] # NoTrail => last[i].seen <= now

Maps == /\ Good(trails, Unix, last) /\ Good(db, Unix, last) /\ Good(redis.blob, Unix, last)
        /\ Good(file, Unix, last)
        /\ tmp = Torn \/ Good(tmp, Unix, last)
        /\ saving = "rename" => tmp # Torn
-----------------------------------------------------------------------------
\* Whole seconds of a tick.
LEMMA Seconds ==
    ASSUME NEW t \in Nat
    PROVE  /\ t \div Second \in Nat
           /\ Second * (t \div Second) \in Nat
           /\ Second * (t \div Second) <= t /\ t < Second * (t \div Second) + Second
BY TrailsAssumption DEF TrailsAssumption

LEMMA SecondsGrow ==
    ASSUME NEW s \in Nat, NEW t \in Nat, s <= t
    PROVE  s \div Second <= t \div Second
<1> DEFINE q == s \div Second
           r == t \div Second
<1>1. q \in Nat /\ r \in Nat /\ Second * q <= s /\ t < Second * r + Second
  BY Seconds
<1>2. Second \in Nat
  BY TrailsAssumption DEF TrailsAssumption
<1> HIDE DEF q, r
<1>3. Second * q < Second * (r + 1)
  BY <1>1, <1>2
<1>4. q < r + 1
  BY <1>1, <1>2, <1>3
<1>5. QED
  BY <1>1, <1>4 DEF q, r

\* A tick between the start of t's second and t is of that second.
LEMMA SameSecond ==
    ASSUME NEW s \in Nat, NEW t \in Nat, Second * (t \div Second) <= s
    PROVE  Second * (t \div Second) <= Second * (s \div Second)
<1> DEFINE q == t \div Second
           r == s \div Second
<1>1. q \in Nat /\ r \in Nat /\ s < Second * r + Second
  BY Seconds
<1>2. Second \in Nat
  BY TrailsAssumption DEF TrailsAssumption
<1> HIDE DEF q, r
<1>3. Second * q < Second * (r + 1)
  BY <1>1, <1>2 DEF q
<1>4. q < r + 1
  BY <1>1, <1>2, <1>3
<1>5. QED
  BY <1>1, <1>2, <1>4 DEF q, r

\* The trim keeps the order, the end and at most MaxPoints points.
LEMMA NewestPath ==
    ASSUME NEW points, Path(points)
    PROVE  /\ Path(Newest(points)) /\ Len(Newest(points)) <= MaxPoints
           /\ Last(Newest(points)) = Last(points)
<1>1. CASE Len(points) <= MaxPoints
  BY <1>1 DEF Newest
<1>2. CASE Len(points) > MaxPoints
  <2> DEFINE n == Len(points)
             short == SubSeq(points, n - MaxPoints + 1, n)
  <2>1. n \in Nat /\ MaxPoints \in Nat /\ MaxPoints >= 1 /\ n > MaxPoints
    BY <1>2, TrailsAssumption DEF TrailsAssumption, Path
  <2>2. \A k \in (n - MaxPoints + 1)..n : points[k] \in Point
    BY <2>1 DEF Path
  <2>3. /\ short \in Seq(Point) /\ Len(short) = MaxPoints
        /\ \A k \in 1..MaxPoints : short[k] = points[n - MaxPoints + k]
    BY <2>1, <2>2, SubSeqProperties
  <2>4. \A k \in 1..(MaxPoints - 1) : /\ short[k].at <= short[k + 1].at
                                      /\ short[k].pos # short[k + 1].pos
    <3> SUFFICES ASSUME NEW k \in 1..(MaxPoints - 1)
                 PROVE  short[k].at <= short[k + 1].at /\ short[k].pos # short[k + 1].pos
      OBVIOUS
    <3> DEFINE j == n - MaxPoints + k
    <3>1. j \in 1..(n - 1)
      BY <2>1
    <3>2. short[k] = points[j] /\ short[k + 1] = points[j + 1]
      BY <2>1, <2>3
    <3>3. QED
      BY <3>1, <3>2 DEF Path
  <2>5. Newest(points) = short
    BY <1>2, <2>1 DEF Newest
  <2>6. Last(short) = Last(points)
    BY <2>1, <2>3 DEF Last
  <2>7. Path(short)
    BY <2>1, <2>3, <2>4 DEF Path
  <2> QED
    BY <2>1, <2>3, <2>5, <2>6, <2>7
<1>3. QED
  BY <1>1, <1>2, TrailsAssumption DEF TrailsAssumption, Path

LEMMA AppendPath ==
    ASSUME NEW points \in Seq(Point), NEW point \in Point,
           points = <<>> \/ Path(points),
           points # <<>> => Last(points).at <= point.at /\ Last(points).pos # point.pos
    PROVE  Path(Append(points, point)) /\ Last(Append(points, point)) = point
<1>1. /\ Append(points, point) \in Seq(Point) /\ Len(Append(points, point)) = Len(points) + 1
      /\ Append(points, point)[Len(points) + 1] = point
      /\ \A k \in 1..Len(points) : Append(points, point)[k] = points[k]
      /\ Len(points) \in Nat
  BY AppendProperties
<1>2. \A k \in 1..Len(points) : /\ Append(points, point)[k].at <= Append(points, point)[k + 1].at
                                /\ Append(points, point)[k].pos # Append(points, point)[k + 1].pos
  <2> SUFFICES ASSUME NEW k \in 1..Len(points)
               PROVE  /\ Append(points, point)[k].at <= Append(points, point)[k + 1].at
                      /\ Append(points, point)[k].pos # Append(points, point)[k + 1].pos
    OBVIOUS
  <2>1. points # <<>>
    OBVIOUS
  <2>2. CASE k = Len(points)
    BY <1>1, <2>1, <2>2 DEF Last
  <2>3. CASE k \in 1..(Len(points) - 1)
    BY <1>1, <2>1, <2>3 DEF Path
  <2>4. QED
    BY <1>1, <2>2, <2>3
<1>3. QED
  BY <1>1, <1>2 DEF Path, Last

\* The operations on whole maps keep them well formed.
LEMMA GoodNothing == ASSUME NEW u, NEW sights PROVE Good(Nothing, u, sights)
BY DEF Good, Nothing, Map

\* Later, and with newer sightings, a map is as good as it was.
LEMMA StaysGood ==
    ASSUME NEW map, NEW u \in Int, NEW v \in Int, NEW old, NEW new, Good(map, u, old), u <= v,
           \A i \in Icao : old[i] # NoTrail => /\ new[i] # NoTrail /\ old[i].seen \in Int
                                               /\ new[i].seen \in Int /\ old[i].seen <= new[i].seen
    PROVE  Good(map, v, new)
<1> SUFFICES ASSUME NEW i \in Icao, map[i] # NoTrail PROVE Entry(map[i], v, new[i])
  BY DEF Good
<1>1. Entry(map[i], u, old[i])
  BY DEF Good
<1>2. map[i].seen \in Int /\ map[i].points \in Seq(Point) /\ Len(map[i].points) \in 1..MaxPoints
  BY <1>1, TrailsAssumption DEF TrailsAssumption, Entry, Path, Trail
<1>3. Last(map[i].points) \in Point
  BY <1>2, TrailsAssumption DEF TrailsAssumption, Last
<1>4. Last(map[i].points).at \in Int
  BY <1>3 DEF Point
<1>5. QED
  BY <1>1, <1>2, <1>4 DEF Entry

\* What survives of each trail, if anything, is the trail itself.
LEMMA Selected ==
    ASSUME NEW map, NEW pick, NEW u, NEW sights, Good(map, u, sights),
           pick \in [Icao -> Trail \cup {NoTrail}],
           \A i \in Icao : pick[i] = NoTrail \/ pick[i] = map[i]
    PROVE  Good(pick, u, sights)
BY DEF Good, Map

LEMMA GoodKept ==
    ASSUME NEW map, NEW u, NEW sights, Good(map, u, sights)
    PROVE  Good(Kept(map), u, sights)
<1>1. Kept(map) \in [Icao -> Trail \cup {NoTrail}]
  BY DEF Good, Map, Kept
<1>2. \A i \in Icao : Kept(map)[i] = NoTrail \/ Kept(map)[i] = map[i]
  BY DEF Kept
<1>3. QED
  BY <1>1, <1>2, Selected

LEMMA LoadIsKept ==
    ASSUME NEW map, NEW u, NEW sights, Good(map, u, sights)
    PROVE  Load(map) = Kept(map)
<1>1. ASSUME NEW i \in Icao, InGrace(map[i])
      PROVE  [map[i] EXCEPT !.points = Newest(@)] = map[i]
  <2>1. Entry(map[i], u, sights[i])
    BY <1>1 DEF Good, InGrace
  <2>2. Newest(map[i].points) = map[i].points
    BY <2>1 DEF Entry, Newest
  <2>3. QED
    BY <2>1, <2>2 DEF Entry, Trail
<1>2. QED
  BY <1>1 DEF Load, Kept

LEMMA GoodMerge ==
    ASSUME NEW map, NEW loaded, NEW u, NEW sights, Good(map, u, sights), Good(loaded, u, sights)
    PROVE  Good(Merge(map, loaded), u, sights)
<1>1. \A i \in Icao : Merge(map, loaded)[i] = map[i] \/ Merge(map, loaded)[i] = loaded[i]
  BY DEF Merge
<1>2. Merge(map, loaded) \in Map
  BY <1>1 DEF Merge, Good, Map
<1>3. QED
  BY <1>1, <1>2 DEF Good

\* A row is the trail, seen at the start of its second.
LEMMA RowIs ==
    ASSUME NEW trail \in Trail
    PROVE  /\ Row(trail) \in Trail /\ Row(trail) # NoTrail
           /\ Row(trail).points = trail.points
           /\ Row(trail).seen = Second * (trail.seen \div Second)
           /\ Row(trail).seen <= trail.seen
<1>1. /\ trail \in [points : Seq(Point), seen : 0..MaxTime]
      /\ trail.seen \in Nat /\ trail.seen <= MaxTime /\ MaxTime \in Nat
  BY TrailsAssumption DEF TrailsAssumption, Trail
<1>2. Row(trail) = [trail EXCEPT !.seen = Second * (trail.seen \div Second)]
  BY MapAssumption DEF MapAssumption, Row
<1>3. Second * (trail.seen \div Second) \in 0..MaxTime
  <2> DEFINE s == Second * (trail.seen \div Second)
  <2>1. s \in Nat /\ s <= trail.seen
    BY <1>1, Seconds
  <2> HIDE DEF s
  <2>2. s \in 0..MaxTime
    BY <1>1, <2>1
  <2>3. QED
    BY <2>2 DEF s
<1>4. Row(trail) \in Trail
  BY <1>1, <1>2, <1>3 DEF Trail
<1>5. QED
  BY <1>1, <1>2, <1>4, Seconds, MapAssumption DEF MapAssumption

LEMMA GoodRows ==
    ASSUME NEW u, Good(trails, u, last), Types
    PROVE  Good(Rows, u, last)
<1>1. Good(Kept(trails), u, last)
  BY GoodKept
<1>2. ASSUME NEW i \in Icao, Kept(trails)[i] # NoTrail
      PROVE  Row(Kept(trails)[i]) \in Trail /\ Entry(Row(Kept(trails)[i]), u, last[i])
  <2> DEFINE trail == Kept(trails)[i]
  <2>1. Entry(trail, u, last[i])
    BY <1>1, <1>2 DEF Good
  <2>2. trail.seen \in Int /\ last[i].seen \in Int
    BY <2>1 DEF Entry, Trail, Types
  <2> HIDE DEF trail
  <2>3. /\ Row(trail) \in Trail /\ Row(trail).points = trail.points
        /\ Row(trail).seen \in Int /\ Row(trail).seen <= trail.seen
    BY <2>1, RowIs DEF Entry, Trail
  <2>4. Row(trail).seen <= last[i].seen
    BY <2>1, <2>2, <2>3 DEF Entry
  <2>5. Entry(Row(trail), u, last[i])
    BY <2>1, <2>3, <2>4 DEF Entry
  <2>6. QED
    BY <2>3, <2>5 DEF trail
<1>3. \A i \in Icao : Kept(trails)[i] = NoTrail => Rows[i] = NoTrail
  BY DEF Rows, Row
<1>4. \A i \in Icao : Rows[i] = Row(Kept(trails)[i])
  BY DEF Rows
<1>5. Rows \in [Icao -> Trail \cup {NoTrail}]
  BY <1>2, <1>3, <1>4 DEF Rows
<1>6. QED
  BY <1>2, <1>3, <1>4, <1>5 DEF Good, Map

\* recordTrailsLocked: the trail goes on to the new position, now.
LEMMA ExtendedIs ==
    ASSUME Types, NEW trail \in Trail \cup {NoTrail}, NEW pos \in Pos,
           trail # NoTrail => /\ Path(trail.points) /\ Len(trail.points) <= MaxPoints
                              /\ Last(trail.points).at <= Unix
    PROVE  /\ Extended(trail, pos) \in Trail /\ Extended(trail, pos) # NoTrail
           /\ Path(Extended(trail, pos).points)
           /\ Len(Extended(trail, pos).points) <= MaxPoints
           /\ Last(Extended(trail, pos).points).at <= Unix
           /\ Last(Extended(trail, pos).points).pos = pos
           /\ Extended(trail, pos).seen = now
<1> DEFINE points == IF trail = NoTrail THEN <<>> ELSE trail.points
           moved == points = <<>> \/ points[Len(points)].pos # pos
           point == [pos |-> pos, at |-> Unix]
           then == IF moved THEN Newest(Append(points, point)) ELSE points
<1>1. Extended(trail, pos) = [points |-> then, seen |-> now]
  BY DEF Extended
<1>2. points \in Seq(Point) /\ (points = <<>> \/ Path(points))
  BY DEF Trail
<1>3. point \in Point /\ point.pos = pos /\ point.at = Unix /\ Unix \in Nat
  <2>1. now \in Nat /\ now <= MaxTime /\ MaxTime \in Nat
    BY TrailsAssumption DEF TrailsAssumption, Types
  <2>2. Unix \in Nat /\ MaxTime \div Second \in Nat /\ Unix <= MaxTime \div Second
    BY <2>1, Seconds, SecondsGrow DEF Unix
  <2>3. QED
    BY <2>2 DEF Point
<1>4. /\ Path(then) /\ Len(then) <= MaxPoints
      /\ Last(then).at <= Unix /\ Last(then).pos = pos
  <2>1. CASE moved
    <3>1. points # <<>> => Last(points).at <= point.at /\ Last(points).pos # point.pos
      BY <1>3, <2>1 DEF Last
    <3>2. Path(Append(points, point)) /\ Last(Append(points, point)) = point
      BY <1>2, <1>3, <3>1, AppendPath
    <3>3. then = Newest(Append(points, point))
      BY <2>1
    <3>4. Path(then) /\ Len(then) <= MaxPoints /\ Last(then) = point
      BY <3>2, <3>3, NewestPath
    <3>5. QED
      BY <1>3, <3>4
  <2>2. CASE ~moved
    <3>1. trail # NoTrail /\ then = trail.points
      BY <2>2
    <3>2. QED
      BY <2>2, <3>1 DEF Last
  <2>3. QED
    BY <2>1, <2>2
<1>5. then \in Seq(Point) /\ now \in 0..MaxTime
  BY <1>4 DEF Path, Types
<1> HIDE DEF then
<1>6. Extended(trail, pos) \in Trail
  BY <1>1, <1>5 DEF Trail
<1>7. QED
  BY <1>1, <1>4, <1>6, MapAssumption DEF MapAssumption

LEMMA RecordGood ==
    ASSUME Types, Maps, NEW seen \in SUBSET Icao, NEW at \in [seen -> Pos], Record(seen, at)
    PROVE  /\ Good(trails', Unix, last')
           /\ \A i \in seen : /\ trails'[i] # NoTrail /\ trails'[i].seen = now
                              /\ Last(trails'[i].points).pos = at[i]
           /\ \A i \in Icao \ seen : trails'[i] = Kept(trails)[i]
<1>1. /\ trails' = [i \in Icao |-> IF i \in seen THEN Extended(trails[i], at[i])
                                                 ELSE Kept(trails)[i]]
      /\ last' = [i \in Icao |-> IF i \in seen THEN [pos |-> at[i], seen |-> now] ELSE last[i]]
  BY DEF Record
<1>2. Good(Kept(trails), Unix, last)
  BY GoodKept DEF Maps
<1>3. ASSUME NEW i \in seen
      PROVE  /\ trails'[i] \in Trail /\ Entry(trails'[i], Unix, last'[i])
             /\ trails'[i] # NoTrail /\ trails'[i].seen = now
             /\ Last(trails'[i].points).pos = at[i]
  <2>1. trails'[i] = Extended(trails[i], at[i]) /\ last'[i] = [pos |-> at[i], seen |-> now]
    BY <1>1
  <2>2. trails[i] \in Trail \cup {NoTrail} /\ at[i] \in Pos
    BY DEF Maps, Good, Map
  <2>3. trails[i] # NoTrail => /\ Path(trails[i].points) /\ Len(trails[i].points) <= MaxPoints
                               /\ Last(trails[i].points).at <= Unix
    BY DEF Maps, Good, Entry
  <2>4. last'[i].seen = now /\ last'[i] # NoTrail /\ now \in Int
    <3>1. now \in 0..MaxTime
      BY DEF Types
    <3>2. last'[i] \in [pos : Pos, seen : 0..MaxTime]
      BY <2>1, <2>2, <3>1
    <3>3. QED
      BY <2>1, <3>1, <3>2, MapAssumption DEF MapAssumption
  <2>5. /\ trails'[i] \in Trail /\ trails'[i] # NoTrail
        /\ Path(trails'[i].points)
        /\ Len(trails'[i].points) <= MaxPoints
        /\ Last(trails'[i].points).at <= Unix
        /\ Last(trails'[i].points).pos = at[i]
        /\ trails'[i].seen = now
    BY <2>1, <2>2, <2>3, ExtendedIs
  <2>6. Entry(trails'[i], Unix, last'[i])
    BY <2>4, <2>5 DEF Entry
  <2>7. QED
    BY <2>5, <2>6
<1>4. ASSUME NEW i \in Icao \ seen
      PROVE  trails'[i] = Kept(trails)[i] /\ last'[i] = last[i]
  BY <1>1
<1>5. trails' \in Map
  <2>1. \A i \in Icao : trails'[i] \in Trail \cup {NoTrail}
    BY <1>2, <1>3, <1>4 DEF Good, Map
  <2>2. QED
    BY <1>1, <2>1 DEF Map
<1>6. QED
  BY <1>2, <1>3, <1>4, <1>5 DEF Good
-----------------------------------------------------------------------------
LEMMA TypesInit == Init => Types /\ Maps
<1> SUFFICES ASSUME Init PROVE Types /\ Maps
  OBVIOUS
<1>1. Nothing \in Map /\ Good(Nothing, Unix, last) /\ Nothing # Torn
  BY GoodNothing, MapAssumption DEF MapAssumption, Good
<1>2. Types
  BY <1>1, TrailsAssumption DEF TrailsAssumption, Init, Types
<1>3. Maps
  BY <1>1 DEF Init, Maps
<1>4. QED
  BY <1>2, <1>3

LEMMA TypesStep == Types /\ Maps /\ [Next]_vars => Types'
<1> SUFFICES ASSUME Types, Maps, [Next]_vars PROVE Types'
  OBVIOUS
<1> USE TrailsAssumption DEF TrailsAssumption, disk, history
<1>1. ASSUME NEW seen \in SUBSET Icao, NEW at \in [seen -> Pos], Record(seen, at) PROVE Types'
  <2>1. now \in 0..MaxTime /\ now' = now
    BY <1>1 DEF Record, Types
  <2>2. \A i \in seen : /\ [pos |-> at[i], seen |-> now] \in [pos : Pos, seen : 0..MaxTime]
                        /\ [pos |-> at[i], seen |-> now].seen = now
    BY <2>1
  <2>3. last' \in [Icao -> [pos : Pos, seen : 0..MaxTime] \cup {NoTrail}]
    BY <1>1, <2>2 DEF Record, Types
  <2>4. \A i \in Icao : last'[i] # NoTrail => last'[i].seen <= now
    BY <1>1, <2>1, <2>2 DEF Record, Types
  <2>5. QED
    BY <1>1, <2>1, <2>3, <2>4 DEF Record, Types
<1>2. ASSUME UNCHANGED <<now, configured, on, last>>, up' \in BOOLEAN, crashes' \in 0..MaxCrash,
             redis' \in [blob : Map, until : 0..(MaxTime + Grace)],
             saving' \in {"no", "tmp", "rename", "db", "redis"},
             behind' \subseteq behind, lost' = lost
      PROVE  Types'
  BY <1>2 DEF Types
<1>3. ASSUME SaveTmp \/ Rename \/ SaveDB PROVE Types'
  <2>1. /\ UNCHANGED <<now, configured, up, crashes, on, last, redis, lost>>
        /\ saving' \in {"no", "tmp", "rename", "db", "redis"} /\ behind' \subseteq behind
    BY <1>3 DEF SaveTmp, Rename, SaveDB
  <2>2. QED
    BY <1>2, <2>1 DEF Types
<1>4. ASSUME SaveRedis PROVE Types'
  <2>1. Kept(trails) \in Map
    BY GoodKept DEF Maps, Good
  <2>2. now + Grace \in 0..(MaxTime + Grace)
    BY DEF Types
  <2>3. redis' \in [blob : Map, until : 0..(MaxTime + Grace)]
    BY <1>4, <2>1, <2>2 DEF SaveRedis, Types
  <2>4. /\ UNCHANGED <<now, configured, up, crashes, on, last, lost>>
        /\ saving' = "no" /\ behind' \subseteq behind
    BY <1>4 DEF SaveRedis
  <2>5. QED
    BY <1>2, <2>3, <2>4 DEF Types
<1>5. ASSUME Crash PROVE Types'
  <2>1. /\ UNCHANGED <<now, configured, on, last, redis, behind, lost>>
        /\ up' = FALSE /\ saving' = "no"
    BY <1>5 DEF Crash
  <2>2. crashes' \in 0..MaxCrash
    BY <1>5 DEF Crash, Types
  <2>3. QED
    BY <1>2, <2>1, <2>2 DEF Types
<1>6. ASSUME NEW readable \in SUBSET configured, NEW pinged \in SUBSET (configured \cap {"redis"}),
             Boot(readable, pinged)
      PROVE  Types'
  BY <1>6 DEF Boot, Types
<1>7. ASSUME Tick PROVE Types'
  <2>1. now' = now + 1 /\ now' \in 0..MaxTime /\ UNCHANGED last /\ now \in Nat
    BY <1>7 DEF Tick, Types
  <2>2. \A i \in Icao : last[i] # NoTrail => last[i].seen \in Nat /\ last[i].seen <= now
    BY MapAssumption DEF Types
  <2>3. \A i \in Icao : last'[i] # NoTrail => last'[i].seen <= now'
    BY <2>1, <2>2
  <2>4. QED
    BY <1>7, <2>1, <2>3 DEF Tick, Types
<1>8. CASE UNCHANGED vars
  BY <1>8 DEF vars, Types
<1>9. QED
  BY <1>1, <1>3, <1>4, <1>5, <1>6, <1>7, <1>8 DEF Next

\* Seconds and sightings only grow.
LEMMA SightsGrow ==
    ASSUME Types, Types', [Next]_vars
    PROVE  /\ Unix \in Int /\ Unix' \in Int /\ Unix <= Unix'
           /\ \A i \in Icao : last[i] # NoTrail => /\ last'[i] # NoTrail /\ last[i].seen \in Int
                                                   /\ last'[i].seen \in Int
                                                   /\ last[i].seen <= last'[i].seen
<1>1. now \in Nat /\ now' \in Nat /\ now <= now'
  BY TrailsAssumption DEF TrailsAssumption, Types, Next, Record, SaveTmp, Rename, SaveDB, SaveRedis,
                          Crash, Boot, Tick, vars, disk, history
<1>2. Unix \in Int /\ Unix' \in Int /\ Unix <= Unix'
  BY <1>1, Seconds, SecondsGrow DEF Unix
<1>3. ASSUME NEW i \in Icao, last[i] # NoTrail
      PROVE  /\ last'[i] # NoTrail /\ last[i].seen \in Int
             /\ last'[i].seen \in Int /\ last[i].seen <= last'[i].seen
  <2>1. last[i].seen \in Int /\ last[i].seen <= now
    BY <1>3 DEF Types
  <2>2. CASE last'[i] = last[i]
    BY <1>3, <2>1, <2>2
  <2>3. ASSUME NEW pos \in Pos, last'[i] = [pos |-> pos, seen |-> now]
        PROVE  /\ last'[i] # NoTrail /\ last'[i].seen \in Int
               /\ last[i].seen <= last'[i].seen
    <3>1. now \in 0..MaxTime
      BY DEF Types
    <3>2. last'[i] \in [pos : Pos, seen : 0..MaxTime]
      BY <2>3, <3>1
    <3>3. QED
      BY <1>1, <2>1, <2>3, <3>2, MapAssumption DEF MapAssumption
  <2>4. \/ last'[i] = last[i]
        \/ \E pos \in Pos : last'[i] = [pos |-> pos, seen |-> now]
    <3>1. ASSUME NEW seen \in SUBSET Icao, NEW at \in [seen -> Pos], Record(seen, at)
          PROVE  last'[i] = last[i] \/ \E pos \in Pos : last'[i] = [pos |-> pos, seen |-> now]
      BY <3>1 DEF Record
    <3>2. CASE UNCHANGED last
      BY <3>2
    <3>3. QED
      BY <3>1, <3>2 DEF Next, SaveTmp, Rename, SaveDB, SaveRedis, Crash, Boot, Tick, vars, history
  <2>5. QED
    BY <2>1, <2>2, <2>3, <2>4
<1>4. QED
  BY <1>2, <1>3

LEMMA MapsStep == Types /\ Types' /\ Maps /\ [Next]_vars => Maps'
<1> SUFFICES ASSUME Types, Types', Maps, [Next]_vars PROVE Maps'
  OBVIOUS
<1> USE DEF disk, history
<1>0. \A map : Good(map, Unix, last) => Good(map, Unix', last')
  BY SightsGrow, StaysGood
<1>1. ASSUME NEW seen \in SUBSET Icao, NEW at \in [seen -> Pos], Record(seen, at) PROVE Maps'
  <2>1. Unix' = Unix /\ Good(trails', Unix, last')
    BY <1>1, RecordGood DEF Record, Unix
  <2>2. QED
    BY <1>0, <1>1, <2>1 DEF Record, Maps
<1>2. ASSUME SaveTmp PROVE Maps'
  <2>1. Good(Kept(trails), Unix, last) /\ Kept(trails) # Torn
    BY GoodKept, MapAssumption DEF MapAssumption, Maps, Good
  <2>2. QED
    BY <1>0, <1>2, <2>1 DEF SaveTmp, Maps
<1>3. ASSUME Rename PROVE Maps'
  BY <1>0, <1>3, GoodNothing DEF Rename, Maps
<1>4. ASSUME SaveDB PROVE Maps'
  <2>1. Good(Rows, Unix, last)
    BY GoodRows DEF Maps
  <2>2. QED
    BY <1>0, <1>4, <2>1 DEF SaveDB, Maps
<1>5. ASSUME SaveRedis PROVE Maps'
  <2>1. Good(Kept(trails), Unix, last)
    BY GoodKept DEF Maps
  <2>2. redis'.blob \in {redis.blob, Kept(trails)}
    BY <1>5 DEF SaveRedis
  <2>3. QED
    BY <1>0, <1>5, <2>1, <2>2 DEF SaveRedis, Maps
<1>6. ASSUME Crash PROVE Maps'
  BY <1>0, <1>6, GoodNothing DEF Crash, Maps
<1>7. ASSUME NEW readable \in SUBSET configured, NEW pinged \in SUBSET (configured \cap {"redis"}),
             Boot(readable, pinged)
      PROVE  Maps'
  <2>1. Good(Blob, Unix, last) /\ Good(Nothing, Unix, last)
    BY GoodNothing DEF Blob, Maps
  <2>2. Good(Load(file), Unix, last) /\ Good(Load(db), Unix, last) /\ Good(Load(Blob), Unix, last)
    BY <2>1, LoadIsKept, GoodKept DEF Maps
  <2>3. Good(trails', Unix, last)
    BY <1>7, <2>1, <2>2, GoodMerge DEF Boot
  <2>4. QED
    BY <1>0, <1>7, <2>3 DEF Boot, Maps
<1>8. ASSUME Tick PROVE Maps'
  BY <1>0, <1>8 DEF Tick, Maps
<1>9. CASE UNCHANGED vars
  BY <1>0, <1>9 DEF vars, Maps
<1>10. QED
  BY <1>1, <1>2, <1>3, <1>4, <1>5, <1>6, <1>7, <1>8, <1>9 DEF Next

LEMMA MapsAlways == Spec => [](Types /\ Maps)
BY TypesInit, TypesStep, MapsStep, PTL DEF Spec

\* Whatever crashes, failed writes and merges do, what the process and its backends hold
\* are trails of one to MaxPoints points.
THEOREM TypeCorrect == Spec => []TypeOK
<1>1. Types /\ Maps => TypeOK
  <2> SUFFICES ASSUME Types, Maps PROVE TypeOK
    OBVIOUS
  <2>1. ASSUME NEW i \in Icao, trails[i] # NoTrail
        PROVE  Len(trails[i].points) \in 1..MaxPoints
    <3>1. Entry(trails[i], Unix, last[i])
      BY <2>1 DEF Maps, Good
    <3>2. QED
      BY <3>1, TrailsAssumption DEF TrailsAssumption, Entry, Path
  <2>2. QED
    BY <2>1 DEF Types, Maps, Good, TypeOK
<1>2. QED
  BY <1>1, MapsAlways, PTL

\* The rename only ever moves a complete file over the old one.
THEOREM FileStaysWhole == Spec => []FileIsWhole
<1>1. Maps => FileIsWhole
  BY MapAssumption DEF MapAssumption, Maps, Good, FileIsWhole
<1>2. QED
  BY <1>1, MapsAlways, PTL

\* The breadcrumbs of a trail are in the order of time, each at a position of its own.
THEOREM InTime == Spec => []Chronological
<1>1. Maps => Chronological
  BY DEF Maps, Good, Entry, Path, Chronological
<1>2. QED
  BY <1>1, MapsAlways, PTL

\* No restart, and no backend's copy, shows a trail past the grace of its last sighting.
THEOREM GraceHolds == Spec => []GraceEnds
<1>1. Types /\ Maps => GraceEnds
  <2> SUFFICES ASSUME Types, Maps, NEW i \in Served
               PROVE  last[i] # NoTrail /\ now - last[i].seen <= Grace
    BY DEF GraceEnds
  <2>1. Entry(trails[i], Unix, last[i]) /\ now - trails[i].seen <= Grace
    BY DEF Served, InGrace, Maps, Good
  <2>2. trails[i].seen \in Int /\ last[i].seen \in Int /\ now \in Int /\ Grace \in Int
    BY <2>1, TrailsAssumption DEF TrailsAssumption, Entry, Trail, Types, Served
  <2>3. QED
    BY <2>1, <2>2 DEF Entry
<1>2. QED
  BY <1>1, MapsAlways, PTL
-----------------------------------------------------------------------------
\* The trails that must be whole: sighted within the grace (less a second), with no boot
\* that had to do without their latest save.
Due == {i \in Icao \ lost : last[i] # NoTrail /\ now - last[i].seen <= Grace - Second}

\* A map holds the newest end of these trails, seen no earlier than in that second.
Holds(map, due, sights) ==
    \A i \in due : /\ map[i] # NoTrail
                   /\ Second * (sights[i].seen \div Second) <= map[i].seen
                   /\ Last(map[i].points).pos = sights[i].pos

\* So does the running process, a complete path.tmp, and each backend that is not behind.
Ends ==
    /\ saving # "no" => up
    /\ up => Holds(trails, Due, last)
    /\ saving = "rename" => Holds(tmp, Due, last)
    /\ "file" \in configured \ behind => Holds(file, Due, last)
    /\ "db" \in configured \ behind => Holds(db, Due, last)
    /\ "redis" \in configured \ behind => /\ Holds(redis.blob, Due, last)
                                          /\ \A i \in Due : last[i].seen + Grace <= redis.until

LEMMA EndsInit == Init => Ends
BY DEF Init, Ends, Due, Holds

LEMMA DueTypes ==
    ASSUME Types, NEW i \in Due
    PROVE  /\ i \in Icao /\ last[i] # NoTrail /\ last[i].seen \in Nat /\ now \in Nat
           /\ last[i].seen <= now /\ now - last[i].seen <= Grace - Second
           /\ Second \in Nat /\ Second >= 1 /\ Grace \in Nat
BY TrailsAssumption DEF TrailsAssumption, Types, Due

\* A trail that is due is in grace.
LEMMA DueInGrace ==
    ASSUME Types, NEW map, Good(map, Unix, last), Holds(map, Due, last), NEW i \in Due
    PROVE  InGrace(map[i])
<1>1. Entry(map[i], Unix, last[i]) /\ Second * (last[i].seen \div Second) <= map[i].seen
  BY DueTypes DEF Good, Holds
<1>2. map[i].seen \in Nat
  BY <1>1, TrailsAssumption DEF TrailsAssumption, Entry, Trail
<1> DEFINE s == Second * (last[i].seen \div Second)
<1>3. s \in Nat /\ last[i].seen < s + Second
  BY DueTypes, Seconds
<1> HIDE DEF s
<1>4. now - map[i].seen <= Grace
  BY <1>1, <1>2, <1>3, DueTypes DEF s
<1>5. QED
  BY <1>4 DEF InGrace, Holds

LEMMA HoldsKept ==
    ASSUME Types, NEW map, Good(map, Unix, last), Holds(map, Due, last)
    PROVE  Holds(Kept(map), Due, last)
<1>1. \A i \in Due : Kept(map)[i] = map[i]
  BY DueInGrace, DueTypes DEF Kept
<1>2. QED
  BY <1>1 DEF Holds

LEMMA HoldsRows ==
    ASSUME Types, Maps, Holds(trails, Due, last)
    PROVE  Holds(Rows, Due, last)
<1> SUFFICES ASSUME NEW i \in Due
             PROVE  /\ Rows[i] # NoTrail
                    /\ Second * (last[i].seen \div Second) <= Rows[i].seen
                    /\ Last(Rows[i].points).pos = last[i].pos
  BY DEF Holds
<1> DEFINE trail == Kept(trails)[i]
<1>1. /\ trail # NoTrail /\ Second * (last[i].seen \div Second) <= trail.seen
      /\ Last(trail.points).pos = last[i].pos
  BY HoldsKept DEF Maps, Holds
<1>2. Good(Kept(trails), Unix, last)
  BY GoodKept DEF Maps
<1>3. trail \in Trail
  BY <1>1, <1>2, DueTypes DEF Good, Entry
<1>4. Rows[i] = Row(trail)
  BY DueTypes DEF Rows
<1> HIDE DEF trail
<1>5. trail.seen \in Nat
  BY <1>3, TrailsAssumption DEF TrailsAssumption, Trail
<1>6. Second * (last[i].seen \div Second) <= Second * (trail.seen \div Second)
  BY <1>1, <1>5, DueTypes, SameSecond
<1>7. QED
  BY <1>1, <1>3, <1>4, <1>6, RowIs

\* A boot whose winner is not behind ends up with what is due.
LEMMA BootHolds ==
    ASSUME Types, Maps, Ends, NEW readable \in SUBSET configured, NEW pinged,
           Boot(readable, pinged), Winner(readable) \notin behind \cup {"none"}
    PROVE  Holds(trails', Due, last)
<1> DEFINE from(b, map) == IF b \in readable THEN Load(map) ELSE Nothing
<1>1. trails' = Merge(Merge(from("file", file), from("db", db)), from("redis", Blob))
  BY DEF Boot
<1>2. /\ Load(file) = Kept(file) /\ Load(db) = Kept(db) /\ Load(Blob) = Kept(Blob)
      /\ Good(Blob, Unix, last)
  BY LoadIsKept, GoodNothing DEF Maps, Blob
<1>3. CASE "redis" \in readable
  <2>1. "redis" \in configured \ behind
    BY <1>3 DEF Winner
  <2>2. ASSUME NEW i \in Due PROVE Blob = redis.blob
    <3>1. now < last[i].seen + Grace /\ last[i].seen + Grace <= redis.until
      BY <2>1, DueTypes DEF Ends
    <3>2. redis.until \in Int
      BY TrailsAssumption DEF TrailsAssumption, Types
    <3>3. QED
      BY <3>1, <3>2, DueTypes DEF Blob
  <2>3. Holds(Blob, Due, last)
    BY <2>1, <2>2 DEF Ends, Holds
  <2>4. Holds(Load(Blob), Due, last)
    BY <1>2, <2>3, HoldsKept
  <2>5. \A i \in Due : trails'[i] = Load(Blob)[i]
    BY <1>1, <1>3, <2>4, DueTypes DEF Merge, Holds
  <2>6. QED
    BY <2>4, <2>5 DEF Holds
<1>4. CASE "redis" \notin readable /\ "db" \in readable
  <2>1. "db" \in configured \ behind
    BY <1>4 DEF Winner
  <2>2. Holds(Load(db), Due, last)
    BY <1>2, <2>1, HoldsKept DEF Ends, Maps
  <2>3. \A i \in Due : trails'[i] = Load(db)[i]
    BY <1>1, <1>4, <2>2, DueTypes DEF Merge, Holds, Nothing
  <2>4. QED
    BY <2>2, <2>3 DEF Holds
<1>5. CASE readable \cap {"redis", "db"} = {} /\ "file" \in readable
  <2>1. "file" \in configured \ behind
    BY <1>5 DEF Winner
  <2>2. Holds(Load(file), Due, last)
    BY <1>2, <2>1, HoldsKept DEF Ends, Maps
  <2>3. \A i \in Due : trails'[i] = Load(file)[i]
    BY <1>1, <1>5, DueTypes DEF Merge, Nothing
  <2>4. QED
    BY <2>2, <2>3 DEF Holds
<1>6. readable \cap {"redis", "db", "file"} # {}
  BY DEF Winner
<1>7. QED
  BY <1>3, <1>4, <1>5, <1>6

LEMMA EndsStep == Types /\ Maps /\ Types' /\ Ends /\ [Next]_vars => Ends'
<1> SUFFICES ASSUME Types, Maps, Types', Ends, [Next]_vars PROVE Ends'
  OBVIOUS
<1> USE DEF disk, history
<1>1. ASSUME NEW seen \in SUBSET Icao, NEW at \in [seen -> Pos], Record(seen, at) PROVE Ends'
  <2>1. \A i \in seen : /\ trails'[i] # NoTrail /\ trails'[i].seen = now
                        /\ Last(trails'[i].points).pos = at[i]
    BY <1>1, RecordGood
  <2>2. \A i \in Icao \ seen : trails'[i] = Kept(trails)[i] /\ last'[i] = last[i]
    BY <1>1, RecordGood DEF Record, Types
  <2>3. Holds(Kept(trails), Due, last)
    BY <1>1, HoldsKept DEF Record, Maps, Ends
  <2>4. now \in Nat /\ Second * (now \div Second) <= now
    BY Seconds, TrailsAssumption DEF TrailsAssumption, Types
  <2>5. \A i \in seen : last'[i] = [pos |-> at[i], seen |-> now]
    BY <1>1 DEF Record
  <2>6. \A i \in Due' \ seen : i \in Due
    BY <1>1, <2>2 DEF Record, Due
  <2>7. Holds(trails', Due', last')
    <3> SUFFICES ASSUME NEW i \in Due'
                 PROVE  /\ trails'[i] # NoTrail
                        /\ Second * (last'[i].seen \div Second) <= trails'[i].seen
                        /\ Last(trails'[i].points).pos = last'[i].pos
      BY DEF Holds
    <3>1. CASE i \in seen
      <4>1. last'[i] = [pos |-> at[i], seen |-> now]
        BY <2>5, <3>1
      <4>2. last'[i].seen = now /\ last'[i].pos = at[i]
        BY <4>1
      <4>3. QED
        BY <2>1, <2>4, <3>1, <4>2
    <3>2. CASE i \notin seen
      <4>1. i \in Icao
        BY DEF Due
      <4>2. QED
        BY <2>2, <2>3, <2>6, <3>2, <4>1 DEF Holds
    <3>3. QED
      BY <3>1, <3>2
  <2>8. up' /\ saving' = "tmp" /\ configured' = configured /\ behind' = configured
    BY <1>1 DEF Record
  <2>9. QED
    BY <2>7, <2>8 DEF Ends
\* Any other step leaves the sightings alone, and no trail becomes due.
<1>2. ASSUME UNCHANGED last, now' >= now, lost \subseteq lost'
      PROVE  /\ Due' \subseteq Due
             /\ \A map : Holds(map, Due, last) => Holds(map, Due', last')
  <2>1. \A i \in Due' : i \in Due
    BY <1>2, TrailsAssumption DEF TrailsAssumption, Due, Types
  <2>2. QED
    BY <1>2, <2>1 DEF Holds
<1>3. now \in Int
  BY DEF Types
<1>4. ASSUME SaveTmp PROVE Ends'
  <2>1. Holds(Kept(trails), Due, last)
    BY <1>4, HoldsKept DEF SaveTmp, Maps, Ends
  <2>2. QED
    BY <1>2, <1>3, <1>4, <2>1 DEF SaveTmp, Ends
<1>5. ASSUME Rename PROVE Ends'
  BY <1>2, <1>3, <1>5 DEF Rename, Ends
<1>6. ASSUME SaveDB PROVE Ends'
  <2>1. Holds(Rows, Due, last)
    BY <1>6, HoldsRows DEF SaveDB, Ends
  <2>2. QED
    BY <1>2, <1>3, <1>6, <2>1 DEF SaveDB, Ends
<1>7. ASSUME SaveRedis PROVE Ends'
  <2>1. Holds(Kept(trails), Due, last)
    BY <1>7, HoldsKept DEF SaveRedis, Maps, Ends
  <2>2. \A i \in Due : last[i].seen + Grace <= now + Grace
    BY DueTypes
  <2>3. \/ redis' = [blob |-> Kept(trails), until |-> now + Grace]
        \/ UNCHANGED <<redis, behind>>
    BY <1>7 DEF SaveRedis
  <2>4. QED
    BY <1>2, <1>3, <1>7, <2>1, <2>2, <2>3 DEF SaveRedis, Ends
<1>8. ASSUME Crash PROVE Ends'
  BY <1>2, <1>3, <1>8 DEF Crash, Ends
<1>9. ASSUME NEW readable \in SUBSET configured, NEW pinged \in SUBSET (configured \cap {"redis"}),
             Boot(readable, pinged)
      PROVE  Ends'
  <2>1. up' /\ UNCHANGED <<now, configured, saving, tmp, file, db, redis, last, behind>>
    BY <1>9 DEF Boot
  <2>2. saving' = "no"
    BY <1>9, <2>1 DEF Boot, Ends
  <2>3. CASE Winner(readable) \in behind \cup {"none"}
    <3>1. Due' = {}
      BY <1>9, <2>3 DEF Boot, Due
    <3>2. QED
      BY <2>1, <2>2, <3>1 DEF Ends, Holds
  <2>4. CASE Winner(readable) \notin behind \cup {"none"}
    <3>1. Holds(trails', Due, last) /\ lost' = lost
      BY <1>9, <2>4, BootHolds DEF Boot
    <3>2. QED
      BY <1>2, <1>3, <2>1, <2>2, <3>1 DEF Ends
  <2>5. QED
    BY <2>3, <2>4
<1>10. ASSUME Tick PROVE Ends'
  BY <1>2, <1>3, <1>10 DEF Tick, Ends
<1>11. CASE UNCHANGED vars
  BY <1>2, <1>3, <1>11 DEF vars, Ends
<1>12. QED
  BY <1>1, <1>4, <1>5, <1>6, <1>7, <1>8, <1>9, <1>10, <1>11 DEF Next

\* Across restarts, with any of the backends failing any save or load, a trail within its
\* grace is shown up to its newest position if the winner of the merge had it.
THEOREM TrailsKept == Spec => []KeepsTrails
<1>1. Types /\ Maps /\ Ends => KeepsTrails
  <2> SUFFICES ASSUME Types, Maps, Ends, NEW i \in Icao \ lost, up, last[i] # NoTrail,
                      now - last[i].seen <= Grace - Second
               PROVE  /\ i \in Served
                      /\ trails[i].points[Len(trails[i].points)].pos = last[i].pos
    BY DEF KeepsTrails
  <2>1. i \in Due /\ Holds(trails, Due, last)
    BY DEF Due, Ends
  <2>2. InGrace(trails[i])
    BY <2>1, DueInGrace DEF Maps
  <2>3. QED
    BY <2>1, <2>2 DEF Served, Holds, Last
<1>2. QED
  BY <1>1, TypesInit, EndsInit, TypesStep, MapsStep, EndsStep, PTL DEF Spec
=============================================================================
