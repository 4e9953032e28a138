------------------------------ MODULE Playback ------------------------------
(* Trail playback in the browser (templates/index.html) and the server's     *)
(* reference for it (cache/playback.go): a clock that the user starts, stops, *)
(* drags and leaves, over trails that every answer of the server replaces,    *)
(* drawn on the map the live markers are on.  The handlers run one at a time, *)
(* in any order.  Positions are numbers, chosen such that quotients are whole. *)
EXTENDS Integers, Sequences, FiniteSets

CONSTANTS Icao,
          Nobody,       \* no aircraft selected
          Answers,      \* trails an answer may carry: sequences of [at, pos] by aircraft
          Steps,        \* 2 * speed for the speeds on offer
          Links,        \* times pb_at or pb_to of a shared link may name
          MaxAt         \* bound on them and on breadcrumbs

None == -1              \* no position

Point == [at : 1..MaxAt, pos : Nat]

ASSUME PlaybackAssumption ==
    /\ Nobody \notin Icao
    /\ MaxAt \in Nat
    /\ Answers \subseteq [Icao -> Seq(Point)]
    /\ \A T \in Answers, i \in Icao :
         \A k \in 1..(Len(T[i]) - 1) : T[i][k].at <= T[i][k + 1].at   \* Trails!Chronological
    /\ Steps \subseteq Nat \ {0}
    /\ Links \subseteq 1..MaxAt

VARIABLES trails,       \* lastTrails
          min, max,     \* playbackMin, playbackMax
          at,           \* playbackAt
          active, playing,      \* playbackActive, playbackPlaying
          timer,        \* the step of the interval that playbackTimer runs, 0 without one
          step,         \* 2 * the speed selected
          marks,        \* the marks above the scrubber, each of an aircraft and a time
          ghosts,       \* playbackMarkers: aircraft -> where it is drawn
          live, onMap,  \* the live markers, those of them that are on the map
          known,        \* lastAircraft
          matching,     \* aircraft that pass the list filters
          selected,     \* selectedIcao
          onlySelected, \* playbackSelected.checked
          link,         \* how the page was opened, until that is dealt with
          early, slipped, relisted, reselected  \* history, see the properties

clock == <<at, active, playing, timer>>
range == <<trails, min, max, marks>>
layers == <<live, onMap, known, matching>>
selection == <<selected, onlySelected>>
history == <<early, slipped, relisted, reselected>>
vars == <<range, clock, step, ghosts, layers, selection, link, history>>

NoLink == [kind |-> "none", to |-> 0]
Link == [kind : {"pb_at", "pb_to"}, to : Links] \cup {NoLink}
Jump == [icao : Icao, to : 1..MaxAt]

TypeOK == /\ trails \in Answers \cup {[i \in Icao |-> <<>>]}
          /\ min \in 0..MaxAt /\ max \in min..MaxAt
          /\ at \in 0..MaxAt
          /\ {active, playing, early, slipped, relisted, reselected} \subseteq BOOLEAN
          /\ timer \in Steps \cup {0} /\ step \in Steps
          /\ marks \subseteq Jump
          /\ DOMAIN ghosts \subseteq Icao
          /\ onMap \subseteq live /\ live \subseteq Icao
          /\ known \subseteq Icao /\ matching \subseteq Icao
          /\ selected \in Icao \cup {Nobody} /\ onlySelected \in BOOLEAN
          /\ link \in Link

Init == /\ trails = [i \in Icao |-> <<>>]
        /\ min = 0 /\ max = 0 /\ at = 0
        /\ active = FALSE /\ playing = FALSE /\ timer = 0
        /\ step \in Steps
        /\ marks = {} /\ ghosts = <<>>
        /\ live = {} /\ onMap = {} /\ known = {} /\ matching = Icao
        /\ selected = Nobody /\ onlySelected = FALSE
        /\ link \in Link
        /\ early = FALSE /\ slipped = FALSE /\ relisted = FALSE /\ reselected = FALSE
-----------------------------------------------------------------------------
Last(s) == s[Len(s)]

\* The first segment that ends at t or later, by its end; Len(p) + 1 without one.
SegmentEnd(p, t) ==
    LET ends == {k \in 2..Len(p) : t <= p[k].at} IN
    IF ends = {} THEN Len(p) + 1 ELSE CHOOSE k \in ends : \A j \in ends : k <= j

Between(a, b, t) == a.pos + ((b.pos - a.pos) * (t - a.at)) \div (b.at - a.at)

\* cache.PositionAt
PositionAt(p, t) ==
    CASE p = <<>>                          -> None
      [] Len(p) = 1                        -> p[1].pos
      [] Len(p) > 1 /\ t < p[1].at         -> None
      [] Len(p) > 1 /\ t = p[1].at         -> p[1].pos
      [] Len(p) > 1 /\ t > p[1].at         ->
           LET k == SegmentEnd(p, t) IN
           IF k > Len(p) THEN Last(p).pos ELSE Between(p[k - 1], p[k], t)

\* Mutant: the segment after the one t is in.
positionAt_PastSegment(p, t) ==
    CASE p = <<>>                          -> None
      [] Len(p) = 1                        -> p[1].pos
      [] Len(p) > 1 /\ t < p[1].at         -> None
      [] Len(p) > 1 /\ t >= p[1].at        ->
           LET k == SegmentEnd(p, t + 1) IN
           IF k > Len(p) THEN Last(p).pos
           ELSE IF p[k].at = p[k - 1].at THEN p[k].pos
           ELSE Between(p[k - 1], p[k], t + 1)

\* positionAt, in the browser: it holds the end before it looks for a segment, and a
\* segment without length is its end.
positionAt(p, t) ==
    CASE p = <<>>                          -> None
      [] Len(p) = 1                        -> p[1].pos
      [] Len(p) > 1 /\ t < p[1].at         -> None
      [] Len(p) > 1 /\ t = p[1].at         -> p[1].pos
      [] Len(p) > 1 /\ t > p[1].at         ->
           LET k == SegmentEnd(p, t) IN
           IF t >= Last(p).at THEN Last(p).pos
           ELSE IF p[k].at = p[k - 1].at THEN p[k].pos
           ELSE Between(p[k - 1], p[k], t)

\* TrailTimeRange and trailTimeRange: times are at least 1, and 0 stands for no trail.
Times(T) == UNION {{T[i][k].at : k \in 1..Len(T[i])} : i \in Icao}
Least(S) == IF S = {} THEN 0 ELSE CHOOSE x \in S : \A y \in S : x <= y
Greatest(S) == IF S = {} THEN 0 ELSE CHOOSE x \in S : \A y \in S : y <= x

\* Whom a frame may show: with "Selected only", nobody but the selected aircraft, if any.
Shown == IF onlySelected /\ selected # Nobody THEN {selected} ELSE Icao

\* What renderPlaybackFrame draws.
Frame(T, t) == [i \in {j \in Shown : positionAt(T[j], t) # None} |-> positionAt(T[i], t)]

Unlocked == min # 0 /\ max > min        \* not playbackScrub.disabled
-----------------------------------------------------------------------------
\* The flag of a clock that a pb_to link set before the first breadcrumb.
Settle == early' = (early /\ at' < min')

\* setPlaybackMode(true) unless it is on, and renderPlaybackFrame(t).
Show(t) == /\ active' = TRUE /\ at' = t
           /\ ghosts' = Frame(trails, t)
           /\ onMap' = IF active THEN onMap ELSE {}
           /\ relisted' = (active /\ relisted)
           /\ UNCHANGED <<live, known, matching, onlySelected>>

Stop == playing' = FALSE /\ timer' = 0 /\ slipped' = FALSE

\* What showAircraftDetail does to the selection: it draws nothing, so that a frame on the
\* map which depends on the selection, redrawn or not in the same step, is the old one's.
Choose(i, redrawn) == /\ selected' = i
                      /\ reselected' = \/ (reselected /\ ~redrawn)
                                        \/ (active' /\ onlySelected /\ i # selected)

\* One mark a trail, at its middle breadcrumb.
Marks(T) == {[icao |-> i, to |-> T[i][Len(T[i]) \div 2 + 1].at] : i \in {j \in Icao : T[j] # <<>>}}

\* Mutant: a time that has left the range is kept.
UpdateRange_KeepsTime(T) ==
    LET lo == Least(Times(T))  hi == Greatest(Times(T)) IN
    /\ trails' = T /\ min' = lo /\ max' = hi
    /\ IF lo # 0 /\ hi > lo
       THEN /\ at' = IF active THEN at ELSE hi
            /\ marks' = Marks(T)
       ELSE UNCHANGED <<at, marks>>

\* updatePlaybackRange: new bounds; the clock keeps its time while that is inside them.
\* A range that locks keeps the clock and the marks of the one before.
UpdateRange(T) ==
    LET lo == Least(Times(T))  hi == Greatest(Times(T)) IN
    /\ trails' = T /\ min' = lo /\ max' = hi
    /\ IF lo # 0 /\ hi > lo
       THEN /\ at' = IF active /\ at \in lo..hi THEN at ELSE hi
            /\ marks' = Marks(T)
       ELSE UNCHANGED <<at, marks>>

\* Mutant: an answer draws its aircraft during playback too.
Apply_DrawsAnyway(list, T) ==
    /\ UpdateRange(T) /\ Settle
    /\ ghosts' = IF active THEN Frame(T, at') ELSE ghosts
    /\ live' = list /\ known' = list /\ onMap' = list \cap matching
    /\ reselected' = FALSE
    /\ UNCHANGED <<active, playing, timer, step, matching, selection, link, slipped, relisted>>

\* Mutant: during playback an answer only replaces the trails.
Apply_NoFrame(list, T) ==
    /\ UpdateRange(T) /\ Settle
    /\ IF active
       THEN known' = {} /\ UNCHANGED <<live, onMap, ghosts>>
       ELSE live' = list /\ known' = list /\ onMap' = list \cap matching /\ UNCHANGED ghosts
    /\ reselected' = FALSE
    /\ UNCHANGED <<active, playing, timer, step, matching, selection, link, slipped, relisted>>

\* applyAircraftData: an answer with its aircraft and trails, asked for at any time.
Apply(list, T) ==
    /\ UpdateRange(T) /\ Settle
    /\ IF active
       THEN ghosts' = Frame(T, at') /\ known' = {} /\ UNCHANGED <<live, onMap>>
       ELSE live' = list /\ known' = list /\ onMap' = list \cap matching /\ UNCHANGED ghosts
    /\ reselected' = FALSE
    /\ UNCHANGED <<active, playing, timer, step, matching, selection, link, slipped, relisted>>

\* applyListFilter, after a change of filters, order, follow or alerts: F passes the filters,
\* the same as before or not.  Markers without data stay.
Filter(F) ==
    /\ matching' = F
    /\ onMap' = {i \in live : i \in known => i \in F}
    /\ relisted' = active
    /\ UNCHANGED <<range, clock, step, ghosts, live, known, selection, link,
                   early, slipped, reselected>>

\* Mutant: a pause leaves the timer.
Toggle_KeepsTimer ==
    /\ Unlocked
    /\ IF active THEN UNCHANGED <<active, at, ghosts, layers, selection, relisted, reselected>>
       ELSE Show(IF at # 0 THEN at ELSE max) /\ Choose(selected, TRUE)
    /\ playing' = ~playing
    /\ timer' = IF playing' THEN step ELSE timer
    /\ slipped' = FALSE
    /\ UNCHANGED <<range, step, link>> /\ Settle

\* togglePlayback
Toggle ==
    /\ Unlocked
    /\ IF active THEN UNCHANGED <<active, at, ghosts, layers, selection, relisted, reselected>>
       ELSE Show(IF at # 0 THEN at ELSE max) /\ Choose(selected, TRUE)
    /\ playing' = ~playing
    /\ timer' = IF playing' THEN step ELSE 0
    /\ slipped' = FALSE
    /\ UNCHANGED <<range, step, link>> /\ Settle

\* Mutant: the clock does not go back to the start.
TimerTick_NoWrap ==
    /\ timer > 0 /\ at < MaxAt
    /\ at' = at + timer
    /\ ghosts' = Frame(trails, at')
    /\ reselected' = FALSE
    /\ UNCHANGED <<range, active, playing, timer, step, layers, selection, link,
                   slipped, relisted>>
    /\ Settle

\* The interval that togglePlayback starts.
TimerTick ==
    /\ timer > 0
    /\ at' = IF at + timer > max THEN min ELSE at + timer
    /\ ghosts' = Frame(trails, at')
    /\ reselected' = FALSE
    /\ UNCHANGED <<range, active, playing, timer, step, layers, selection, link,
                   slipped, relisted>>
    /\ Settle

\* A click on a mark, which shows its time and only then selects its aircraft; those of
\* the last range that was not locked stay.
Mark(m) ==
    /\ m \in marks
    /\ Show(m.to) /\ Stop /\ Choose(m.icao, TRUE)
    /\ UNCHANGED <<range, step, link>> /\ Settle

\* The scrubber, which a locked range disables.
Scrub(t) ==
    /\ Unlocked /\ t \in min..max
    /\ Show(t) /\ Stop /\ Choose(selected, TRUE)
    /\ UNCHANGED <<range, step, link>> /\ Settle

\* Another speed: a playback restarts with it, through a togglePlayback that a locked
\* range turns away.
Speed(s) ==
    /\ s # step /\ step' = s
    /\ IF ~playing THEN UNCHANGED <<playing, timer, slipped>>
       ELSE IF Unlocked THEN timer' = s /\ UNCHANGED <<playing, slipped>>
       ELSE playing' = FALSE /\ slipped' = TRUE /\ UNCHANGED timer
    /\ UNCHANGED <<range, at, active, ghosts, layers, selection, link,
                   early, relisted, reselected>>

\* An aircraft is selected, in the list or on the map, or its panel is closed.
Select(i) ==
    /\ UNCHANGED <<range, clock, step, ghosts, layers, onlySelected, link,
                   early, slipped, relisted>>
    /\ Choose(i, FALSE)

\* "Selected only" is ticked or cleared.
OnlySelected ==
    /\ onlySelected' = ~onlySelected
    /\ UNCHANGED <<range, clock, step, layers, selected, link, early, slipped, relisted>>
    /\ ghosts' = IF active THEN Frame(trails, at)' ELSE ghosts
    /\ reselected' = FALSE

\* setPlaybackMode(false); the refreshMap it asks for is an Apply.
Now == /\ active' = FALSE /\ onMap' = live /\ relisted' = FALSE
       /\ ghosts' = <<>>
       /\ Stop /\ Choose(selected, TRUE)
       /\ UNCHANGED <<range, at, step, live, known, matching, onlySelected, link>>
       /\ Settle

\* The end of the boot sequence: the link is followed if the trails reach it, and then
\* the aircraft it names, if any, is selected.
OpenLink ==
    /\ link # NoLink /\ link' = NoLink
    /\ \E icao \in Icao \cup {selected} :
         IF max >= link.to /\ (link.kind = "pb_at" => link.to >= min)
         THEN /\ active' = TRUE /\ at' = link.to /\ ghosts' = Frame(trails, link.to)
              /\ onMap' = {} /\ relisted' = FALSE
              /\ early' = (link.to < min)
              /\ Choose(icao, TRUE)
         ELSE /\ UNCHANGED <<active, at, ghosts, onMap, relisted, early>>
              /\ Choose(icao, FALSE)
    /\ UNCHANGED <<range, playing, timer, step, live, known, matching, onlySelected, slipped>>

Next == \/ \E list \in SUBSET Icao, T \in Answers : Apply(list, T)
        \/ \E F \in SUBSET Icao : Filter(F)
        \/ Toggle \/ TimerTick \/ Now \/ OpenLink \/ OnlySelected
        \/ \E t \in 1..MaxAt : Scrub(t)
        \/ \E m \in Jump : Mark(m)
        \/ \E i \in Icao \cup {Nobody} : Select(i)
        \/ \E s \in Steps : Speed(s)

Spec == Init /\ [][Next]_vars
-----------------------------------------------------------------------------
\* Every ghost is where the trails on hand have its aircraft at the time on the clock: an
\* answer that replaces the trails under a playing or a paused clock is drawn at once, and
\* nothing of the history stays on the map outside playback.  The frame is whole, and
\* keeps to "Selected only", until a selection is made that nothing redraws.
FrameIsTrue ==
    /\ ~active => ghosts = <<>>
    /\ active => \A i \in DOMAIN ghosts :
                   ghosts[i] # None /\ ghosts[i] = positionAt(trails[i], at)
    /\ active /\ ~reselected => ghosts = Frame(trails, at)

\* With a range to play, the clock shows a time of it, however the trails are replaced,
\* locked and unlocked again under it; a link by pb_to alone may start before.
ClockInRange == active /\ Unlocked /\ ~early => at \in min..max

\* The map shows the present or the past: live markers stay off it during playback until
\* a change of filters, order, follow or alerts goes through the list anew.
OnePicture == active /\ ~relisted => onMap = {}

\* Playing means that one timer runs, at the speed selected, and only playback has
\* one; the exception is a change of speed while the range is locked.
TimerFollows == /\ playing => timer = step
                /\ timer > 0 => active
                /\ timer > 0 /\ ~playing => slipped

\* An aircraft is drawn between the breadcrumbs on either side of the time on the clock,
\* at the last one afterwards, not at all before the first of several; and where the
\* server would put it, unless its last two breadcrumbs share their second.  None that
\* may be shown is missing, but for one selected since the last frame.
Interpolates ==
    \A i \in Icao : active /\ trails[i] # <<>> =>
      LET p == trails[i]
          past == {k \in 1..Len(p) : p[k].at <= at}
          next == {k \in 1..Len(p) : p[k].at >= at}
          drawn == i \in DOMAIN ghosts
          Within(j, k) == \/ p[j].pos <= ghosts[i] /\ ghosts[i] <= p[k].pos
                          \/ p[k].pos <= ghosts[i] /\ ghosts[i] <= p[j].pos
      IN /\ Len(p) > 1 /\ past = {} => ~drawn
         /\ i \in Shown /\ ~reselected /\ (past # {} \/ Len(p) = 1) => drawn
         /\ drawn =>
              /\ next = {} => ghosts[i] = Last(p).pos
              /\ past # {} /\ next # {} =>
                   \E j \in past, k \in next : k <= j + 1 /\ Within(j, k)
              /\ Len(p) > 1 /\ p[Len(p) - 1].at < Last(p).at => ghosts[i] = PositionAt(p, at)
=============================================================================
