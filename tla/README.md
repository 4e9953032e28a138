# Wrocław Sky in TLA+

Specifications of the Go server in `src/` (aircraft around an airport, from
OpenSky, on a map): what its parts promise, how their steps interleave, what TLC
finds on small instances and what TLAPS proves for all of them.

Contents: [the system](#the-system) · [modules](#modules-and-the-code) ·
[runs](#runs) · [bounds](#bounds) · [fairness](#fairness) ·
[proofs](#proofs) · [findings](#findings) · [left out](#left-out) · [plan](#plan)

## The system

| Part | State | Operations | What makes it correct |
|---|---|---|---|
| Circuit breaker, `opensky/breaker.go` | `failures`, `openUntil`, a mutex | `Allow`, `Success`, `Failure`, `Open` | an outage costs few calls; an open circuit closes again |
| OpenSky client, `opensky/client.go` | none between calls | `FetchStates`: up to three requests with pauses | a call reports once, whatever its retries cost |
| Snapshot store, `cache/cache.go` | aircraft, error, box, `bboxGen` | `SetBBox`, `Refresh`, `FetchOpenSky`, `Snapshot` | only traffic of the watched box is shown; a late answer for an old box leaves no trace |
| Airport switch and alerts, `server/focus_api.go`, `live.go`, `alerts.go` | focus, edge state, `bootstrapped` | `GET /?focus=`, `POST /api/focus`, `refreshAndWarm`, `evaluateAlerts` | a flight alerts once; a switch replays nothing; an alert names its own airport |
| Fetcher API, `server.go` `handleFetch` | the fetcher's store | `POST /api/fetch` | every UI host gets the traffic of its own box |
| Live poller, `server/live.go` | lease, the slot `cancel` | heartbeats, `liveLoop` | one poller, there while a tab is live, gone afterwards |
| SSE hub, `server/sse.go` | the set of client channels | subscribe, broadcast, unsubscribe | no send on a closed channel, publishers that overtake each other settle on the last state, nobody waits for a stuck client |
| Trails, `cache/persist.go`, `trails_store.go` | breadcrumbs in memory, a file, a table, a blob | record, save, load at boot | ≤ 48 points, in order, 3 minutes' grace, across crashes too |
| Live authorisation, `server/auth.go` | hits per client, a cookie | `allow`, POST/GET/DELETE | at most N attempts a window, nobody shut out by refusals, after a logout only what overlapped it brings the cookie back |
| Enrichment, `meta/enrich.go` | a cache with expiry | `Enrich`, `CachedRoute`, `WarmRoutes` | a known route is not lost to a poorer answer and comes back; the warm-up is bounded |
| Boards, view state, configuration, focus resolution | none | pure functions | ordering, round trip, precedence |
| Browser client, `templates/index.html` | Live, stream, timers, playback | `setLive`, `switchFocus`, playback | off is off; what is drawn is what the trails say of the time on the clock |
| Service worker, geometry, look-up tables, metrics, logging | – | – | – |

**How they interact.** Each HTTP request is a goroutine, and so is the Live poller;
they share the store, the focus, the edge state and the hub. `refreshAndWarm` is
the spine: read `bboxGen` → `Store.Refresh` (which asks the breaker, then OpenSky or
the fetcher, with no lock held) → compare the generation → warm routes → compare it
again → `evaluateAlerts` (under `alerts.mu`) → `publishUpdate` to the hub. An airport
switch writes focus, box and edge state in separate steps, at any point of somebody
else's spine. A UI host behind a fetcher runs the same code and calls the fetcher's
`/api/fetch`, whose store is the same type again. A landed snapshot also records
trails and rewrites their backends before the store's mutex is released.

**What is hard.** Answers that land after the question has changed; three critical
sections where one was meant (switch, fetch, evaluate); reports to the breaker that
are late or never come; a refresh that outlasts the lease that started it;
heartbeats that get lost or refused; clicks that overtake a call; a broadcast against
connections that come and go; a crash between two backends; a warm-up that outlives its
budget; trails that change under a playing clock; updates and
answers that overtake each other on their way to the browser. `PROJECT.json` lists every hazard at its line with the
properties that watch it.

## Modules and the code

| Module | Models | State ↔ code |
|---|---|---|
| `Breaker` | `breaker.go` | `failures` as it is; `openUntil` as the distance from now, `Zero` for the zero time. Each method is one action (each holds the mutex throughout); `Elapse` is the passing of the cooldown |
| `BreakerCalls` (extends `Breaker`) | `refreshOpenSky`'s use of it | `fetching`: callers let through that have not reported. A caller may report success, failure, or nothing (its answer was discarded) |
| `OpenSkyClient` (extends `BreakerCalls`) | `FetchStates` inside each such call | `attempt` is the loop variable, `asleep` who is in its pause; `struck` and `sent` count requests (history) |
| `SnapshotSpec` | what `Snapshot`, `Stale`, `BBox` promise | abstract: a box, a list of that box, an error bit; three atomic steps |
| `Store` (extends `Breaker`) | `cache.go` | `bbox`, `bboxGen`, `snapshot`, `err`; per goroutine its `pc` and the locals `reqBox`, `reqGen`, `answer`. A list is its box and the order in which it was answered. `Upstream` chooses between OpenSky and a fetcher |
| `FocusAlerts` | `applyFocusSwitch`, `refreshAndWarm`, `evaluateAlerts` | one action per lock-free step, so that each can be interrupted; `base`, `fired`, `stay`, `dropped`, `cutInto` are history |
| `Fetcher` (extends `Store`) | `handleFetch` and the UI's use of the answer | `stage`, `body` per request, `shown` per UI host |
| `LivePoller` | `touchLive`, `liveLoop`, and `setLive` with its heartbeats | `until` as distance from now, `cancel` as the poller it belongs to, each goroutine's place in `loop`, its ticker in `due`/`ticked`; per tab the button `pressed`, calls of `setLive(true)` that await their heartbeat in `asked`, `liveBeat` in `beat`, intervals it no longer names in `leaked`; a cookie that has run out is `lost[t] = Refused` |
| `SSEHub` | `sse.go`, `publishUpdate` | `queue[c]` is the channel, `open` the channels not closed, `clients` the map; `payload[p]` is the snapshot in the payload that a `publishUpdate` has built and not yet sent. The live loop and the handlers of requests publish at the same time; an event is its snapshot and its publisher |
| `Trails` | `recordTrailsLocked`, the three backends, the boot in `main.run` | `trails` in memory; `tmp`, `file`, `db`, `redis`; `on`: backends this process writes; `last`, `behind`, `lost` are history |
| `Enricher` | `Enrich`, `WarmRoutes`, the cascade of providers | `cache` with ages up to the TTL; a task is one look-up, of a visitor or of a warm-up's worker, with its place `pc` and its local `out`; `left` is the warm-up's budget; `behind` is history |
| `AuthLimiter` | `authLimiter.allow`, `handleLiveAuth` | `hits` with the clock readings in `read`, as distances from now; `waiting` for the lock; `coming`: answers with a `Set-Cookie` that are on their way; the browser's `cookie`. The server keeps no sessions, so nothing else of one exists. `passed`, `before`, `proved` and `undone` are history |
| `Playback` | `positionAt`, the scrubber, the timer and the overlay of `index.html`; `PositionAt` and `TrailTimeRange` of `playback.go` | the page's variables of the same names; `ghosts` are `playbackMarkers`, `live` and `onMap` the live markers and those on the map, `selected` and `onlySelected` the selection and the "Selected only" box; `early`, `slipped`, `relisted`, `reselected` are history |
| `MC*` | constants for TLC that are functions, and the symmetry of `MCAuthLimiter` | |
| `*_proofs` | the theorems, one module per component; `Live_proofs` has those of `LivePoller` and of `AuthLimiter`, `BreakerCalls_proofs` those of `OpenSkyClient` too, `Fetcher_proofs` those of `Store` | |

An action is a whole critical section or a step between two; nothing that the code
does in one section is split, and nothing that it does in two is joined. Definitions
named `X_Something` stand before `X` and are plausible mistakes in it: with one in
X's place the property named for it in `PROJECT.json` no longer holds.

Abstracted data: a list of aircraft is the box it was asked for, its rank among
answers, or (in `FocusAlerts`) the flights inbound to an airport; positions are a
set of two; logs, headers, JSON and wording are left out.

## Runs

| Run | Question | Properties |
|---|---|---|
| `breaker_calls` | what may an outage cost in calls and in requests, does the circuit close again, and are retries invisible to the breaker, when three callers report late or never? | `ClientTypeOK`, `OutageBudget`, `RequestBudget`, `TripIsTemporary`, `KeepsCalls` |
| `store_and_fetcher` | two UI hosts ask one fetcher for different boxes while it refreshes and switches on its own: what enters the store, what do discarded answers leave behind, and who is answered with what? | `BodyIsForCaller`, `CommitIsForWatchedBox`, `OldBoxCannotHurt`, `ImplementsSnapshot` |
| `focus_overlap` | what holds of switches, refreshes and alerts whatever overlaps and fails, are alerts armed again, and what holds when nothing overlaps or fails? | `DroppedNeverEvaluates`, `OncePerStay`, `KeepsContract`, `ArmedAgain`; `QuietAlerts` |
| `live_poller` | tabs, a lease, refreshes and losses that outlast it, cookies that run out, clicks that overtake a call, a restart: one poller, never missing, back again, gone at last, and silent tabs? | `TypeOK`, `OnePoller`, `LiveTabIsPolled`, `OffIsQuiet`, `PollingResumes`, `PollerStops` |
| `sse_hub` | two publishers that overtake each other, connections that come and go, one client stuck: how far back is a client taken, and where does it end up? | `NoSendOnClosed`, `BackAtMostOnce`, `SettlesOnLast` |
| `trails` | what does a restart show, after a crash at any point and writes and loads that fail? | `TypeOK`, `FileIsWhole`, `Chronological`, `GraceEnds`, `KeepsTrails` |
| `enricher` | a warm-up that outlives its budget, a visitor, failing providers: what may overwrite a cached answer, and do routes arrive? | `TypeOK`, `FreshIsKept`, `RouteArrives` |
| `auth_limiter` | attempts that record their times out of order; answers to them and to renewals that are lost or overtaken by a logout, expiry | `WindowBudget`, `NoLockout`, `LogoutHolds` |
| `playback` | a user who also filters and selects, a timer, and answers that replace the trails, lock and unlock the range | `TypeOK`, `FrameIsTrue`, `ClockInRange`, `OnePicture`, `TimerFollows`, `Interpolates` |

The other three runs each check one sentence of the documentation that the code does
not keep: see [findings](#findings).

`store_and_fetcher` runs `Store` inside `Fetcher`: requests and the fetcher's own
refreshes are `Store`'s goroutines, so the store's properties are checked there with
everything a fetcher adds. `focus_overlap` draws `quiet` once, in `Init`: half of its
behaviours let operations overlap and fetches fail, the other half do neither, and
only the properties named for them speak of the second half. `SSEHub`, `Store`, `Fetcher`,
`FocusAlerts` and `AuthLimiter` have type invariants as well, which the theorems below
establish for every instance.

## Bounds

- **Breaker** two retries as in the code, three callers, and a threshold of 2 where the code
  has 3: with one caller more than the threshold, a late failure comes after the opening and
  opens the circuit again. With as many callers as the threshold it cannot. The proofs are
  for any threshold.
- **Store and Fetcher** threshold 2, two boxes, two changes of the box (away and back
  is the hard case for a generation), two requests of two UI hosts against OpenSky and
  one refresh through an upstream. `MaxGen` and `MaxTime` bound changes and answers.
- **FocusAlerts** two airports, one flight inbound to each, two goroutines that each
  refresh or switch, two switches.
- **LivePoller** units of 15 s: interval 3, lease 6, heartbeat 2, as in the code
  (45 s, 90 s, 30 s); a refresh takes up to 7, longer than the lease, and three
  heartbeats in a row may be lost, which is longer than it too. Two tabs, two poller
  identities: a second poller could be told from the first. `LiveTabIsPolled` needs the
  heartbeat to be shorter than the interval, as 30 s and 45 s are: with both equal, TLC
  finds the poller whose first refresh outlasted its lease leaving at its first tick,
  before its tab's first heartbeat; `BeatAssumption` names it. A tab has at most two calls of
  `setLive(true)` waiting, and one of the two tabs lets one click overtake such a call
  (`Hasty`): the other shows that nothing else makes a tab that is off send heartbeats.
- **SSEHub** the live loop and one handler, which is enough for a payload to be overtaken by
  several newer ones; three snapshots, of which the empty one of the start is the first; one
  reader and one client that may be stuck; channels of 2 where the code has 4, so that they
  fill up while the snapshots last. The theorems are for any number of each.
- **Trails** one aircraft at two positions, at most two points; half-second ticks
  against SQLite's whole seconds; time to record, expire and come back; one crash. The
  environment is Docker Compose's file and SQLite or a replica's file and Redis. One
  aircraft is enough because every operation treats aircraft one by one, except that a
  save replaces the whole map, which snapshots without the aircraft exercise.

- **Enricher** two identities, one with a route and one without; one warm-up with one slot
  and a budget of one tick, one visitor, a TTL of two ticks: entries expire, a worker
  waits for the slot past the budget, a visitor and a worker miss the same key together.
- **AuthLimiter** two attempts a window of three units, a wait for the lock of up to one,
  four POST requests, which is twice the maximum; two GET requests, so that one answer is under
  way since before a logout while another is not; a cookie of three units. Clients share
  nothing, so one is enough, and one browser of it, since cookies are not shared either.
  Requests of a kind are alike, which the symmetry of `MCAuthLimiter` uses.
- **Playback** two aircraft and five possible answers (`MCPlayback`): no trails, one tick
  (which locks the range), a later window that drops the first, one aircraft only, and
  breadcrumbs that share a second in the middle and at the end, which `at` in whole
  seconds allows. Positions are chosen so that interpolated ones are whole.
  Of the three speeds the slowest and the fastest, which steps over breadcrumbs; links to two
  times, each of them inside some of the ranges and outside others.

Every run ends within three minutes, most within one. Bounds stand in guards under the names above; of
the properties only type invariants mention one, and `SettlesOnLast` quantifies over the
snapshots there are.

## Fairness

`Store`, `Fetcher`, `Trails`, `AuthLimiter` and `Playback` have safety properties only and
assume none. `BreakerCalls`: a caller reports in the end, and time passes; in
`OpenSkyClient` that is derived: each attempt ends, because the HTTP client has a timeout,
each pause ends, and `KeepsCalls` checks that the fairness of `BreakerCalls` follows. `FocusAlerts`: a goroutine that has begun a refresh or evaluation goes on,
`sync.Mutex` lets every waiter have `alerts.mu` in the end, and refreshes go on being
asked for (the Live ticks); nobody has to switch. `LivePoller`: time passes, timers
fire, requests are answered, a refresh ends within `MaxRefresh`, and at most `MaxLost`
heartbeats in a row are lost; nobody has to turn Live on or off. Strong fairness of the
clock, since between a click's request and its answer no time passes: without it a user
who clicks for ever could stop time. `SSEHub`: the live loop goes on building payloads, a
payload that is built is broadcast (nothing waits while it holds the hub's lock), and a client
that is not stuck reads; other publishers, stuck clients, connecting and disconnecting are free.
`Enricher`: calls to providers end (8 s and 4 s timeouts), Live goes on refreshing with each
identity on its list again and again, and a worker that finds a slot free again and again
gets one before the budget is spent (strong fairness: a slot that is free at times is not
free throughout). That providers answer (`Recover`) is assumed by the property, not by
fairness.

## Proofs

Each `*_proofs` module proves `Init => Inv`, `Inv /\ [Next]_vars => Inv'` and `Inv =>
property`; what follows is what the invariant has to add to the property, and why.

`Fetcher_proofs` (any set of boxes and goroutines, UI hosts and requests, any thresholds and
bounds, any choice of upstreams), first of the store:

- `TypeCorrect`, by one step per action.
- `CommitSafe` and `OldBoxSafe`. Neither property is inductive: that the generation
  is unchanged must imply that the *box* is. `InFlight` says so for every request
  between reading and landing: its generation is at most the store's; if it is equal,
  its box is the store's; its answer is for its box. It is preserved because box and
  generation are read in one section, `SetBBox` raises the generation whenever it
  changes the box, and generations never return. At the landing, `gen == s.bboxGen`
  then gives the box.
- `StoreImplementsSnapshot`: initial states map to initial states, and each step to
  a `Switch`, `Update` or `Fail` of `SnapshotSpec`, or to a stutter; `Update` needs
  `InFlight`.

then of the fetcher: `FetcherIsStore` shows that handlers take no step a store cannot, so
the theorems above hold of a fetcher (`FetcherCommitsSafe`). `BodySafe` needs `Standing`,
which says for each handler where the caller's box is: in the store until it is read, then
in the request's own copy, then (by `InFlight`) in the list; a change of the box before the
read puts the handler into `overtaken`, which `SwitchOvertakes` makes precise.

`BreakerCalls_proofs` (any threshold, cooldown, retries, finite set of callers):
`OutageBounded`, from `Spending`: calls spent since the last opening are at most the
failures counted plus those of them still in flight. `CallsKept` shows that the client's
loop takes only steps of `BreakerCalls`, which carries `OutageBounded` over to it
(`ClientOutageBounded`). `RequestsBounded` needs `Charged`: nobody who sleeps has used its
last attempt, a call in flight has sent no more requests than it has made attempts, and
what failed calls have sent is at most `Retries + 1` times the failures counted.
`TripsRunOut` is the variant behind `TripIsTemporary`: what is left of the cooldown plus one
cooldown per call in flight falls with every tick of an open circuit and never rises, since
nobody is let through, a refused call changes nothing, and a failure takes its call out.

`FocusAlerts_proofs` (any goroutines, airports, flights, switches): `DroppedSafe` and
`ContractKept`, both from `Generations`: `refreshAndWarm` reads the generation before
`Store.Refresh` does, and the store's only grows, so an answer the store drops leaves
`gen0` behind for good and the next check ends the refresh; a refresh that a switch of the box
cuts into (`cutInto`) is behind too, and the second check keeps it from the alerts.
`TypeCorrect` needs `Counted`: the box moves at most once for each switch that has begun. `AlertsAreNews` and
`SwitchPlaces` (for the runs where nothing overlaps) need `QuietInv`: at most one goroutine is
not idle, a switch in progress is to the focus, what it evaluates is the current snapshot of
the current generation, and a baseline that is in force is that of the airport in focus.
`SwitchPlaces` states two things: between switches the box is the focus airport's, and every evaluation is of a list of the focus
airport. It does not say that the snapshot is: after `GET /?focus=`, which refreshes nothing,
the page shows the old one until the next refresh.
`NotTwice` holds whatever overlaps, from `StayInv`: `alerts.mu` is held from the read of the
list to the write of the edge state, so a flight that has alerted is in the edge state of
the next evaluation for as long as every snapshot shows it.

`Live_proofs`, of the poller (any tabs, interval, lease, losses, restarts): `OnePollerSafe`, from
`Slot`: a goroutine exists exactly when it is the one `cancel` belongs to. `OffQuiet`, from
`Calm`: in a tab without a click that overtook a call, such a call means that the button is
on and that no interval runs, so its answer leaks none. `TabsArePolled` needs `Tickers`
and `Held`: until a restart, a lease that covers the time to a live tab's next heartbeat,
or, where the first refresh has outlasted it, a ticker that does not tick before that
heartbeat comes. This is where `BeatAssumption` is used, and the only place.
`SilenceIsCheap` is the variant behind `PollerStops`: once no tab is left, what the lease has
left, a waiting tick and the way the ticker has gone are a credit that nothing tops up and of
which each refresh takes an interval, so at most four more refreshes begin with 90 s and 45 s.

`SSEHub_proofs` (any connections, publishers, capacity): `SendsAreSafe`, since map and
channel change in one section; `NeverBackTwice`, whatever overlaps, from `Ordered`. Two
publishers may broadcast in the reverse of the order in which they read the store, so a channel
is not ordered. But a publisher whose payload is older than an event of a channel built it before
that event was sent, and has sent nothing since: `Tidy` says this of what the client has seen,
its channel and the payload about to be sent, and no event is ahead of the store.

`Trails_proofs` (any aircraft, positions, backends, grace, number of crashes):
`TypeCorrect`, `FileStaysWhole` and `InTime` from `Maps`, which says of memory, a
complete `path.tmp` and each backend, with SQLite's clock in whole seconds, that each trail
is in order, no longer than it may be, and not seen later than the aircraft was.
`GraceHolds` follows: no copy is younger than the last sighting. `TrailsKept` needs `Ends`: memory, a complete
`path.tmp` and each backend that is not behind hold every trail that is due up to its
newest position, seen no earlier than the whole second of its last sighting.

`Enricher_proofs` (any keys, visitors, warm-ups, slots): `TypeCorrect` with the bound on a
warm-up's workers; `FreshKept` from `Missed`: a task past its miss is behind the entry or
has an expired one to replace.

`Live_proofs`, of the limiter (any attempts, maximum, window, delay): `WindowSafe` from
`Recorded` and `Lately`: a recorded time is at most the delay older than the acceptance, so an
acceptance within the window less the delay is still among the hits, of which there are at
most the maximum. `NobodyLockedOut`, since hits are acceptances. `CookieIsEarned` states
`LogoutHolds`, from `Earned`: an answer under way that was not under way at the last logout is
one to a token accepted since, or to a renewal of a cookie, which itself came from such an
answer or from one that the logout did not stop. `FullWindowSafe` bounds what a *whole* window lets through by twice the maximum, from
`AnyWindow`: any stretch of a window less the delay, however long ago, holds at most the
maximum, and two of them cover a window if the delay is at most half of it. TLC reaches
this bound with five attempts, a maximum of two, a window of three and a delay of one.

`Playback_proofs` (any aircraft, trails of any length in the order of their times, filters,
selections, speeds, links): `TypeCorrect`, `FramesAreTrue`, `ClockStaysInRange`, `OnePictureShown` and
`TimerIsFollowed` are one invariant, since a frame is drawn from trails, clock and
selection at once. Each ghost stays true of trails and clock throughout; that the frame is whole
holds until the selection changes with "Selected only" ticked (`reselected`).
`InRange` is what the invariant adds: the marks lie in the range, so a click on one cannot leave it,
and a clock that is too early is so by a link and still before the range. The range is that of
the breadcrumbs, which needs that finite sets of times have a least and a greatest element.
`DrawnBetweenBreadcrumbs` needs no state: `Drawn` says of `positionAt` that, before the
first breadcrumb, after the last and between two, it draws the aircraft where `Interpolates`
wants it, with rounded quotients and with breadcrumbs that share a second too. `CaughtUpForGood`:
the one excuse in `ClockInRange`, an early link, does not come back.
Where these proofs would use induction on an index (adjacent breadcrumbs in order are in order
at any distance, a set of times has a least one) they take the least counterexample, by
`NatLeast`, which the library's well-foundedness of `<` gives.

Assumptions are those of the modules' `ASSUME`s (a positive threshold, distinct
values for "no list" and "failed", finite callers, a heartbeat that comes sooner than a
tick, a bound on the times of breadcrumbs), which TLC evaluates on the instances, and the
hypothesis of one theorem: `FullWindowSafe`'s delay of at most half a window.

Every invariant the runs check is a theorem. Only model-checked is what is
temporal under fairness (`TripIsTemporary`, `ArmedAgain`, `PollingResumes`, `PollerStops`,
`SettlesOnLast`, `RouteArrives`, the fairness of `KeepsCalls`): the prover treats neither
fairness nor `ENABLED`. For two of them the variants above are proved, which leaves to
TLC that time passes and timers fire.

## Findings

| Run | What the code does |
|---|---|
| `breaker_half_open` | after the cooldown every caller is let through, not one |
| `focus_failed_fetch` | a refresh that fails bootstraps alerts on leftovers; the next one fires every inbound flight |
| `fetcher_race` | between `SetBBox` and the read of the box another UI's box slips in, and its traffic is shown |

`PROJECT.json` quotes the sentence each of them contradicts. Seen while modelling, and
not the subject of a run:

- Two overlapping airport switches write focus and box in separate steps and can leave the
  focus of one with the box of the other, for good (`focus_api.go:84-90`).
- A Live tick that passed its last generation check (`live.go:51`) before a switch takes
  `evaluateAlerts`' own generation after it, and bootstraps on the old airport's traffic
  (`alerts.go:123`); `QuietAlerts` is confined to runs without such overlaps for that reason.
- The retry loop never asks the breaker again (`client.go:103`): calls let through before an
  opening go on asking OpenSky while the circuit is open, and a threshold of three failures
  is nine requests. `RequestBudget` is the bound that does hold.
- `enrich.go:126` keeps failed look-ups from sticking only when nothing at all was found: an
  answer that lacks its route because one provider failed is cached for 30 minutes, and so
  is one of two overlapping misses that is poorer than the other. `FreshIsKept` says that
  nothing else replaces an entry.
- The limiter's bound is on windows shortened by the wait for its lock: with the whole window
  in `WindowBudget` TLC finds one attempt too many, because a request that read the clock
  late prunes on behalf of one that read it early (`auth.go:45`). A full window may see up to
  twice the maximum and, by `FullWindowSafe`, no more.
- A click on the Live button while `setLive(true)` awaits its first heartbeat is overtaken by
  its continuation (`index.html:1517`): the button is off and an interval keeps the lease
  alive, against live.go:142 "Clients simply stop heartbeating". `OffIsQuiet` shows that
  only such a click does it.
- A heartbeat that is answered 401 once the cookie has run out looks like any other to the
  page (`index.html:1228`): the button stays on and nothing is polled.
- `DELETE /api/auth/live` clears a cookie and forgets nothing, as the token is the cookie
  (`auth.go:183-192`): the answer to a GET or a POST that was under way sets it again after
  the "Clear cookie" of README.md:176. `undone` marks exactly these.
- Publishers that overlap may send their payloads in the wrong order (`sse.go:56`), and a client
  may stay on an older snapshot until the next update. `BackAtMostOnce` bounds how often.
- A change of filters, order, follow or alerts during playback puts live markers back on the
  map (`index.html:711`, `1540-1548`), against README.md:242 "live markers hidden"; a change of
  speed while the range is locked stops playing but not the timer (`index.html:1425`); a link by
  `pb_to` may start before the first breadcrumb (`index.html:1725`). With "Selected only" ticked,
  selecting an aircraft or closing its panel redraws nothing (`index.html:932`, `958`), and a
  click on a mark draws before it selects (`index.html:1420`): until the next frame the map shows
  the aircraft selected before. `relisted`, `slipped`, `early` and `reselected` mark exactly these.
- Alerts that come over SSE during playback are neither shown nor kept (`index.html:1457`).
- `PositionAt` (Go, used by its tests only) and `positionAt` (the page) differ when the last
  two breadcrumbs share their second; `Interpolates` says that they agree otherwise.
- The service worker answers `/` from its cache for ever and keeps answers of any status
  (`pwa.go:46`); a share URL with `?focus=` that it has seen reaches the server once.
- Two refreshes of one box carry the same generation, so the answer OpenSky gave first
  may land last and stay (`cache.go:294`).
- `evaluateAlerts` reads `s.focus` once to classify and again to label the event
  (`alerts.go:166`): a switch in between labels a flight to the old airport with the
  new one. `QuietAlerts` says that nothing but such an overlap does.
- README.md:283 says that slow SSE clients are dropped; the hub drops their updates and
  keeps them (`sse.go:43`), as README.md:134 has it.
- README.md:261 says that each persist writes every configured backend; a table that
  cannot be read at boot is not written until the next boot (`trails_store.go:138`),
  whereas a file that cannot be read is overwritten. `Trails!Boot` has both.

## Left out

- **Boards** (`arrivals.go`), **view state** (`viewstate`), **configuration and focus
  resolution** (`config`, `geo/focus.go`, `opensky/bbox*.go`): functions without state. The
  boards filter the snapshot and sort by floating-point ETAs; the view state parses and
  prints strings; the rest validates the environment once and does trigonometry. A
  reference definition in TLA+ would be the same function again.
- **Geometry**: floating-point trigonometry, out of TLC's reach.
- **Service worker**: see the findings; it has no expiry and no retry, so there is no
  behaviour beyond the one sentence there.
- **Rendering, look-up tables, metrics, logging**, deployment files: no state that others read.
- In modelled parts: low-pass alerts (the same edge detection as approach), the history
  ring and webhook delivery; routes that are lost between two evaluations (a flight is
  inbound in `FocusAlerts` for as long as it is listed); replicas sharing one Redis; the
  decoding of state vectors; dead reckoning, sorting and map drawing in the page; a clock
  that is set back; a power cut that loses a completed `rename`.

## Plan

What would come next, in this order: two replicas over one Redis blob in `Trails`; routes that
come and go in `FocusAlerts`, composed with `Enricher`.
