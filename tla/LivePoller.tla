----------------------------- MODULE LivePoller -----------------------------
(* The shared Live poller (server/live.go) and the Live button of the browser *)
(* (setLive): tabs heartbeat POST /api/live, the first of them starts a        *)
(* goroutine that refreshes on every tick until the lease that heartbeats      *)
(* extend has run out.  setLive waits twice, for the authorisation and for its *)
(* first heartbeat, and clicks may come in between.  Time is discrete; a       *)
(* refresh (refreshAndWarm, module FocusAlerts) just takes a while.            *)
EXTENDS Integers, FiniteSets

CONSTANTS Tab,          \* browser tabs
          Poller,       \* identities for poller goroutines
          NoPoller, NoTab,
          Interval, Lease,      \* liveInterval and liveLease
          Beat,         \* the tabs' heartbeat period
          MaxRefresh,   \* the longest refresh (the HTTP clients have timeouts)
          MaxLost,      \* heartbeats a tab may lose in a row
          MaxCalls,     \* bound on calls of setLive(true) awaiting their heartbeat in a tab
          Hasty,        \* tabs in which one click takes effect while such a call is under way
          MaxRestart    \* bound on restarts of the server

ASSUME LiveAssumption == /\ {Interval, Lease, Beat} \subseteq Nat \ {0}
                         /\ {MaxRefresh, MaxLost, MaxCalls, MaxRestart} \subseteq Nat
                         /\ NoPoller \notin Poller /\ NoTab \notin Tab

\* 30 s, 45 s and 90 s in the code.
ASSUME BeatAssumption == Beat < Interval /\ Beat <= Lease

NoBeat == -1
Refused == MaxLost + 1

VARIABLES until,        \* liveState.until, as its distance from now; Expired below 0
          cancel,       \* liveState.cancel: the poller it belongs to
          loop,         \* where each poller is; "first" is touchLive's own refresh
          due, ticked,  \* its ticker: time to the next tick, a tick in the channel
          busy,         \* how long its refresh has taken
          opener,       \* the tab whose setLive waits for the first refresh
          pressed,      \* aria-pressed of the tabs' Live buttons
          asked,        \* calls of setLive(true) in their touchLive
          beat,         \* liveBeat: time to its next heartbeat, or NoBeat
          leaked,       \* the same of intervals that liveBeat no longer names
          lost,         \* heartbeats of liveBeat lost in a row; Refused without a cookie
          hasty,        \* tabs in which a click took effect while a call was under way
          restarts

live == <<until, cancel>>
pollers == <<loop, due, ticked, busy, opener>>
beats == <<beat, leaked, lost>>
tabs == <<pressed, asked, hasty, beats>>
vars == <<live, pollers, tabs, restarts>>

TypeOK == /\ until \in -1..Lease /\ cancel \in Poller \cup {NoPoller}
          /\ loop \in [Poller -> {"none", "first", "waiting", "refreshing"}]
          /\ due \in [Poller -> 1..Interval] /\ ticked \in [Poller -> BOOLEAN]
          /\ busy \in [Poller -> 0..MaxRefresh]
          /\ opener \in [Poller -> Tab \cup {NoTab}]
          /\ pressed \in [Tab -> BOOLEAN]
          /\ asked \in [Tab -> 0..MaxCalls] /\ hasty \subseteq Tab
          /\ beat \in [Tab -> NoBeat..Beat] /\ leaked \in [Tab -> SUBSET (0..Beat)]
          /\ lost \in [Tab -> 0..Refused]
          /\ restarts \in 0..MaxRestart

Init == /\ until = -1 /\ cancel = NoPoller
        /\ loop = [i \in Poller |-> "none"]
        /\ due = [i \in Poller |-> Interval] /\ ticked = [i \in Poller |-> FALSE]
        /\ busy = [i \in Poller |-> 0] /\ opener = [i \in Poller |-> NoTab]
        /\ pressed = [t \in Tab |-> FALSE]
        /\ asked = [t \in Tab |-> 0] /\ hasty = {}
        /\ beat = [t \in Tab |-> NoBeat] /\ leaked = [t \in Tab |-> {}]
        /\ lost = [t \in Tab |-> 0]
        /\ restarts = 0

Expired == until < 0
-----------------------------------------------------------------------------
\* Mutant: a poller is started whenever the lease has run out.
Start_WhenExpired(i, t) == /\ Expired
                           /\ loop[i] = "none"
                           /\ cancel' = i
                           /\ loop' = [loop EXCEPT ![i] = "first"]
                           /\ opener' = [opener EXCEPT ![i] = t]
                           /\ UNCHANGED <<due, ticked, busy>>

\* touchLive finds no poller: it takes the slot and refreshes before the loop starts.
\* (Names of goroutines mean nothing: any free one will do.)
Start(i, t) == /\ cancel = NoPoller
               /\ loop[i] = "none"
               /\ i = CHOOSE j \in Poller : loop[j] = "none"
               /\ cancel' = i
               /\ loop' = [loop EXCEPT ![i] = "first"]
               /\ opener' = [opener EXCEPT ![i] = t]
               /\ UNCHANGED <<due, ticked, busy>>

\* Mutant: only the heartbeat that starts the poller sets the lease.
Extend_Once == cancel # NoPoller /\ UNCHANGED <<live, pollers>>

\* Mutant: a heartbeat adds to the lease instead of setting it.
Extend_Adds == cancel # NoPoller /\ until' = until + Lease /\ UNCHANGED <<cancel, pollers>>

Extend == cancel # NoPoller /\ until' = Lease /\ UNCHANGED <<cancel, pollers>>

\* A heartbeat: POST or GET /api/live.  Extend sets the lease, and so does Start.
TouchLive(t) == \/ Extend
                \/ until' = Lease /\ \E i \in Poller : Start(i, t)

\* A click that takes effect while a call of setLive(true) is under way.
Click(t) == /\ asked[t] > 0 => t \in Hasty \ hasty
            /\ hasty' = IF asked[t] > 0 THEN hasty \cup {t} ELSE hasty

\* Mutant: the heartbeats of before go on.
TurnOn_KeepsBeat(t) ==
    /\ Click(t) /\ asked[t] < MaxCalls
    /\ pressed' = [pressed EXCEPT ![t] = TRUE]
    /\ TouchLive(t) /\ asked' = [asked EXCEPT ![t] = @ + 1]
    /\ UNCHANGED <<beats, restarts>>

\* setLive(true), authorised after all (module AuthLimiter): the clicks that came while
\* the user was asked for the token make it happen whatever the button says by now.  It
\* ends the heartbeats of before and sends the first one.
TurnOn(t) ==
    /\ Click(t) /\ asked[t] < MaxCalls
    /\ pressed' = [pressed EXCEPT ![t] = TRUE]
    /\ beat' = [beat EXCEPT ![t] = NoBeat]
    /\ lost' = [lost EXCEPT ![t] = 0]
    /\ TouchLive(t) /\ asked' = [asked EXCEPT ![t] = @ + 1]
    /\ UNCHANGED <<leaked, restarts>>

\* Its heartbeat is answered, at once unless that waits for the first refresh, and the
\* interval is set, whatever the button says by now; liveBeat names it alone.
Waiting(t) == IF \E i \in Poller : opener[i] = t THEN 1 ELSE 0
Answered(t) ==
    /\ asked[t] > Waiting(t)
    /\ asked' = [asked EXCEPT ![t] = @ - 1]
    /\ beat' = [beat EXCEPT ![t] = Beat]
    /\ leaked' = [leaked EXCEPT ![t] = @ \cup ({beat[t]} \ {NoBeat})]
    /\ lost' = [lost EXCEPT ![t] = 0]
    /\ UNCHANGED <<live, pollers, pressed, hasty, restarts>>

\* setLive(false)
TurnOff(t) ==
    /\ pressed[t] /\ pressed' = [pressed EXCEPT ![t] = FALSE]
    /\ Click(t)
    /\ beat' = [beat EXCEPT ![t] = NoBeat]
    /\ lost' = [lost EXCEPT ![t] = 0]
    /\ UNCHANGED <<live, pollers, asked, leaked, restarts>>

\* An interval fires.  Nothing looks at the answer: a heartbeat is lost with the network,
\* or refused once the cookie has run out, and the button stays on.
Heartbeat(t) ==
    /\ beat[t] = 0
    /\ beat' = [beat EXCEPT ![t] = Beat]
    /\ \/ lost[t] # Refused /\ TouchLive(NoTab) /\ lost' = [lost EXCEPT ![t] = 0]
       \/ lost[t] < MaxLost /\ lost' = [lost EXCEPT ![t] = @ + 1] /\ UNCHANGED <<live, pollers>>
       \/ lost[t] = Refused /\ UNCHANGED <<live, pollers, lost>>
    /\ UNCHANGED <<pressed, asked, hasty, leaked, restarts>>

LeakedBeat(t) ==
    /\ 0 \in leaked[t]
    /\ leaked' = [leaked EXCEPT ![t] = (@ \ {0}) \cup {Beat}]
    /\ TouchLive(NoTab) \/ UNCHANGED <<live, pollers>>
    /\ UNCHANGED <<pressed, asked, hasty, beat, lost, restarts>>

\* The cookie runs out; only setLive(true) asks for another.
CookieExpires(t) == /\ beat[t] # NoBeat /\ lost[t] # Refused
                    /\ lost' = [lost EXCEPT ![t] = Refused]
                    /\ UNCHANGED <<live, pollers, pressed, asked, hasty, beat, leaked, restarts>>

\* The synchronous refresh returns: its tab is answered, liveLoop and its ticker start.
FirstDone(i) ==
    /\ loop[i] = "first"
    /\ loop' = [loop EXCEPT ![i] = "waiting"]
    /\ busy' = [busy EXCEPT ![i] = 0]
    /\ opener' = [opener EXCEPT ![i] = NoTab]
    /\ UNCHANGED <<live, due, ticked, tabs, restarts>>

\* Mutant: an expired poller returns without giving up the slot.
LoopTick_KeepsSlot(i) ==
    /\ loop[i] = "waiting" /\ ticked[i]
    /\ ticked' = [ticked EXCEPT ![i] = FALSE]
    /\ loop' = [loop EXCEPT ![i] = IF Expired THEN "none" ELSE "refreshing"]
    /\ due' = [due EXCEPT ![i] = IF Expired THEN Interval ELSE @]
    /\ UNCHANGED <<live, busy, opener, tabs, restarts>>

\* Mutant: the lease is never looked at.
LoopTick_NoLease(i) ==
    /\ loop[i] = "waiting" /\ ticked[i]
    /\ ticked' = [ticked EXCEPT ![i] = FALSE]
    /\ loop' = [loop EXCEPT ![i] = "refreshing"]
    /\ UNCHANGED <<live, due, busy, opener, tabs, restarts>>

\* A tick: refresh, or, when the lease has run out, give up the slot, stop the ticker
\* and return.
LoopTick(i) ==
    /\ loop[i] = "waiting" /\ ticked[i]
    /\ ticked' = [ticked EXCEPT ![i] = FALSE]
    /\ \/ /\ Expired
          /\ loop' = [loop EXCEPT ![i] = "none"]
          /\ cancel' = NoPoller
          /\ until' = -1
          /\ due' = [due EXCEPT ![i] = Interval]
       \/ /\ ~Expired
          /\ loop' = [loop EXCEPT ![i] = "refreshing"]
          /\ UNCHANGED <<live, due>>
    /\ UNCHANGED <<busy, opener, tabs, restarts>>

RefreshDone(i) == /\ loop[i] = "refreshing"
                  /\ loop' = [loop EXCEPT ![i] = "waiting"]
                  /\ busy' = [busy EXCEPT ![i] = 0]
                  /\ UNCHANGED <<live, due, ticked, opener, tabs, restarts>>

\* The process dies and comes back: no poller, no lease.  Tabs know nothing of it; a
\* call that was waiting for its first answer gets an error and goes on.
Restart == /\ restarts < MaxRestart
           /\ restarts' = restarts + 1
           /\ until' = -1 /\ cancel' = NoPoller
           /\ loop' = [i \in Poller |-> "none"]
           /\ due' = [i \in Poller |-> Interval] /\ ticked' = [i \in Poller |-> FALSE]
           /\ busy' = [i \in Poller |-> 0] /\ opener' = [i \in Poller |-> NoTab]
           /\ UNCHANGED tabs

\* One unit of time: heartbeats are sent and answered in time, and refreshes do not
\* exceed MaxRefresh.
Refreshing(i) == loop[i] \in {"first", "refreshing"}
Clock ==
    /\ \A t \in Tab : beat[t] # 0 /\ 0 \notin leaked[t] /\ asked[t] = Waiting(t)
    /\ \A i \in Poller : Refreshing(i) => busy[i] < MaxRefresh
    /\ until' = IF Expired THEN until ELSE until - 1
    /\ beat' = [t \in Tab |-> IF beat[t] = NoBeat THEN NoBeat ELSE beat[t] - 1]
    /\ leaked' = [t \in Tab |-> {b - 1 : b \in leaked[t]}]
    /\ busy' = [i \in Poller |-> IF Refreshing(i) THEN busy[i] + 1 ELSE busy[i]]
    /\ LET ticking(i) == loop[i] \in {"waiting", "refreshing"} IN
         /\ due' = [i \in Poller |-> IF ~ticking(i) THEN due[i]
                                      ELSE IF due[i] = 1 THEN Interval ELSE due[i] - 1]
         /\ ticked' = [i \in Poller |-> ticked[i] \/ (ticking(i) /\ due[i] = 1)]
    /\ UNCHANGED <<cancel, loop, opener, pressed, asked, hasty, lost, restarts>>

Step(i) == FirstDone(i) \/ LoopTick(i) \/ RefreshDone(i)

Next == \/ \E t \in Tab : TurnOn(t) \/ TurnOff(t) \/ CookieExpires(t)
                         \/ Answered(t) \/ Heartbeat(t) \/ LeakedBeat(t)
        \/ \E i \in Poller : Step(i)
        \/ Restart
        \/ Clock

\* Time passes whatever is clicked (hence SF: between a request and its answer it does
\* not), timers fire, requests and refreshes end; nobody has to turn Live on or
\* off or to enter a token.
Fairness == /\ SF_vars(Clock)
            /\ \A t \in Tab : WF_vars(Answered(t)) /\ WF_vars(Heartbeat(t)) /\ WF_vars(LeakedBeat(t))
            /\ \A i \in Poller : WF_vars(Step(i))

Spec == Init /\ [][Next]_vars /\ Fairness
-----------------------------------------------------------------------------
\* "one poller serves them all" (live.go:26): however tabs come and go around the
\* expiry of the lease, never do two pollers refresh, and the slot is taken exactly
\* while one is there to give it up.
OnePoller == /\ Cardinality({i \in Poller : loop[i] # "none"}) <= 1
             /\ cancel # NoPoller <=> \E i \in Poller : loop[i] # "none"

\* A live tab whose latest heartbeat got through is being polled for, even when the
\* first refresh has outlasted the lease it was started with.  (A restart is noticed
\* at the next heartbeat, and a cookie that has run out not at all.)
Beating(t) == pressed[t] /\ beat[t] # NoBeat
LiveTabIsPolled ==
    \A t \in Tab : Beating(t) /\ lost[t] = 0 /\ restarts = 0 => cancel # NoPoller

\* "Clients simply stop heartbeating" (live.go:142): a tab whose button is off sends no
\* heartbeats, and one that is on sends one series, unless a click fell between
\* setLive's first heartbeat and its answer; then an interval may stay for good.
OffIsQuiet ==
    \A t \in Tab : t \notin hasty => leaked[t] = {} /\ (beat[t] # NoBeat => pressed[t])

\* Lost heartbeats and a restart of the server are made good by a later heartbeat, as
\* long as the tab stays on and has its cookie.
PollingResumes ==
    \A t \in Tab : Beating(t) ~> \/ ~Beating(t) \/ lost[t] = Refused
                                 \/ \E i \in Poller : Refreshing(i)

\* Once no tab has a heartbeat left the poller stops spending API credits.
PollerStops ==
    (<>[](\A t \in Tab : beat[t] = NoBeat /\ leaked[t] = {}))
        => <>[](\A i \in Poller : loop[i] = "none")
=============================================================================
