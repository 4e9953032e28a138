----------------------------- MODULE Live_proofs -----------------------------
(* Live mode, its poller and its authorisation.  For any number of tabs, any *)
(* interval, lease and heartbeat, any losses and restarts: one poller at       *)
(* most, and the slot is never left behind.  For any limit, window, delay and  *)
(* number of requests: what the limiter lets through, and whom it refuses.     *)
EXTENDS LivePoller, AuthLimiter, FiniteSetTheorems, TLAPS

\* Which goroutine there is, said of each: the one liveState.cancel belongs to.
Slot == /\ cancel \in Poller \cup {NoPoller}
        /\ loop \in [Poller -> {"none", "first", "waiting", "refreshing"}]
        /\ \A i \in Poller : loop[i] # "none" <=> cancel = i

LEMMA SlotInit == Init => Slot
BY LiveAssumption DEF LiveAssumption, Init, Slot

\* Heartbeats take the slot only when it is free; the tick that gives it up is the
\* last step of the poller that had it.
LEMMA SlotStep == Slot /\ [Next]_vars => Slot'
<1> SUFFICES ASSUME Slot, [Next]_vars PROVE Slot'
  OBVIOUS
<1> USE LiveAssumption DEF LiveAssumption, Slot, live, pollers
<1>1. ASSUME NEW t, TouchLive(t) PROVE Slot'
  <2>1. CASE Extend
    BY <2>1 DEF Extend
  <2>2. ASSUME NEW i \in Poller, Start(i, t) PROVE Slot'
    BY <2>2 DEF Start
  <2>3. QED
    BY <1>1, <2>1, <2>2 DEF TouchLive
<1>2. ASSUME NEW t \in Tab,
             \/ TurnOn(t) \/ TurnOff(t) \/ CookieExpires(t)
             \/ Answered(t) \/ Heartbeat(t) \/ LeakedBeat(t)
      PROVE  Slot'
  BY <1>1, <1>2 DEF TurnOn, TurnOff, CookieExpires, Answered, Heartbeat, LeakedBeat
<1>3. ASSUME NEW i \in Poller, FirstDone(i) \/ RefreshDone(i) PROVE Slot'
  BY <1>3 DEF FirstDone, RefreshDone
<1>4. ASSUME NEW i \in Poller, LoopTick(i) PROVE Slot'
  <2>1. CASE Expired
    BY <1>4, <2>1 DEF LoopTick
  <2>2. CASE ~Expired
    BY <1>4, <2>2 DEF LoopTick
  <2>3. QED
    BY <2>1, <2>2
<1>5. CASE Restart
  BY <1>5 DEF Restart
<1>6. CASE Clock
  BY <1>6 DEF Clock
<1>7. CASE UNCHANGED vars
  BY <1>7 DEF vars
<1>8. QED
  BY <1>2, <1>3, <1>4, <1>5, <1>6, <1>7 DEF Next, Step

\* "one poller serves them all" (live.go:26): two goroutines never refresh side by side,
\* and the slot is taken exactly while a goroutine is there to give it up.
THEOREM OnePollerSafe == Spec => []OnePoller
<1>1. Slot => OnePoller
  <2> SUFFICES ASSUME Slot PROVE OnePoller
    OBVIOUS
  <2> DEFINE running == {i \in Poller : loop[i] # "none"}
  <2>1. running \subseteq {cancel}
    BY DEF Slot
  <2>2. IsFiniteSet({cancel}) /\ Cardinality({cancel}) = 1
    BY FS_Singleton
  <2>3. Cardinality(running) <= 1
    BY <2>1, <2>2, FS_Subset
  <2>4. cancel # NoPoller <=> \E i \in Poller : loop[i] # "none"
    BY LiveAssumption DEF LiveAssumption, Slot
  <2>5. QED
    BY <2>3, <2>4 DEF OnePoller
<1>2. QED
  BY <1>1, SlotInit, SlotStep, PTL DEF Spec
-----------------------------------------------------------------------------
\* TypeOK, the server's part and the tabs'.
ServerOK == /\ until \in -1..Lease /\ cancel \in Poller \cup {NoPoller}
            /\ loop \in [Poller -> {"none", "first", "waiting", "refreshing"}]
            /\ due \in [Poller -> 1..Interval] /\ ticked \in [Poller -> BOOLEAN]
            /\ busy \in [Poller -> 0..MaxRefresh]
            /\ opener \in [Poller -> Tab \cup {NoTab}]
            /\ restarts \in 0..MaxRestart
TabsOK == /\ pressed \in [Tab -> BOOLEAN]
          /\ asked \in [Tab -> 0..MaxCalls] /\ hasty \subseteq Tab
          /\ beat \in [Tab -> NoBeat..Beat] /\ leaked \in [Tab -> SUBSET (0..Beat)]
          /\ lost \in [Tab -> 0..Refused]

LEMMA TypeParts == TypeOK <=> ServerOK /\ TabsOK
BY DEF TypeOK, ServerOK, TabsOK

LEMMA TouchServer ==
    ASSUME ServerOK, NEW t \in Tab \cup {NoTab}, TouchLive(t), restarts' = restarts
    PROVE  ServerOK'
<1> USE LiveAssumption DEF LiveAssumption, ServerOK, live, pollers
<1>1. CASE Extend
  BY <1>1 DEF Extend
<1>2. ASSUME until' = Lease, NEW i \in Poller, Start(i, t) PROVE ServerOK'
  BY <1>2 DEF Start
<1>3. QED
  BY <1>1, <1>2 DEF TouchLive

LEMMA ServerStep == ServerOK /\ [Next]_vars => ServerOK'
<1> SUFFICES ASSUME ServerOK, [Next]_vars PROVE ServerOK'
  OBVIOUS
<1> USE LiveAssumption DEF LiveAssumption, live, pollers
<1>1. ASSUME UNCHANGED <<live, pollers, restarts>> PROVE ServerOK'
  BY <1>1 DEF ServerOK
<1>2. ASSUME NEW t \in Tab, TurnOn(t) \/ Heartbeat(t) \/ LeakedBeat(t) PROVE ServerOK'
  BY <1>1, <1>2, TouchServer DEF TurnOn, Heartbeat, LeakedBeat
<1>3. ASSUME NEW t \in Tab, TurnOff(t) \/ CookieExpires(t) \/ Answered(t) PROVE ServerOK'
  BY <1>1, <1>3 DEF TurnOff, CookieExpires, Answered
<1>4. ASSUME NEW i \in Poller, FirstDone(i) \/ RefreshDone(i) PROVE ServerOK'
  BY <1>4 DEF FirstDone, RefreshDone, ServerOK
<1>5. ASSUME NEW i \in Poller, LoopTick(i) PROVE ServerOK'
  <2>1. CASE Expired
    BY <1>5, <2>1 DEF LoopTick, ServerOK
  <2>2. CASE ~Expired
    BY <1>5, <2>2 DEF LoopTick, ServerOK
  <2>3. QED
    BY <2>1, <2>2
<1>6. CASE Restart
  BY <1>6 DEF Restart, ServerOK
<1>7. CASE Clock
  <2>1. until' \in -1..Lease /\ cancel' \in Poller \cup {NoPoller}
    BY <1>7 DEF Clock, Expired, ServerOK
  <2>2. due' \in [Poller -> 1..Interval] /\ ticked' \in [Poller -> BOOLEAN]
    BY <1>7 DEF Clock, ServerOK
  <2>3. busy' \in [Poller -> 0..MaxRefresh]
    BY <1>7 DEF Clock, Refreshing, ServerOK
  <2>4. QED
    BY <1>7, <2>1, <2>2, <2>3 DEF Clock, ServerOK
<1>8. CASE UNCHANGED vars
  BY <1>1, <1>8 DEF vars
<1>9. QED
  BY <1>2, <1>3, <1>4, <1>5, <1>6, <1>7, <1>8 DEF Next, Step

LEMMA TabsStep == TabsOK /\ [Next]_vars => TabsOK'
<1> SUFFICES ASSUME TabsOK, [Next]_vars PROVE TabsOK'
  OBVIOUS
<1> USE LiveAssumption DEF LiveAssumption, TabsOK, NoBeat, Refused
<1>1. ASSUME NEW t \in Tab, TurnOn(t) \/ TurnOff(t) PROVE TabsOK'
  <2>1. hasty' \subseteq Tab
    BY <1>1 DEF TurnOn, TurnOff, Click
  <2>2. asked' \in [Tab -> 0..MaxCalls]
    BY <1>1 DEF TurnOn, TurnOff
  <2>3. beat' \in [Tab -> NoBeat..Beat] /\ lost' \in [Tab -> 0..Refused]
    BY <1>1 DEF TurnOn, TurnOff
  <2>4. pressed' \in [Tab -> BOOLEAN] /\ leaked' \in [Tab -> SUBSET (0..Beat)]
    BY <1>1 DEF TurnOn, TurnOff
  <2>5. QED
    BY <2>1, <2>2, <2>3, <2>4
<1>2. ASSUME NEW t \in Tab, Answered(t) PROVE TabsOK'
  BY <1>2 DEF Answered, Waiting
<1>3. ASSUME NEW t \in Tab, Heartbeat(t) \/ LeakedBeat(t) \/ CookieExpires(t) PROVE TabsOK'
  BY <1>3 DEF Heartbeat, LeakedBeat, CookieExpires
<1>4. ASSUME NEW i \in Poller, Step(i) PROVE TabsOK'
  BY <1>4 DEF Step, FirstDone, LoopTick, RefreshDone, tabs, beats
<1>5. CASE Restart
  BY <1>5 DEF Restart, tabs, beats
<1>6. CASE Clock
  BY <1>6 DEF Clock
<1>7. CASE UNCHANGED vars
  BY <1>7 DEF vars, tabs, beats
<1>8. QED
  BY <1>1, <1>2, <1>3, <1>4, <1>5, <1>6, <1>7 DEF Next

\* Lease, tickers, refreshes, heartbeats and losses stay in their ranges: time stops for
\* none of them, so no counter runs over.
THEOREM TypeCorrect == Spec => []TypeOK
<1>1. Init => ServerOK /\ TabsOK
  BY LiveAssumption DEF LiveAssumption, Init, ServerOK, TabsOK, NoBeat, Refused
<1>2. QED
  BY <1>1, ServerStep, TabsStep, TypeParts, PTL DEF Spec
-----------------------------------------------------------------------------
\* OffIsQuiet and why: while a tab's call waits nothing has armed an interval, and the
\* button can only have changed by a click that took effect meanwhile.
Calm(t) == t \notin hasty =>
             /\ leaked[t] = {}
             /\ beat[t] # NoBeat => pressed[t] /\ asked[t] = 0
             /\ asked[t] > 0 => pressed[t] /\ asked[t] = 1
AllCalm == \A t \in Tab : Calm(t)

LEMMA CalmStep == TabsOK /\ AllCalm /\ [Next]_vars => AllCalm'
<1> SUFFICES ASSUME TabsOK, AllCalm, [Next]_vars, NEW u \in Tab PROVE Calm(u)'
  BY DEF AllCalm
<1>0. Calm(u)
  BY DEF AllCalm
<1> USE LiveAssumption, <1>0 DEF LiveAssumption, TabsOK, Calm, NoBeat
<1>1. ASSUME NEW t \in Tab, TurnOn(t) PROVE Calm(u)'
  BY <1>1 DEF TurnOn, Click
<1>2. ASSUME NEW t \in Tab, TurnOff(t) PROVE Calm(u)'
  BY <1>2 DEF TurnOff, Click
<1>3. ASSUME NEW t \in Tab, Answered(t) PROVE Calm(u)'
  BY <1>3 DEF Answered, Waiting
<1>4. ASSUME NEW t \in Tab, Heartbeat(t) \/ LeakedBeat(t) \/ CookieExpires(t) PROVE Calm(u)'
  BY <1>4 DEF Heartbeat, LeakedBeat, CookieExpires
<1>5. ASSUME NEW i \in Poller, Step(i) PROVE Calm(u)'
  BY <1>5 DEF Step, FirstDone, LoopTick, RefreshDone, tabs, beats
<1>6. CASE Restart
  BY <1>6 DEF Restart, tabs, beats
<1>7. CASE Clock
  BY <1>7 DEF Clock
<1>8. CASE UNCHANGED vars
  BY <1>8 DEF vars, tabs, beats
<1>9. QED
  BY <1>1, <1>2, <1>3, <1>4, <1>5, <1>6, <1>7, <1>8 DEF Next

\* In any number of tabs: without a click that overtakes a call of setLive(true), a
\* button that is off sends no heartbeats and one that is on sends one series.
THEOREM OffQuiet == Spec => []OffIsQuiet
<1>1. Init => TabsOK /\ AllCalm
  BY LiveAssumption DEF LiveAssumption, Init, TabsOK, AllCalm, Calm, NoBeat, Refused
<1>2. AllCalm => OffIsQuiet
  BY DEF AllCalm, Calm, OffIsQuiet
<1>3. QED
  BY <1>1, <1>2, TabsStep, CalmStep, PTL DEF Spec
-----------------------------------------------------------------------------
\* Within b units the poller does not find the lease expired: the lease lasts longer, or
\* its ticker has not ticked and will not.
Safe(b) == \/ until >= b
           \/ \A i \in Poller : loop[i] # "none" => ~ticked[i] /\ due[i] > b

\* Tickers start with liveLoop, only a first refresh has somebody waiting for it, and
\* until a restart every tab that waits or whose last heartbeat got through is safe up to
\* its next one.
Tickers == \A i \in Poller : /\ loop[i] \in {"none", "first"} => due[i] = Interval /\ ~ticked[i]
                             /\ opener[i] # NoTab => loop[i] = "first"
Held(t) == /\ asked[t] > 0 => cancel # NoPoller /\ Safe(Beat)
           /\ beat[t] # NoBeat /\ lost[t] = 0 => cancel # NoPoller /\ Safe(beat[t])
AllHeld == restarts = 0 => \A t \in Tab : Held(t)

LEMMA TickersStep == ServerOK /\ Tickers /\ [Next]_vars => Tickers'
<1> SUFFICES ASSUME ServerOK, Tickers, [Next]_vars PROVE Tickers'
  OBVIOUS
<1> USE LiveAssumption DEF LiveAssumption, Tickers, ServerOK, live, pollers
<1>1. ASSUME NEW t, TouchLive(t) PROVE Tickers'
  <2>1. CASE Extend
    BY <2>1 DEF Extend
  <2>2. ASSUME NEW i \in Poller, Start(i, t) PROVE Tickers'
    BY <2>2 DEF Start
  <2>3. QED
    BY <1>1, <2>1, <2>2 DEF TouchLive
<1>2. ASSUME NEW t \in Tab, \/ TurnOn(t) \/ TurnOff(t) \/ CookieExpires(t)
                            \/ Answered(t) \/ Heartbeat(t) \/ LeakedBeat(t)
      PROVE Tickers'
  BY <1>1, <1>2 DEF TurnOn, TurnOff, CookieExpires, Answered, Heartbeat, LeakedBeat
<1>3. ASSUME NEW i \in Poller, FirstDone(i) \/ RefreshDone(i) PROVE Tickers'
  BY <1>3 DEF FirstDone, RefreshDone
<1>4. ASSUME NEW i \in Poller, LoopTick(i) PROVE Tickers'
  BY <1>4 DEF LoopTick
<1>5. CASE Restart
  BY <1>5 DEF Restart
<1>6. CASE Clock
  BY <1>6 DEF Clock
<1>7. CASE UNCHANGED vars
  BY <1>7 DEF vars
<1>8. QED
  BY <1>2, <1>3, <1>4, <1>5, <1>6, <1>7 DEF Next, Step

\* A touch makes everybody safe for a whole lease, and leaves a poller.
LEMMA TouchHolds ==
    ASSUME ServerOK, NEW t, TouchLive(t)
    PROVE  cancel' # NoPoller /\ until' = Lease /\ \A b \in 0..Beat : Safe(b)'
<1>1. until' = Lease /\ cancel' # NoPoller
  BY LiveAssumption DEF LiveAssumption, TouchLive, Extend, Start
<1>2. QED
  BY <1>1, LiveAssumption, BeatAssumption DEF LiveAssumption, Safe

\* A step that leaves pollers and lease alone changes nobody's safety.
LEMMA SafeKept ==
    ASSUME UNCHANGED <<live, pollers>>, NEW b
    PROVE  Safe(b)' <=> Safe(b)
BY DEF Safe, live, pollers

LEMMA HeldStep ==
    Slot /\ ServerOK /\ TabsOK /\ Tickers /\ AllHeld /\ [Next]_vars => AllHeld'
<1> SUFFICES ASSUME Slot, ServerOK, TabsOK, Tickers, AllHeld, [Next]_vars,
                    restarts' = 0, NEW u \in Tab
             PROVE  Held(u)'
  BY DEF AllHeld
<1>a. /\ asked[u] \in 0..MaxCalls /\ beat[u] \in -1..Beat
      /\ asked \in [Tab -> 0..MaxCalls] /\ beat \in [Tab -> -1..Beat]
      /\ lost \in [Tab -> 0..Refused] /\ lost[u] \in 0..Refused
      /\ {Interval, Lease, Beat} \subseteq Nat \ {0} /\ MaxCalls \in Nat /\ MaxLost \in Nat
      /\ Beat < Interval /\ Beat <= Lease
  BY LiveAssumption, BeatAssumption DEF LiveAssumption, BeatAssumption, TabsOK, NoBeat
<1>b. CASE restarts # 0
  BY <1>b DEF ServerOK, Next, TurnOn, TurnOff, CookieExpires, Answered, Heartbeat, LeakedBeat,
              Step, FirstDone, LoopTick, RefreshDone, Restart, Clock, vars
<1> SUFFICES ASSUME restarts = 0 PROVE Held(u)'
  BY <1>b
<1>0. Held(u)
  BY DEF AllHeld
<1> USE <1>a, <1>0 DEF NoBeat
<1>1. ASSUME NEW t \in Tab, TurnOn(t) PROVE Held(u)'
  BY <1>1, TouchHolds DEF TurnOn, Held
<1>2. ASSUME NEW t \in Tab, Heartbeat(t) PROVE Held(u)'
  <2>1. CASE TouchLive(NoTab)
    BY <1>2, <2>1, TouchHolds DEF Heartbeat, Held
  <2>2. CASE UNCHANGED <<live, pollers>> /\ lost' = [lost EXCEPT ![t] = @ + 1]
    BY <1>2, <2>2, SafeKept DEF Heartbeat, Held, live, Refused
  <2>3. CASE UNCHANGED <<live, pollers>> /\ lost[t] = Refused /\ lost' = lost
    BY <1>2, <2>3, SafeKept DEF Heartbeat, Held, live, Refused
  <2>4. QED
    BY <1>2, <2>1, <2>2, <2>3 DEF Heartbeat
<1>3. ASSUME NEW t \in Tab, LeakedBeat(t) PROVE Held(u)'
  <2>1. CASE TouchLive(NoTab)
    BY <1>3, <2>1, TouchHolds DEF LeakedBeat, Held
  <2>2. CASE UNCHANGED <<live, pollers>>
    BY <1>3, <2>2, SafeKept DEF LeakedBeat, Held, live
  <2>3. QED
    BY <1>3, <2>1, <2>2 DEF LeakedBeat
<1>4. ASSUME NEW t \in Tab, Answered(t) PROVE Held(u)'
  <2>1. asked[t] > 0
    BY <1>4 DEF Answered, Waiting
  <2>2. Held(t)
    BY DEF AllHeld
  <2>3. cancel # NoPoller /\ Safe(Beat)
    BY <2>1, <2>2 DEF Held
  <2>4. QED
    BY <1>4, <2>3, SafeKept DEF Answered, Held, live
<1>5. ASSUME NEW t \in Tab, TurnOff(t) \/ CookieExpires(t) PROVE Held(u)'
  BY <1>5, SafeKept DEF TurnOff, CookieExpires, Held, live, Refused
<1>6. ASSUME NEW i \in Poller, FirstDone(i) \/ RefreshDone(i) PROVE Held(u)'
  <2>1. \A b : Safe(b) => Safe(b)'
    BY <1>6 DEF FirstDone, RefreshDone, Safe, ServerOK, live
  <2>2. QED
    BY <1>6, <2>1 DEF FirstDone, RefreshDone, Held, live, tabs, beats
<1>7. ASSUME NEW i \in Poller, LoopTick(i) PROVE Held(u)'
  <2>1. UNCHANGED <<asked, beat, lost>>
    BY <1>7 DEF LoopTick, tabs, beats
  <2>2. CASE Expired
    <3>1. \A b \in 0..Beat : ~Safe(b)
      BY <1>7, <2>2 DEF LoopTick, Expired, Safe, ServerOK
    <3>2. asked[u] = 0 /\ ~(beat[u] # NoBeat /\ lost[u] = 0)
      BY <3>1 DEF Held
    <3>3. QED
      BY <2>1, <3>2 DEF Held
  <2>3. CASE ~Expired
    <3>1. \A b : Safe(b) => Safe(b)'
      BY <1>7, <2>3 DEF LoopTick, Safe, ServerOK, live
    <3>2. QED
      BY <1>7, <2>1, <2>3, <3>1 DEF LoopTick, Held, live
  <2>4. QED
    BY <2>2, <2>3
<1>8. CASE Restart
  BY <1>8 DEF Restart, ServerOK
<1>9. CASE Clock
  <2>0. /\ asked' = asked /\ lost' = lost /\ cancel' = cancel /\ loop' = loop
        /\ asked[u] = Waiting(u) /\ beat[u] # 0
        /\ beat'[u] = IF beat[u] = NoBeat THEN NoBeat ELSE beat[u] - 1
    BY <1>9 DEF Clock
  <2>1. ASSUME asked[u] > 0 PROVE Safe(Beat)'
    <3>1. PICK i \in Poller : opener[i] = u
      BY <2>0, <2>1 DEF Waiting
    <3>2. loop[i] = "first" /\ due[i] = Interval /\ ~ticked[i]
      BY <3>1, LiveAssumption DEF LiveAssumption, Tickers
    <3>3. \A j \in Poller : loop[j] # "none" => j = i
      BY <3>2 DEF Slot
    <3>4. due'[i] = Interval /\ ~ticked'[i]
      BY <1>9, <3>2 DEF Clock
    <3>5. QED
      BY <2>0, <3>3, <3>4 DEF Safe
  <2>2. ASSUME NEW b \in Nat, b = beat[u], Safe(b) PROVE Safe(b - 1)'
    <3>1. CASE until >= b
      BY <1>9, <2>0, <2>2, <3>1 DEF Clock, Expired, Safe, ServerOK
    <3>2. CASE \A i \in Poller : loop[i] # "none" => ~ticked[i] /\ due[i] > b
      <4>1. ASSUME NEW i \in Poller, loop[i] # "none"
            PROVE  ~ticked'[i] /\ due'[i] > b - 1
        BY <1>9, <2>0, <2>2, <3>2, <4>1 DEF Clock, ServerOK
      <4>2. QED
        BY <2>0, <4>1 DEF Safe
    <3>3. QED
      BY <2>2, <3>1, <3>2 DEF Safe
  <2>3. ASSUME beat[u] # NoBeat, lost[u] = 0 PROVE Safe(beat[u])'
    <3>1. beat[u] \in Nat /\ Safe(beat[u]) /\ beat'[u] = beat[u] - 1
      BY <2>0, <2>3 DEF Held
    <3>2. QED
      BY <2>2, <3>1
  <2>4. asked'[u] > 0 => cancel' # NoPoller /\ Safe(Beat)'
    BY <2>0, <2>1 DEF Held
  <2>5. (beat[u] # NoBeat /\ lost[u] = 0)' => cancel' # NoPoller /\ Safe(beat[u])'
    BY <2>0, <2>3 DEF Held
  <2>6. QED
    BY <2>4, <2>5 DEF Held
<1>10. CASE UNCHANGED vars
  BY <1>10, SafeKept DEF vars, tabs, beats, Held, live
<1>11. QED
  BY <1>1, <1>2, <1>3, <1>4, <1>5, <1>6, <1>7, <1>8, <1>9, <1>10 DEF Next, Step

\* A live tab whose last heartbeat got through has a poller, for any lease that outlasts
\* the time between two heartbeats and any first refresh, however long: the ticker that
\* could find the lease expired starts only after it (live.go:69-80).
THEOREM TabsArePolled == Spec => []LiveTabIsPolled
<1>1. Init => Slot /\ ServerOK /\ TabsOK /\ Tickers /\ AllHeld
  BY SlotInit, LiveAssumption DEF LiveAssumption, Init, ServerOK, TabsOK, Tickers, AllHeld, Held,
                                  NoBeat, Refused
<1>2. AllHeld => LiveTabIsPolled
  BY DEF AllHeld, Held, LiveTabIsPolled, Beating
<1>3. QED
  BY <1>1, <1>2, SlotStep, ServerStep, TabsStep, TickersStep, HeldStep, PTL DEF Spec
-----------------------------------------------------------------------------
\* No tab has an interval or a call of setLive(true) left.
Silent == \A t \in Tab : beat[t] = NoBeat /\ leaked[t] = {} /\ asked[t] = 0

\* What poller i may still spend: a refresh costs one Interval of it, and there is as
\* much as the lease has left, a tick that waits, and the way its ticker has gone.
Credit(i) == IF Expired THEN 0
             ELSE (until + 1) + (IF ticked[i] THEN Interval ELSE 0) + (Interval - due[i])

\* Poller i begins a refresh.
Spends(i) == loop[i] = "waiting" /\ loop'[i] = "refreshing"

\* Nothing tops up the credit, and a refresh is paid for.
Pays(i) == Credit(i)' <= Credit(i) /\ (Spends(i) => Credit(i)' + Interval <= Credit(i))

SpendsDown == Silent /\ Silent' => \A i \in Poller : Pays(i)

LEMMA CreditRange == ASSUME ServerOK, NEW i \in Poller
                     PROVE  Credit(i) \in 0..(Lease + 2 * Interval)
BY LiveAssumption DEF LiveAssumption, ServerOK, Credit, Expired

LEMMA PaysStep == ServerOK /\ TabsOK /\ [Next]_vars => SpendsDown
<1> SUFFICES ASSUME ServerOK, TabsOK, [Next]_vars, Silent, Silent', NEW i \in Poller
             PROVE  Pays(i)
  BY DEF SpendsDown
<1>1. ServerOK'
  BY ServerStep
<1>2. /\ Interval \in Nat \ {0} /\ Lease \in Nat \ {0}
      /\ until \in -1..Lease /\ due[i] \in 1..Interval /\ ticked[i] \in BOOLEAN
      /\ until' \in -1..Lease /\ due'[i] \in 1..Interval /\ ticked'[i] \in BOOLEAN
      /\ Credit(i) \in Nat
  BY <1>1, CreditRange, LiveAssumption DEF LiveAssumption, ServerOK
\* Most steps leave the poller alone.
<1>3. ASSUME UNCHANGED <<until, due, ticked>>, ~Spends(i) PROVE Pays(i)
  <2>1. Credit(i)' = Credit(i)
    BY <1>3 DEF Credit, Expired
  <2>2. QED
    BY <1>2, <1>3, <2>1 DEF Pays
\* In silence no heartbeat is sent, and nobody turns Live on.
<1>4. ASSUME NEW t \in Tab, TurnOn(t) \/ Answered(t) \/ Heartbeat(t) \/ LeakedBeat(t)
      PROVE  FALSE
  <2>1. beat[t] = NoBeat /\ leaked[t] = {} /\ asked[t] = 0 /\ asked'[t] = 0
    BY DEF Silent
  <2>2. ~Heartbeat(t) /\ ~LeakedBeat(t)
    BY <2>1 DEF Heartbeat, LeakedBeat, NoBeat
  <2>3. ~Answered(t)
    BY <2>1 DEF Answered, Waiting
  <2>4. ASSUME TurnOn(t) PROVE FALSE
    <3>1. asked'[t] = asked[t] + 1
      BY <2>4 DEF TurnOn, TabsOK
    <3>2. QED
      BY <2>1, <3>1
  <2>5. QED
    BY <1>4, <2>2, <2>3, <2>4
<1>5. ASSUME NEW t \in Tab, TurnOff(t) \/ CookieExpires(t) PROVE Pays(i)
  BY <1>3, <1>5 DEF TurnOff, CookieExpires, live, pollers, Spends
<1>6. ASSUME NEW j \in Poller, FirstDone(j) \/ RefreshDone(j) PROVE Pays(i)
  <2>1. UNCHANGED <<until, due, ticked>> /\ loop' = [loop EXCEPT ![j] = "waiting"]
    BY <1>6 DEF FirstDone, RefreshDone, live
  <2>2. ~Spends(i)
    BY <2>1 DEF Spends, ServerOK
  <2>3. QED
    BY <1>3, <2>1, <2>2
<1>7. ASSUME NEW j \in Poller, LoopTick(j) PROVE Pays(i)
  <2>1. CASE Expired
    <3>1. Credit(i) = 0 /\ Credit(i)' = 0 /\ loop' = [loop EXCEPT ![j] = "none"]
      BY <1>7, <2>1 DEF LoopTick, Credit, Expired
    <3>2. ~Spends(i)
      BY <3>1 DEF Spends, ServerOK
    <3>3. QED
      BY <3>1, <3>2 DEF Pays
  <2>2. CASE ~Expired
    <3>1. /\ UNCHANGED <<until, due>> /\ ticked[j]
          /\ ticked' = [ticked EXCEPT ![j] = FALSE]
          /\ loop' = [loop EXCEPT ![j] = "refreshing"]
      BY <1>7, <2>2 DEF LoopTick, live
    <3>2. CASE i = j
      <4>1. ticked[i] /\ ~ticked'[i]
        BY <3>1, <3>2 DEF ServerOK
      <4>2. Credit(i)' + Interval <= Credit(i) /\ Credit(i)' <= Credit(i)
        BY <1>2, <2>2, <3>1, <4>1 DEF Credit, Expired
      <4>3. QED
        BY <4>2 DEF Pays
    <3>3. CASE i # j
      <4>1. ticked'[i] = ticked[i] /\ ~Spends(i)
        BY <3>1, <3>3 DEF Spends, ServerOK
      <4>2. Credit(i)' = Credit(i)
        BY <3>1, <4>1 DEF Credit, Expired
      <4>3. QED
        BY <1>2, <4>1, <4>2 DEF Pays
    <3>4. QED
      BY <3>2, <3>3
  <2>3. QED
    BY <2>1, <2>2
<1>8. CASE Restart
  <2>1. Credit(i)' = 0
    BY <1>8 DEF Restart, Credit, Expired
  <2>2. ~Spends(i)
    BY <1>8 DEF Restart, Spends
  <2>3. QED
    BY <1>2, <2>1, <2>2 DEF Pays
\* A unit of time: what the lease loses the ticker gains, and a tick only banks it.
<1>9. CASE Clock
  <2> DEFINE ticking == loop[i] \in {"waiting", "refreshing"}
  <2>1. /\ until' = IF Expired THEN until ELSE until - 1
        /\ due'[i] = IF ~ticking THEN due[i] ELSE IF due[i] = 1 THEN Interval ELSE due[i] - 1
        /\ ticked'[i] = (ticked[i] \/ (ticking /\ due[i] = 1))
    BY <1>9 DEF Clock
  <2>2. ~Spends(i)
    BY <1>9 DEF Clock, Spends
  <2>3. Credit(i)' <= Credit(i)
    <3>1. CASE Expired \/ until' < 0
      <4>1. Credit(i)' = 0
        BY <2>1, <3>1 DEF Credit, Expired
      <4>2. QED
        BY <1>2, <4>1
    <3>2. CASE ~Expired /\ until' >= 0
      <4>1. until' = until - 1 /\ ~Expired'
        BY <1>2, <2>1, <3>2 DEF Expired
      <4>2. CASE ticking /\ due[i] = 1
        <5>1. due'[i] = Interval /\ ticked'[i]
          BY <2>1, <4>2
        <5>2. Credit(i)' = until' + 1 + Interval
          BY <1>2, <4>1, <5>1 DEF Credit
        <5>3. Credit(i) >= until + 1 + (Interval - 1)
          BY <1>2, <3>2, <4>2 DEF Credit
        <5>4. QED
          BY <1>2, <4>1, <5>2, <5>3
      <4>3. CASE ~(ticking /\ due[i] = 1)
        <5>1. due'[i] \in {due[i], due[i] - 1}
          BY <2>1, <4>3
        <5>2. ticked'[i] = ticked[i]
          BY <1>2, <2>1, <4>3
        <5>3. QED
          BY <1>2, <3>2, <4>1, <5>1, <5>2 DEF Credit
      <4>4. QED
        BY <4>2, <4>3
    <3>3. QED
      BY <1>2, <3>1, <3>2
  <2>4. QED
    BY <2>2, <2>3 DEF Pays
<1>10. CASE UNCHANGED vars
  <2>1. UNCHANGED <<until, due, ticked, loop>>
    BY <1>10 DEF vars, live, pollers
  <2>2. ~Spends(i)
    BY <2>1 DEF Spends
  <2>3. QED
    BY <1>3, <2>1, <2>2
<1>11. QED
  BY <1>4, <1>5, <1>6, <1>7, <1>8, <1>9, <1>10 DEF Next, Step

\* The variant behind PollerStops: once the last tab has stopped, a poller begins at most
\* Lease / Interval + 2 more refreshes (four, with 90 s and 45 s), a late one included:
\* its credit is at most Lease + 2 * Interval, only heartbeats add to it, and each refresh
\* takes an Interval (touchLive, liveLoop).
THEOREM SilenceIsCheap ==
    /\ Spec => [](\A i \in Poller : Credit(i) \in 0..(Lease + 2 * Interval))
    /\ Spec => [][SpendsDown]_vars
<1>1. Init => ServerOK
  BY LiveAssumption DEF LiveAssumption, Init, ServerOK
<1>2. ServerOK => \A i \in Poller : Credit(i) \in 0..(Lease + 2 * Interval)
  BY CreditRange
<1>3. ServerOK /\ TabsOK /\ [Next]_vars => [SpendsDown]_vars
  BY PaysStep
<1>4. TypeOK => ServerOK /\ TabsOK
  BY TypeParts
<1>5. QED
  BY <1>1, <1>2, <1>3, <1>4, ServerStep, TypeCorrect, PTL DEF Spec
-----------------------------------------------------------------------------
AuthTypes == /\ hits \subseteq Attempt /\ waiting \subseteq Attempt \ hits
         /\ read \in [Attempt -> 0..Horizon]
         /\ passed \in [Attempt -> 0..Horizon]
         /\ coming \subseteq (Attempt \cup Renewal) \ waiting
         /\ cookie \in 0..CookieTTL
         /\ before \subseteq waiting \cup coming
         /\ proved \in BOOLEAN /\ undone \in BOOLEAN

\* A waiting attempt has just read the clock and has not been let through.
Waits == \A a \in waiting : read[a] <= MaxDelay /\ passed[a] = Horizon

\* A recorded one was let through after its reading, and not much later.
Recorded == \A a \in hits : passed[a] <= read[a] /\ read[a] <= passed[a] + MaxDelay

\* What was let through lately is still recorded.
Lately == \A a \in Attempt : passed[a] < Window - MaxDelay => a \in hits

AuthInv == AuthTypes /\ Waits /\ Recorded /\ Lately /\ Cardinality(hits) <= Max

LEMMA AuthNumbers == /\ Max \in Nat \ {0} /\ Window \in Nat \ {0} /\ CookieTTL \in Nat \ {0}
                 /\ MaxDelay \in Nat /\ Attempt \cap Renewal = {}
                 /\ Horizon \in Nat /\ Horizon = Window + MaxDelay
BY AuthAssumption DEF AuthAssumption, Horizon

LEMMA AuthInitInv == AuthInit => AuthInv
<1> SUFFICES ASSUME AuthInit PROVE AuthInv
  OBVIOUS
<1>1. AuthTypes
  <2>1. Horizon \in 0..Horizon /\ 0 \in 0..CookieTTL
    BY AuthNumbers
  <2>2. QED
    BY <2>1, Zenon DEF AuthInit, AuthTypes
<1>2. Waits /\ Recorded /\ Lately
  BY AuthNumbers DEF AuthInit, Waits, Recorded, Lately
<1>3. Cardinality(hits) <= Max
  BY AuthNumbers, FS_EmptySet DEF AuthInit
<1>4. QED
  BY <1>1, <1>2, <1>3 DEF AuthInv

\* Pruning on behalf of a waiting attempt forgets nothing that was let through lately:
\* a's reading is at most MaxDelay old.
LEMMA PruneKeepsLately ==
  ASSUME AuthTypes, Waits, Recorded, Lately, NEW a \in waiting
  PROVE  /\ Kept(a) \subseteq hits
         /\ \A t \in Attempt : passed[t] < Window - MaxDelay => t \in Kept(a)
BY AuthNumbers DEF AuthTypes, Waits, Recorded, Lately, Kept

LEMMA AttemptsFinite == ASSUME AuthTypes, NEW S \in SUBSET Attempt
                PROVE  IsFiniteSet(S) /\ Cardinality(S) \in Nat
BY AuthAssumption, FS_Subset, FS_CardinalityType DEF AuthAssumption

LEMMA AuthStepInv == AuthInv /\ [AuthNext]_authVars => AuthInv'
<1> SUFFICES ASSUME AuthInv, [AuthNext]_authVars PROVE AuthInv'
  OBVIOUS
<1> USE AuthNumbers DEF AuthInv, AuthTypes, Waits, Recorded, Lately
<1>1. ASSUME NEW a \in Attempt, ReadClock(a) PROVE AuthInv'
  BY <1>1 DEF ReadClock, session
<1>2. ASSUME NEW a \in Attempt, Refuse(a) PROVE AuthInv'
  <2>1. /\ Kept(a) \subseteq hits
        /\ \A t \in Attempt : passed[t] < Window - MaxDelay => t \in Kept(a)
    BY <1>2, PruneKeepsLately DEF Refuse
  <2>2. AuthTypes' /\ Waits' /\ Recorded' /\ Lately'
    BY <1>2, <2>1 DEF Refuse
  <2>3. IsFiniteSet(hits) /\ Cardinality(hits) \in Nat
    BY AttemptsFinite
  <2>4. Cardinality(hits') <= Max
    <3>1. Cardinality(Kept(a)) \in Nat /\ Cardinality(Kept(a)) <= Cardinality(hits)
      BY <2>1, <2>3, FS_Subset, FS_CardinalityType
    <3>2. QED
      BY <1>2, <2>3, <3>1 DEF Refuse
  <2>5. QED
    BY <2>2, <2>4
<1>3. ASSUME NEW a \in Attempt, Accept(a) PROVE AuthInv'
  <2>1. /\ Kept(a) \subseteq hits
        /\ \A t \in Attempt : passed[t] < Window - MaxDelay => t \in Kept(a)
    BY <1>3, PruneKeepsLately DEF Accept
  <2>2. AuthTypes' /\ Waits' /\ Recorded'
    <3>1. a \notin coming /\ coming' \in {coming, coming \cup {a}} /\ waiting' = waiting \ {a}
      BY <1>3 DEF Accept
    <3>2. /\ coming' \subseteq (Attempt \cup Renewal) \ waiting'
          /\ proved' \in BOOLEAN /\ undone' \in BOOLEAN
      BY <1>3, <3>1 DEF Accept
    <3>3. before' \subseteq waiting' \cup coming'
      BY <1>3 DEF Accept
    <3>4. /\ hits' \subseteq Attempt /\ waiting' \subseteq Attempt \ hits'
          /\ read' \in [Attempt -> 0..Horizon] /\ passed' \in [Attempt -> 0..Horizon]
          /\ cookie' \in 0..CookieTTL
      BY <1>3, <2>1 DEF Accept
    <3>5. Waits' /\ Recorded'
      BY <1>3, <2>1 DEF Accept
    <3>6. QED
      BY <3>2, <3>3, <3>4, <3>5
  <2>3. Lately'
    <3>1. hits' = Kept(a) \cup {a}
      BY <1>3 DEF Accept
    <3>2. \A t \in Attempt \ {a} : passed'[t] = passed[t]
      BY <1>3 DEF Accept
    <3>3. QED
      BY <2>1, <3>1, <3>2
  <2>4. Cardinality(hits') <= Max
    <3>1. Cardinality(Kept(a)) < Max /\ Cardinality(Kept(a)) \in Nat /\ IsFiniteSet(Kept(a))
      <4>1. IsFiniteSet(Kept(a)) /\ Cardinality(Kept(a)) \in Nat
        BY <2>1, AttemptsFinite
      <4>2. QED
        BY <1>3, <4>1 DEF Accept, Full
    <3>2. Cardinality(Kept(a) \cup {a}) \in {Cardinality(Kept(a)), Cardinality(Kept(a)) + 1}
      BY <3>1, FS_AddElement
    <3>3. QED
      BY <1>3, <3>1, <3>2 DEF Accept
  <2>5. QED
    BY <2>2, <2>3, <2>4
<1>4. ASSUME \/ \E r \in Renewal : Status(r)
             \/ \E x \in Attempt \cup Renewal : Arrive(x) \/ Lost(x)
             \/ Logout
      PROVE  AuthInv'
  <2>1. UNCHANGED limit
    BY <1>4 DEF Status, Arrive, Lost, Logout
  <2>2. cookie' \in 0..CookieTTL /\ coming' \subseteq (Attempt \cup Renewal) \ waiting
    BY <1>4 DEF Status, Arrive, Lost, Logout
  <2>3. before' \subseteq waiting' \cup coming'
    BY <1>4, <2>1 DEF Status, Arrive, Lost, Logout, limit
  <2>4. proved' \in BOOLEAN /\ undone' \in BOOLEAN
    BY <1>4 DEF Status, Arrive, Lost, Logout
  <2>5. QED
    BY <2>1, <2>2, <2>3, <2>4 DEF limit
<1>5. CASE Tick
  <2>1. \A n \in 0..Horizon : Later(n) \in 0..Horizon /\ n <= Later(n) /\ Later(n) <= n + 1
    BY DEF Later
  <2>2. /\ \A a \in Attempt : read'[a] = Later(read[a]) /\ passed'[a] = Later(passed[a])
        /\ UNCHANGED <<hits, waiting, coming, before, proved, undone>>
    BY <1>5 DEF Tick
  <2>3. AuthTypes'
    <3>1. /\ read' \in [Attempt -> 0..Horizon]
          /\ passed' \in [Attempt -> 0..Horizon]
      BY <1>5, <2>1 DEF Tick
    <3>2. cookie' \in 0..CookieTTL
      BY <1>5 DEF Tick
    <3>3. QED
      BY <2>2, <3>1, <3>2
  <2>4. Waits'
    <3>1. \A a \in waiting : read[a] < MaxDelay
      BY <1>5 DEF Tick
    <3>2. QED
      BY <2>1, <2>2, <3>1 DEF Later
  <2>5. Recorded'
    <3>1. \A m, n \in 0..Horizon : m <= n /\ n <= m + MaxDelay
                                   => Later(m) <= Later(n) /\ Later(n) <= Later(m) + MaxDelay
      BY DEF Later
    <3>2. QED
      BY <2>2, <3>1
  <2>6. Lately'
    BY <2>1, <2>2
  <2>7. QED
    BY <2>2, <2>3, <2>4, <2>5, <2>6
<1>6. CASE UNCHANGED authVars
  BY <1>6 DEF authVars, limit, session
<1>7. QED
  BY <1>1, <1>2, <1>3, <1>4, <1>5, <1>6 DEF AuthNext

\* AuthTypes and the length of the list of hits, which never exceeds max.
THEOREM AuthTypeCorrect == AuthSpec => []AuthTypeOK
<1>1. AuthInv => AuthTypeOK
  BY DEF AuthInv, AuthTypes, AuthTypeOK
<1>2. QED
  BY <1>1, AuthInitInv, AuthStepInv, PTL DEF AuthSpec

\* In any window shortened by the wait for the lock at most max attempts are let through,
\* in whichever order their clock readings are recorded (auth.go:45-58).
THEOREM WindowSafe == AuthSpec => []WindowBudget
<1>1. AuthInv => WindowBudget
  <2> SUFFICES ASSUME AuthInv PROVE WindowBudget
    OBVIOUS
  <2> DEFINE lately == {a \in Attempt : passed[a] < Window - MaxDelay}
  <2>1. lately \subseteq hits
    BY DEF AuthInv, Lately
  <2>2. IsFiniteSet(hits) /\ Cardinality(hits) \in Nat
    BY AttemptsFinite DEF AuthInv, AuthTypes
  <2>3. Cardinality(lately) <= Cardinality(hits) /\ Cardinality(lately) \in Nat
    BY <2>1, <2>2, FS_Subset, FS_CardinalityType
  <2>4. QED
    BY <2>2, <2>3, AuthNumbers DEF AuthInv, WindowBudget
<1>2. QED
  BY <1>1, AuthInitInv, AuthStepInv, PTL DEF AuthSpec

\* The attempts let through between s and s + Window - MaxDelay ago.
Through(s) == {a \in Attempt : s <= passed[a] /\ passed[a] < s + (Window - MaxDelay)}

\* The budget of every such window in the past; WindowBudget is that of the latest.
AnyWindow == \A s \in Nat \ {0} : s + (Window - MaxDelay) <= Horizon
                                  => Cardinality(Through(s)) <= Max

LEMMA LatestWindow == ASSUME AuthInv PROVE Cardinality(Through(0)) <= Max
<1>1. Through(0) \subseteq hits
  BY AuthNumbers DEF AuthInv, AuthTypes, Lately, Through
<1>2. IsFiniteSet(hits) /\ Cardinality(hits) \in Nat
  BY AttemptsFinite DEF AuthInv, AuthTypes
<1>3. Cardinality(Through(0)) <= Cardinality(hits) /\ Cardinality(Through(0)) \in Nat
  BY <1>1, <1>2, FS_Subset, FS_CardinalityType
<1>4. QED
  BY <1>2, <1>3, AuthNumbers DEF AuthInv

\* Every window was the latest one once; time only moves it into the past.
LEMMA AnyWindowStep == AuthInv /\ AnyWindow /\ [AuthNext]_authVars => AnyWindow'
<1> SUFFICES ASSUME AuthInv, AnyWindow, [AuthNext]_authVars,
                    NEW s \in Nat \ {0}, s + (Window - MaxDelay) <= Horizon
             PROVE  Cardinality(Through(s)') <= Max
  BY DEF AnyWindow, Through
<1>1. \A a \in Attempt : passed[a] \in 0..Horizon
  BY DEF AuthInv, AuthTypes
<1>2. ASSUME passed' = passed PROVE Cardinality(Through(s)') <= Max
  <2>1. Through(s)' = Through(s)
    BY <1>2 DEF Through
  <2>2. QED
    BY <2>1 DEF AnyWindow
<1>3. ASSUME NEW a \in Attempt, Accept(a) PROVE Cardinality(Through(s)') <= Max
  <2>1. passed' = [passed EXCEPT ![a] = 0] /\ passed[a] = Horizon
    BY <1>3 DEF Accept, AuthInv, Waits
  <2>2. passed'[a] = 0 /\ \A b \in Attempt \ {a} : passed'[b] = passed[b]
    BY <2>1 DEF AuthInv, AuthTypes
  <2>3. Through(s)' = Through(s)
    BY <1>1, <2>1, <2>2, AuthNumbers DEF Through
  <2>4. QED
    BY <2>3 DEF AnyWindow
<1>4. CASE Tick
  <2>1. \A a \in Attempt : passed'[a] = Later(passed[a])
    BY <1>4 DEF Tick
  <2>2. \A a \in Attempt : /\ s <= passed'[a] /\ passed'[a] < s + (Window - MaxDelay)
                            => /\ s - 1 <= passed[a]
                               /\ passed[a] < (s - 1) + (Window - MaxDelay)
    BY <1>1, <2>1, AuthNumbers DEF Later
  <2>3. Through(s)' \subseteq Through(s - 1)
    BY <2>2 DEF Through
  <2>4. s - 1 \in Nat /\ (s - 1) + (Window - MaxDelay) <= Horizon
    BY AuthNumbers
  <2>5. Cardinality(Through(s - 1)) <= Max
    <3>1. CASE s = 1
      BY <3>1, LatestWindow
    <3>2. CASE s # 1
      BY <2>4, <3>2 DEF AnyWindow
    <3>3. QED
      BY <3>1, <3>2
  <2>6. Through(s - 1) \in SUBSET Attempt
    BY DEF Through
  <2>7. IsFiniteSet(Through(s - 1)) /\ Cardinality(Through(s - 1)) \in Nat
    BY <2>6, AttemptsFinite DEF AuthInv
  <2>8. /\ Cardinality(Through(s)') <= Cardinality(Through(s - 1))
        /\ Cardinality(Through(s)') \in Nat
    BY <2>3, <2>7, FS_Subset, FS_CardinalityType
  <2>9. QED
    BY <2>5, <2>7, <2>8, AuthNumbers
<1>5. \/ passed' = passed \/ Tick \/ \E a \in Attempt : Accept(a)
  BY DEF AuthNext, ReadClock, Refuse, Status, Arrive, Lost, Logout, limit, authVars
<1>6. QED
  BY <1>2, <1>3, <1>4, <1>5

\* A full window may see twice the attempts that README.md:174 allows, and no more: those
\* who read the clock early and waited for the lock are pruned before a window has passed
\* since they were let through (auth.go:45-58).  Two shortened windows cover a full one.
FullWindowBudget == Cardinality({a \in Attempt : passed[a] < Window}) <= 2 * Max

THEOREM FullWindowSafe == ASSUME 2 * MaxDelay <= Window PROVE AuthSpec => []FullWindowBudget
<1>1. AuthInit => AnyWindow
  <2> SUFFICES ASSUME AuthInit, NEW s \in Nat \ {0}, s + (Window - MaxDelay) <= Horizon
               PROVE  Cardinality(Through(s)) <= Max
    BY DEF AnyWindow
  <2>1. Through(s) = {}
    BY AuthNumbers DEF AuthInit, Through
  <2>2. QED
    BY <2>1, FS_EmptySet, AuthNumbers
<1>2. AuthInv /\ AnyWindow => FullWindowBudget
  <2> SUFFICES ASSUME AuthInv, AnyWindow PROVE FullWindowBudget
    OBVIOUS
  <2> DEFINE full == {a \in Attempt : passed[a] < Window}
  <2>1. full \subseteq Through(0) \cup Through(MaxDelay)
    BY AuthNumbers DEF AuthInv, AuthTypes, Through
  <2>2. Cardinality(Through(0)) <= Max /\ Cardinality(Through(MaxDelay)) <= Max
    BY LatestWindow, AuthNumbers DEF AnyWindow
  <2>3. \A n : Through(n) \in SUBSET Attempt
    BY DEF Through
  <2>4. /\ IsFiniteSet(Through(0)) /\ Cardinality(Through(0)) \in Nat
        /\ IsFiniteSet(Through(MaxDelay)) /\ Cardinality(Through(MaxDelay)) \in Nat
        /\ Cardinality(Through(0) \cap Through(MaxDelay)) \in Nat
    <3>1. Through(0) \cap Through(MaxDelay) \in SUBSET Attempt
      BY <2>3
    <3>2. QED
      BY <2>3, <3>1, AttemptsFinite DEF AuthInv
  <2>5. /\ IsFiniteSet(Through(0) \cup Through(MaxDelay))
        /\ Cardinality(Through(0) \cup Through(MaxDelay)) <= 2 * Max
    <3>1. /\ IsFiniteSet(Through(0) \cup Through(MaxDelay))
          /\ Cardinality(Through(0) \cup Through(MaxDelay)) =
               Cardinality(Through(0)) + Cardinality(Through(MaxDelay))
                 - Cardinality(Through(0) \cap Through(MaxDelay))
      BY <2>4, FS_Union
    <3>2. QED
      BY <2>2, <2>4, <3>1, AuthNumbers
  <2>6. /\ Cardinality(full) <= Cardinality(Through(0) \cup Through(MaxDelay))
        /\ Cardinality(full) \in Nat
        /\ Cardinality(Through(0) \cup Through(MaxDelay)) \in Nat
    BY <2>1, <2>5, FS_Subset, FS_CardinalityType
  <2>7. QED
    BY <2>5, <2>6, AuthNumbers DEF FullWindowBudget
<1>3. QED
  BY <1>1, <1>2, AuthInitInv, AuthStepInv, AnyWindowStep, PTL DEF AuthSpec

\* Attempts that were refused never count: whoever is refused finds max attempts that were
\* let through not long ago.
THEOREM NobodyLockedOut == AuthSpec => NoLockout
<1> DEFINE Earned == \A a \in waiting : Refuse(a) =>
                       Cardinality({t \in Attempt : passed[t] < Horizon}) >= Max
<1>1. AuthInv => Earned
  <2> SUFFICES ASSUME AuthInv, NEW a \in waiting, Refuse(a)
               PROVE  Cardinality({t \in Attempt : passed[t] < Horizon}) >= Max
    OBVIOUS
  <2> DEFINE through == {t \in Attempt : passed[t] < Horizon}
  <2>1. Kept(a) \subseteq through
    BY AuthNumbers DEF AuthInv, AuthTypes, Waits, Recorded, Kept
  <2>2. /\ IsFiniteSet(through) /\ Cardinality(through) \in Nat
        /\ Cardinality(Kept(a)) \in Nat
    <3>1. through \in SUBSET Attempt /\ Kept(a) \in SUBSET Attempt
      BY DEF AuthInv, AuthTypes, Kept
    <3>2. QED
      BY <3>1, AttemptsFinite DEF AuthInv
  <2>3. Cardinality(Kept(a)) <= Cardinality(through)
    BY <2>1, <2>2, FS_Subset
  <2>4. Cardinality(Kept(a)) >= Max
    BY DEF Refuse, Full
  <2>5. QED
    BY <2>2, <2>3, <2>4, AuthNumbers
<1>2. AuthInv /\ [AuthNext]_authVars => [Earned]_authVars
  BY <1>1
<1>3. QED
  BY <1>2, AuthInitInv, AuthStepInv, PTL DEF AuthSpec, NoLockout

\* Everything on its way with a cookie was sent before the last logout, or owes its cookie
\* to a token presented, or to a cookie set again, since.
Earned == /\ cookie > 0 => proved \/ undone
          /\ coming \subseteq before \/ proved \/ undone

\* No order of attempts, renewals, logouts, answers and losses gives a browser a cookie
\* after a logout unless it presents the token, or an answer overtakes that of the DELETE;
\* whatever is sent after the logout leaves the browser logged out (handleLiveAuth).
THEOREM CookieIsEarned == AuthSpec => []LogoutHolds
<1>1. AuthInit => Earned
  BY DEF AuthInit, Earned
<1>2. AuthTypeOK /\ Earned /\ [AuthNext]_authVars => Earned'
  <2> SUFFICES ASSUME AuthTypeOK, Earned, [AuthNext]_authVars PROVE Earned'
    OBVIOUS
  <2>1. cookie \in Nat /\ before \subseteq waiting \cup coming /\ coming \cap waiting = {}
    BY AuthAssumption DEF AuthAssumption, AuthTypeOK
  <2>2. ASSUME NEW a \in Attempt, ReadClock(a) PROVE Earned'
    BY <2>2 DEF ReadClock, session, Earned
  <2>3. ASSUME NEW a \in Attempt, Refuse(a) \/ Accept(a) PROVE Earned'
    <3>0. cookie' = cookie /\ undone' = undone
      BY <2>3 DEF Refuse, Accept
    <3>1. cookie' = cookie /\ undone' = undone /\ (proved => proved')
      <4>1. proved' = proved \/ proved' = (proved \/ a \notin before)
        BY <2>3, Zenon DEF Refuse, Accept
      <4>2. proved \in BOOLEAN
        BY DEF AuthTypeOK
      <4>3. CASE proved' = (proved \/ a \notin before)
        BY <3>0, <4>2, <4>3
      <4>4. CASE proved' = proved
        BY <3>0, <4>4
      <4>5. QED
        BY <4>1, <4>3, <4>4
    <3>2. ASSUME coming' = coming /\ before' = before \ {a} PROVE Earned'
      <4>1. a \in waiting
        BY <2>3 DEF Refuse, Accept
      <4>2. QED
        BY <2>1, <3>1, <3>2, <4>1 DEF Earned
    <3>3. ASSUME coming' = coming \cup {a}, before' = before, proved' = (proved \/ a \notin before)
          PROVE  Earned'
      BY <3>1, <3>3 DEF Earned
    <3>4. QED
      BY <2>3, <3>2, <3>3 DEF Refuse, Accept
  <2>4. ASSUME NEW r \in Renewal, Status(r) PROVE Earned'
    BY <2>4 DEF Status, limit, Earned
  <2>5. ASSUME NEW x \in Attempt \cup Renewal, Arrive(x) \/ Lost(x) PROVE Earned'
    BY <2>5 DEF Arrive, Lost, Earned
  <2>6. CASE Logout
    BY <2>6 DEF Logout, Earned
  <2>7. CASE Tick
    BY <2>1, <2>7 DEF Tick, Earned
  <2>8. CASE UNCHANGED authVars
    BY <2>8 DEF authVars, session, Earned
  <2>9. QED
    BY <2>2, <2>3, <2>4, <2>5, <2>6, <2>7, <2>8 DEF AuthNext
<1>3. Earned => LogoutHolds
  BY DEF Earned, LogoutHolds
<1>4. QED
  BY <1>1, <1>2, <1>3, AuthTypeCorrect, PTL DEF AuthSpec
=============================================================================
