---------------------------- MODULE FocusAlerts ----------------------------
(* The server process around the store: refreshAndWarm (Live tick, /refresh, *)
(* POST /api/focus), the airport switch (POST /api/focus, GET /?focus=) and   *)
(* edge-triggered alerts (server/live.go, focus_api.go, alerts.go).  Every    *)
(* goroutine may do any of these at any time.  Low-pass alerts follow the     *)
(* same edges as approach alerts, so one set stands for both.                 *)
EXTENDS Naturals

CONSTANTS Airport, BootFocus,
          Dest,         \* Dest[f]: the airport flight f is inbound to; its route is cached
          Proc,         \* goroutines: HTTP handlers and the Live loop
          MayFail,      \* whether fetches can fail
          MaxSwitch,    \* bound on airport switches
          NoSnap, NoProc

Flight == DOMAIN Dest
\* A snapshot: the airport its box is around, and the flights on approach there.
Snap == [box : Airport, on : SUBSET Flight]

ASSUME FocusAssumption == /\ BootFocus \in Airport
                          /\ Dest \in [Flight -> Airport]
                          /\ MayFail \in BOOLEAN
                          /\ MaxSwitch \in Nat
                          /\ NoSnap \notin Snap
                          /\ NoProc \notin Proc

VARIABLES focus,        \* Server.focus
          box, gen,     \* Store.bbox (around an airport), Store.bboxGen
          snap, err,    \* Store.aircraft, Store.err # nil
          bootstrapped, approach,       \* alertState
          lock,         \* holder of alertState.mu
          pc,
          target,       \* switch: the airport asked for
          post,         \* switch: POST /api/focus, which refreshes afterwards
          gen0,         \* refreshAndWarm: its gen
          reqBox, reqGen,       \* Store.Refresh: box and generation it left with
          evalGen,      \* evaluateAlerts: its gen
          list,         \* evaluateAlerts: the snapshot it read
          now,          \* evaluateAlerts: nowApproach
          switches,
          quiet         \* the whole run through, operations do not overlap and fetches work

\* History: the list the edge state was taken from, the last alerts sent with the
\* baseline they were held against, the flights alerted (or taken as baseline) that
\* every snapshot since has shown, the refreshes whose answer was dropped, and those
\* that a switch of the box cut into.
VARIABLES base, fired, stay, dropped, cutInto

store == <<box, gen, snap, err>>
alerts == <<bootstrapped, approach, lock>>
run == <<switches, quiet>>
locals == <<target, post, gen0, reqBox, reqGen, evalGen, list, now, run>>
refreshing == <<gen0, reqBox, reqGen, evalGen, list, now>>
history == <<base, fired, stay, dropped, cutInto>>
vars == <<focus, store, alerts, pc, locals, history>>

Fired == [flights : SUBSET Flight, focus : Airport, base : Snap \cup {NoSnap}]

TypeOK ==
    /\ focus \in Airport /\ box \in Airport /\ gen \in 0..MaxSwitch
    /\ snap \in Snap \cup {NoSnap} /\ err \in BOOLEAN
    /\ bootstrapped \in BOOLEAN /\ approach \subseteq Flight
    /\ lock \in Proc \cup {NoProc}
    /\ pc \in [Proc -> {"idle", "setBBox", "reset", "begin", "refresh", "fetching",
                        "landed", "warm", "evaluate", "classify", "finish"}]
    /\ target \in [Proc -> Airport] /\ post \in [Proc -> BOOLEAN]
    /\ gen0 \in [Proc -> 0..MaxSwitch]
    /\ reqBox \in [Proc -> Airport] /\ reqGen \in [Proc -> 0..MaxSwitch]
    /\ evalGen \in [Proc -> 0..MaxSwitch]
    /\ list \in [Proc -> Snap \cup {NoSnap}] /\ now \in [Proc -> SUBSET Flight]
    /\ switches \in 0..MaxSwitch /\ quiet \in BOOLEAN
    /\ base \in Snap \cup {NoSnap} /\ fired \in Fired
    /\ stay \subseteq Flight /\ dropped \subseteq Proc /\ cutInto \subseteq Proc

Init ==
    /\ focus = BootFocus /\ box = BootFocus /\ gen = 0
    /\ snap = NoSnap /\ err = FALSE
    /\ bootstrapped = FALSE /\ approach = {} /\ lock = NoProc
    /\ pc = [p \in Proc |-> "idle"]
    /\ target = [p \in Proc |-> BootFocus] /\ post = [p \in Proc |-> FALSE]
    /\ gen0 = [p \in Proc |-> 0]
    /\ reqBox = [p \in Proc |-> BootFocus] /\ reqGen = [p \in Proc |-> 0]
    /\ evalGen = [p \in Proc |-> 0]
    /\ list = [p \in Proc |-> NoSnap] /\ now = [p \in Proc |-> {}]
    /\ switches = 0 /\ quiet \in BOOLEAN
    /\ base = NoSnap
    /\ fired = [flights |-> {}, focus |-> BootFocus, base |-> NoSnap]
    /\ stay = {} /\ dropped = {} /\ cutInto = {}

\* p's next step.  Locals that go out of scope with it get their initial values again.
Goto(p, from, to) == pc[p] = from /\ pc' = [pc EXCEPT ![p] = to]
-----------------------------------------------------------------------------
\* applyFocusSwitch is four unguarded steps: focus (with its radius), box, alerts.
SetFocus(p, a, isPost) ==
    /\ Goto(p, "idle", "setBBox")
    /\ switches < MaxSwitch
    /\ switches' = switches + 1
    /\ focus' = a
    /\ target' = [target EXCEPT ![p] = a]
    /\ post' = [post EXCEPT ![p] = isPost]
    /\ stay' = {}
    /\ UNCHANGED <<store, alerts, gen0, reqBox, reqGen, evalGen, list, now,
                   quiet, base, fired, dropped, cutInto>>

\* GET /?focus= switches only to another airport; POST /api/focus always does.
GetFocus(p, a) == a # focus /\ SetFocus(p, a, FALSE)
PostFocus(p, a) == SetFocus(p, a, TRUE)

\* Refreshes under way: between the capture of their generation and its last check.
UnderWay == {p \in Proc : pc[p] \in {"refresh", "fetching", "landed", "warm"}}

SetBBox(p) == /\ Goto(p, "setBBox", "reset")
              /\ box' = target[p]
              /\ \/ target[p] = box /\ UNCHANGED <<gen, cutInto>>
                 \/ target[p] # box /\ gen' = gen + 1 /\ cutInto' = cutInto \cup UnderWay
              /\ target' = [target EXCEPT ![p] = BootFocus]
              /\ UNCHANGED <<focus, snap, err, alerts, post, refreshing, run,
                             base, fired, stay, dropped>>

\* Mutant: a share URL leaves the edge state alone.
ResetBootstrap_PostOnly(p) == /\ Goto(p, "reset", IF post[p] THEN "begin" ELSE "idle")
                              /\ lock = NoProc
                              /\ bootstrapped' = (bootstrapped /\ ~post[p])
                              /\ approach' = IF post[p] THEN {} ELSE approach
                              /\ post' = [post EXCEPT ![p] = FALSE]
                              /\ UNCHANGED <<focus, store, lock, target, refreshing, run, history>>

ResetBootstrap(p) == /\ Goto(p, "reset", IF post[p] THEN "begin" ELSE "idle")
                     /\ lock = NoProc
                     /\ bootstrapped' = FALSE
                     /\ approach' = {}
                     /\ post' = [post EXCEPT ![p] = FALSE]
                     /\ UNCHANGED <<focus, store, lock, target, refreshing, run, history>>
-----------------------------------------------------------------------------
\* Mutant: the generation is not captured.
BeginRefresh_Once(p) ==
    /\ Goto(p, "idle", "refresh") \/ Goto(p, "begin", "refresh")
    /\ dropped' = dropped \ {p} /\ cutInto' = cutInto \ {p}
    /\ UNCHANGED <<focus, store, alerts, locals, base, fired, stay>>

\* refreshAndWarm captures the generation before Store.Refresh reads it ...
BeginRefresh(p) == /\ \/ Goto(p, "idle", "refresh")
                      \/ Goto(p, "begin", "refresh")
                   /\ gen0' = [gen0 EXCEPT ![p] = gen]
                   /\ dropped' = dropped \ {p} /\ cutInto' = cutInto \ {p}
                   /\ UNCHANGED <<focus, store, alerts, target, post, reqBox, reqGen,
                                  evalGen, list, now, run, base, fired, stay>>

LeaveForList(p) == /\ Goto(p, "refresh", "fetching")
                   /\ reqBox' = [reqBox EXCEPT ![p] = box]
                   /\ reqGen' = [reqGen EXCEPT ![p] = gen]
                   /\ UNCHANGED <<focus, store, alerts, target, post, gen0, evalGen,
                                  list, now, run, history>>

Inbound(a) == {f \in Flight : Dest[f] = a}

Landed(p) == /\ reqBox' = [reqBox EXCEPT ![p] = BootFocus]
             /\ reqGen' = [reqGen EXCEPT ![p] = 0]
             /\ UNCHANGED <<target, post, gen0, evalGen, list, now, run>>

\* Mutant: the answer lands whatever the generation.
Land_AnyGen(p) ==
    /\ Goto(p, "fetching", "landed")
    /\ \E F \in SUBSET Inbound(reqBox[p]) :
         /\ snap' = [box |-> reqBox[p], on |-> F]
         /\ stay' = stay \cap F
    /\ err' = FALSE
    /\ Landed(p)
    /\ UNCHANGED <<focus, box, gen, alerts, base, fired, dropped, cutInto>>

\* ... and the answer lands in the store unless the box has changed (module Store).
Land(p) ==
    /\ Goto(p, "fetching", "landed")
    /\ \/ /\ reqGen[p] # gen
          /\ dropped' = dropped \cup {p}
          /\ UNCHANGED <<snap, err, stay>>
       \/ /\ reqGen[p] = gen
          /\ MayFail /\ ~quiet
          /\ err' = TRUE
          /\ UNCHANGED <<snap, stay, dropped>>
       \/ /\ reqGen[p] = gen
          /\ \E F \in SUBSET Inbound(reqBox[p]) :
               /\ snap' = [box |-> reqBox[p], on |-> F]
               /\ stay' = stay \cap F
          /\ err' = FALSE
          /\ UNCHANGED dropped
    /\ Landed(p)
    /\ UNCHANGED <<focus, box, gen, alerts, base, fired, cutInto>>

\* Both generation checks: after Refresh and after the ~2.5s route warm.
CheckGen(p, from, to) ==
    /\ \/ gen = gen0[p] /\ Goto(p, from, to) /\ UNCHANGED <<gen0, dropped, cutInto>>
       \/ /\ gen # gen0[p]
          /\ Goto(p, from, "idle")
          /\ gen0' = [gen0 EXCEPT ![p] = 0]
          /\ dropped' = dropped \ {p} /\ cutInto' = cutInto \ {p}
    /\ UNCHANGED <<focus, store, alerts, target, post, reqBox, reqGen, evalGen, list, now,
                   run, base, fired, stay>>

\* Mutant: only the answer is checked, not what the warm-up takes.
CheckWarm_Skipped(p) == /\ Goto(p, "warm", "evaluate")
                        /\ UNCHANGED <<focus, store, alerts, locals, history>>

CheckLanded(p) == CheckGen(p, "landed", "warm")
CheckWarm(p) == CheckGen(p, "warm", "evaluate")
-----------------------------------------------------------------------------
\* Mutant: edges are computed with alerts.mu not held.
LockAlerts_Shared(p) == /\ Goto(p, "evaluate", "classify")
                        /\ evalGen' = [evalGen EXCEPT ![p] = gen]
                        /\ gen0' = [gen0 EXCEPT ![p] = 0]
                        /\ UNCHANGED <<focus, store, alerts, target, post,
                                       reqBox, reqGen, list, now, run, history>>

\* evaluateAlerts locks alerts.mu and reads a generation of its own.
LockAlerts(p) == /\ Goto(p, "evaluate", "classify")
                 /\ lock = NoProc
                 /\ lock' = p
                 /\ evalGen' = [evalGen EXCEPT ![p] = gen]
                 /\ gen0' = [gen0 EXCEPT ![p] = 0]
                 /\ UNCHANGED <<focus, store, bootstrapped, approach, target, post,
                                reqBox, reqGen, list, now, run, history>>

\* It reads the snapshot, and Server.focus without a lock.
OnApproach(s) == IF s = NoSnap THEN {} ELSE s.on \cap Inbound(focus)

Classify(p) == /\ Goto(p, "classify", "finish")
               /\ list' = [list EXCEPT ![p] = snap]
               /\ now' = [now EXCEPT ![p] = OnApproach(snap)]
               /\ UNCHANGED <<focus, store, alerts, target, post, gen0, reqBox, reqGen,
                              evalGen, run, history>>

\* The edge state after evaluation, the alerts for flights newly on approach.
TakeEdges(p, new) ==
    /\ approach' = now[p]
    /\ bootstrapped' = TRUE
    /\ base' = list[p]
    /\ fired' = [flights |-> new, focus |-> focus, base |-> base]
    /\ stay' = IF snap = NoSnap THEN {} ELSE (stay \cup now[p]) \cap snap.on

\* Nothing happens if the box changed meanwhile; the first evaluation fires nothing.
\* The publishUpdate that follows changes nothing modelled here.
Finish(p) ==
    /\ Goto(p, "finish", "idle")
    /\ lock' = NoProc
    /\ \/ /\ gen # evalGen[p]
          /\ fired' = [fired EXCEPT !.flights = {}]
          /\ UNCHANGED <<bootstrapped, approach, base, stay>>
       \/ gen = evalGen[p] /\ ~bootstrapped /\ TakeEdges(p, {})
       \/ gen = evalGen[p] /\ bootstrapped /\ TakeEdges(p, now[p] \ approach)
    /\ list' = [list EXCEPT ![p] = NoSnap]
    /\ now' = [now EXCEPT ![p] = {}]
    /\ evalGen' = [evalGen EXCEPT ![p] = 0]
    /\ UNCHANGED <<focus, store, target, post, gen0, reqBox, reqGen, run, dropped, cutInto>>
-----------------------------------------------------------------------------
Switch(p) == \/ \E a \in Airport : GetFocus(p, a) \/ PostFocus(p, a)
             \/ SetBBox(p)
             \/ ResetBootstrap(p)

Evaluate(p) == LockAlerts(p) \/ Classify(p) \/ Finish(p)

Refresh(p) == \/ BeginRefresh(p)
              \/ LeaveForList(p)
              \/ Land(p)
              \/ CheckLanded(p)
              \/ CheckWarm(p)
              \/ Evaluate(p)

Next == \E p \in Proc : /\ quiet => \A q \in Proc \ {p} : pc[q] = "idle"
                        /\ Switch(p) \/ Refresh(p)

\* Handlers run to completion (every request has a timeout), Live ticks keep coming,
\* and sync.Mutex hands alerts.mu to every waiter.
Fairness == \A p \in Proc : /\ WF_vars(SetBBox(p) \/ Refresh(p))
                            /\ SF_vars(ResetBootstrap(p))
                            /\ SF_vars(LockAlerts(p))

Spec == Init /\ [][Next]_vars /\ Fairness
-----------------------------------------------------------------------------
\* "A discarded in-flight Live tick must not evaluate" (README; live.go:35-38): a
\* refresh whose answer was dropped never gets to warm routes, and one that a switch of
\* the box cut into, then or during the warm-up, never reaches evaluateAlerts.
DroppedNeverEvaluates ==
    \A p \in Proc : /\ pc[p] \in {"warm", "evaluate", "classify", "finish"} => p \notin dropped
                    /\ pc[p] \in {"evaluate", "classify", "finish"} => p \notin cutInto

\* While the airport stays, a flight shown by every snapshot since it was alerted is
\* not alerted again, whichever refreshes overlap: evaluations take the edge state
\* one at a time, each from a snapshot no older than the one before.
OncePerStay ==
    [][(\E p \in Proc : pc[p] = "finish" /\ pc'[p] = "idle")
        => fired'.flights \cap stay = {}]_vars

\* However switches cut into refreshes, once they end alerts are armed again.
ArmedAgain == ~bootstrapped ~> bootstrapped

\* An alert is held against a baseline of its own airport that did not show the flight:
\* "First snapshot after boot and POST /api/focus bootstrap without firing - the POST
\* evaluate runs on the freshly fetched bbox" (README, alerts).
NoReplay ==
    \A f \in fired.flights \cap Inbound(fired.focus) :
        /\ fired.base # NoSnap
        /\ fired.base.box = fired.focus
        /\ f \notin fired.base.on

\* Between switches the box is the one around the focus airport (focus_api.go:80).
BoxFollowsFocus ==
    (\A p \in Proc : pc[p] \notin {"setBBox", "reset"}) => box = focus

\* What an evaluation takes its edges from is a list of the focus airport ("the POST
\* evaluate runs on the freshly fetched bbox", README).
FocusIsEvaluated ==
    \A p \in Proc : pc[p] = "finish" => list[p] # NoSnap /\ list[p].box = focus

\* As long as fetches work and nothing overlaps, share URLs and POST /api/focus keep
\* these promises, and an alert names the airport its flight is inbound to ("Approach
\* requires destination ICAO = focus", README, alerts).
QuietAlerts == quiet => NoReplay /\ fired.flights \subseteq Inbound(fired.focus)

\* On those runs, box and evaluations keep to the focus airport between switches.
QuietSwitch == quiet => BoxFollowsFocus /\ FocusIsEvaluated

\* The server's store is the one SnapshotSpec promises.
Contract == INSTANCE SnapshotSpec WITH
    Box <- Airport, BootBox <- BootFocus, List <- Snap, NoList <- NoSnap,
    box <- box, shown <- snap, failed <- err
KeepsContract == Contract!Spec
=============================================================================
