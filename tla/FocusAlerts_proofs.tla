------------------------- MODULE FocusAlerts_proofs -------------------------
(* For any number of goroutines, airports, flights and switches: a refresh   *)
(* that a switch cuts into stops before it evaluates alerts, and the          *)
(* store keeps to SnapshotSpec whatever switches cut in; and as long as       *)
(* nothing overlaps, switches and alerts keep what the documents promise.     *)
EXTENDS FocusAlerts, FiniteSetTheorems, TLAPS

\* The types the argument needs; TypeOK bounds the generations as well.
Types == /\ box \in Airport /\ gen \in Nat
         /\ pc \in [Proc -> {"idle", "setBBox", "reset", "begin", "refresh", "fetching",
                             "landed", "warm", "evaluate", "classify", "finish"}]
         /\ target \in [Proc -> Airport] /\ reqBox \in [Proc -> Airport]
         /\ gen0 \in [Proc -> Nat] /\ reqGen \in [Proc -> Nat]

Evaluated == {"evaluate", "classify", "finish"}
Past == {"warm"} \cup Evaluated

\* The two generations of a refresh, refreshAndWarm's and Store.Refresh's: read in this
\* order, and the store's only grows.  So an answer dropped for the second is dropped
\* for the first, an answer kept is for the box the store has, and a switch that cuts in
\* leaves the first behind for good.
Generations(p) ==
    /\ pc[p] \in {"refresh", "fetching"} => p \notin dropped
    /\ p \in UnderWay => gen0[p] <= gen /\ (p \in cutInto => gen0[p] < gen)
    /\ pc[p] = "fetching" => /\ gen0[p] <= reqGen[p] /\ reqGen[p] <= gen
                             /\ reqGen[p] = gen => reqBox[p] = box
    /\ (pc[p] = "landed" /\ p \in dropped) => gen0[p] < gen
    /\ pc[p] \in Past => p \notin dropped
    /\ pc[p] \in Evaluated => p \notin cutInto

Inv == Types /\ \A p \in Proc : Generations(p)

LEMMA InvInit == Init => Inv
BY FocusAssumption DEF FocusAssumption, Init, Inv, Types, Generations, UnderWay, Past, Evaluated

\* Steps of one goroutine that leave the box and its generation alone do not disturb
\* another one.
LEMMA OthersKeep ==
    ASSUME NEW p \in Proc, NEW q \in Proc, q # p, Generations(q), Types, Types',
           box' = box, gen' = gen, pc'[q] = pc[q], gen0'[q] = gen0[q],
           reqBox'[q] = reqBox[q], reqGen'[q] = reqGen[q],
           q \in dropped' <=> q \in dropped, cutInto' = cutInto
    PROVE  Generations(q)'
BY DEF Generations, UnderWay

LEMMA InvStep == Inv /\ [Next]_vars => Inv'
<1> SUFFICES ASSUME Inv, [Next]_vars PROVE Inv'
  OBVIOUS
<1> USE FocusAssumption DEF FocusAssumption, Inv, Goto, store, alerts, run, refreshing, locals, history
<1>1. ASSUME NEW p \in Proc, NEW a \in Airport, GetFocus(p, a) \/ PostFocus(p, a) PROVE Inv'
  <2>1. Types'
    BY <1>1 DEF GetFocus, PostFocus, SetFocus, Types
  <2>2. \A q \in Proc : Generations(q)'
    BY <1>1 DEF GetFocus, PostFocus, SetFocus, Types, Generations, UnderWay, Past, Evaluated
  <2>3. QED
    BY <2>1, <2>2
<1>2. ASSUME NEW p \in Proc, SetBBox(p) PROVE Inv'
  <2>1. Types'
    BY <1>2 DEF SetBBox, Types
  <2>2. gen' >= gen /\ (gen' = gen => box' = box)
    BY <1>2 DEF SetBBox, Types
  <2>3. \A q \in Proc : Generations(q)'
    BY <1>2, <2>2 DEF SetBBox, Types, Generations, UnderWay, Past, Evaluated
  <2>4. QED
    BY <2>1, <2>3
<1>3. ASSUME NEW p \in Proc, ResetBootstrap(p) PROVE Inv'
  <2>1. Types'
    BY <1>3 DEF ResetBootstrap, Types
  <2>2. \A q \in Proc : Generations(q)'
    BY <1>3 DEF ResetBootstrap, Types, Generations, UnderWay, Past, Evaluated
  <2>3. QED
    BY <2>1, <2>2
<1>4. ASSUME NEW p \in Proc, BeginRefresh(p) PROVE Inv'
  <2>1. Types'
    BY <1>4 DEF BeginRefresh, Types
  <2>2. \A q \in Proc : Generations(q)'
    BY <1>4 DEF BeginRefresh, Types, Generations, UnderWay, Past, Evaluated
  <2>3. QED
    BY <2>1, <2>2
<1>5. ASSUME NEW p \in Proc, LeaveForList(p) PROVE Inv'
  <2>1. Types'
    BY <1>5 DEF LeaveForList, Types
  <2>2. \A q \in Proc : Generations(q)'
    BY <1>5 DEF LeaveForList, Types, Generations, UnderWay, Past, Evaluated
  <2>3. QED
    BY <2>1, <2>2
<1>6. ASSUME NEW p \in Proc, Land(p) PROVE Inv'
  <2>1. Types'
    BY <1>6 DEF Land, Landed, Types
  <2>2. ASSUME NEW q \in Proc, q # p PROVE Generations(q)'
    BY <1>6, <2>1, <2>2, OthersKeep DEF Land, Landed, Types
  <2>3. p \in dropped' => reqGen[p] # gen
    BY <1>6 DEF Land, Generations
  <2>4. Generations(p)'
    BY <1>6, <2>3 DEF Land, Landed, Types, Generations, UnderWay, Past, Evaluated
  <2>5. QED
    BY <2>1, <2>2, <2>4
<1>7. ASSUME NEW p \in Proc, CheckLanded(p) \/ CheckWarm(p) PROVE Inv'
  <2>1. Types'
    BY <1>7 DEF CheckLanded, CheckWarm, CheckGen, Types
  <2>2. \A q \in Proc : Generations(q)'
    BY <1>7 DEF CheckLanded, CheckWarm, CheckGen, Types, Generations, UnderWay, Past, Evaluated
  <2>3. QED
    BY <2>1, <2>2
<1>8. ASSUME NEW p \in Proc, Evaluate(p) PROVE Inv'
  <2>1. Types'
    BY <1>8 DEF Evaluate, LockAlerts, Classify, Finish, Types
  <2>2. UNCHANGED <<box, gen, reqBox, reqGen, dropped, cutInto>>
    BY <1>8 DEF Evaluate, LockAlerts, Classify, Finish, TakeEdges
  <2>3. \A q \in Proc : Generations(q)'
    BY <1>8, <2>2 DEF Evaluate, LockAlerts, Classify, Finish, Types, Generations, UnderWay,
                      Past, Evaluated
  <2>4. QED
    BY <2>1, <2>3
<1>9. CASE UNCHANGED vars
  BY <1>9 DEF vars, Types, Generations, UnderWay, Past, Evaluated
<1>10. QED
  BY <1>1, <1>2, <1>3, <1>4, <1>5, <1>6, <1>7, <1>8, <1>9 DEF Next, Switch, Refresh

\* "A discarded in-flight Live tick must not evaluate" (README; live.go:35-53): however
\* switches and refreshes overlap, an answer the store dropped ends the refresh, and so
\* does a switch of the box at any time up to the end of the warm-up.
THEOREM DroppedSafe == Spec => []DroppedNeverEvaluates
<1>1. Inv => DroppedNeverEvaluates
  BY DEF Inv, Generations, UnderWay, Past, Evaluated, DroppedNeverEvaluates
<1>2. QED
  BY <1>1, InvInit, InvStep, PTL DEF Spec

\* Seen from outside, the server's store is the atomic one of SnapshotSpec: a list
\* shown is of the box watched when it landed, and nothing clears it.
THEOREM ContractKept == Spec => KeepsContract
<1>1. Init => Contract!Init
  BY DEF Init, Contract!Init
<1>2. Inv /\ [Next]_vars => [Contract!Next]_(Contract!vars)
  <2> SUFFICES ASSUME Inv, [Next]_vars PROVE [Contract!Next]_(Contract!vars)
    OBVIOUS
  <2> USE DEF Goto, store, alerts, run, refreshing, locals, history, Contract!Next, Contract!vars
  <2>1. ASSUME NEW p \in Proc, NEW a \in Airport, GetFocus(p, a) \/ PostFocus(p, a)
        PROVE  UNCHANGED Contract!vars
    BY <2>1 DEF GetFocus, PostFocus, SetFocus
  <2>2. ASSUME NEW p \in Proc, SetBBox(p) PROVE Contract!Switch \/ UNCHANGED Contract!vars
    BY <2>2 DEF SetBBox, Contract!Switch, Inv, Types
  <2>3. ASSUME NEW p \in Proc, ResetBootstrap(p) \/ BeginRefresh(p) \/ LeaveForList(p)
        PROVE  UNCHANGED Contract!vars
    BY <2>3 DEF ResetBootstrap, BeginRefresh, LeaveForList
  <2>4. ASSUME NEW p \in Proc, Land(p) PROVE [Contract!Next]_(Contract!vars)
    <3>1. CASE UNCHANGED <<snap, err>>
      BY <2>4, <3>1 DEF Land
    <3>2. CASE reqGen[p] = gen /\ err' = TRUE /\ UNCHANGED snap
      BY <2>4, <3>2 DEF Land, Contract!Fail
    <3>3. ASSUME reqGen[p] = gen, err' = FALSE, NEW F \in SUBSET Inbound(reqBox[p]),
                 snap' = [box |-> reqBox[p], on |-> F]
          PROVE  Contract!Update
      <4>1. reqBox[p] = box /\ box \in Airport
        BY <2>4, <3>3 DEF Land, Inv, Types, Generations
      <4>2. snap' \in Snap /\ snap'.box = box
        BY <3>3, <4>1 DEF Snap, Inbound
      <4>3. QED
        BY <2>4, <3>3, <4>2 DEF Land, Contract!Update
    <3>4. QED
      BY <2>4, <3>1, <3>2, <3>3 DEF Land
  <2>5. ASSUME NEW p \in Proc, CheckLanded(p) \/ CheckWarm(p) PROVE UNCHANGED Contract!vars
    BY <2>5 DEF CheckLanded, CheckWarm, CheckGen
  <2>6. ASSUME NEW p \in Proc, Evaluate(p) PROVE UNCHANGED Contract!vars
    BY <2>6 DEF Evaluate, LockAlerts, Classify, Finish
  <2>7. CASE UNCHANGED vars
    BY <2>7 DEF vars
  <2>8. QED
    BY <2>1, <2>2, <2>3, <2>4, <2>5, <2>6, <2>7 DEF Next, Switch, Refresh
<1>3. QED
  BY <1>1, <1>2, InvInit, InvStep, PTL DEF Spec, KeepsContract, Contract!Spec
-----------------------------------------------------------------------------
\* TypeOK: every switch moves the box once, so the generation never passes the number of
\* switches; those on their way to the box are counted apart.
Pending == {p \in Proc : pc[p] = "setBBox"}
Counted == IsFiniteSet(Pending) /\ gen + Cardinality(Pending) <= switches

LEMMA CountStep == TypeOK /\ Counted /\ [Next]_vars => Counted'
<1> SUFFICES ASSUME TypeOK, Counted, [Next]_vars PROVE Counted'
  OBVIOUS
<1> USE DEF Goto, store, alerts, run, refreshing, locals, history
<1>0. /\ pc \in [Proc -> {"idle", "setBBox", "reset", "begin", "refresh", "fetching",
                          "landed", "warm", "evaluate", "classify", "finish"}]
      /\ gen \in Nat /\ switches \in Nat /\ IsFiniteSet(Pending)
      /\ Cardinality(Pending) \in Nat /\ gen + Cardinality(Pending) <= switches
  BY FocusAssumption, FS_CardinalityType DEF FocusAssumption, TypeOK, Counted
<1>1. ASSUME NEW p \in Proc, NEW a \in Airport, GetFocus(p, a) \/ PostFocus(p, a)
      PROVE  Counted'
  <2>1. Pending' = Pending \cup {p} /\ p \notin Pending
    BY <1>0, <1>1 DEF GetFocus, PostFocus, SetFocus, Pending
  <2>2. gen' = gen /\ switches' = switches + 1
    BY <1>1 DEF GetFocus, PostFocus, SetFocus
  <2>3. IsFiniteSet(Pending') /\ Cardinality(Pending') = Cardinality(Pending) + 1
    BY <1>0, <2>1, FS_AddElement
  <2>4. QED
    BY <1>0, <2>2, <2>3 DEF Counted
<1>2. ASSUME NEW p \in Proc, SetBBox(p) PROVE Counted'
  <2>1. Pending' = Pending \ {p} /\ p \in Pending
    BY <1>0, <1>2 DEF SetBBox, Pending
  <2>2. gen' \in {gen, gen + 1} /\ switches' = switches
    BY <1>2 DEF SetBBox
  <2>3. IsFiniteSet(Pending') /\ Cardinality(Pending') = Cardinality(Pending) - 1
    BY <1>0, <2>1, FS_RemoveElement
  <2>4. QED
    BY <1>0, <2>2, <2>3 DEF Counted
<1>3. ASSUME Pending' = Pending, UNCHANGED <<gen, switches>> PROVE Counted'
  BY <1>3 DEF Counted
<1>4. ASSUME NEW p \in Proc, ResetBootstrap(p) PROVE Counted'
  BY <1>0, <1>3, <1>4 DEF ResetBootstrap, Pending
<1>5. ASSUME NEW p \in Proc, BeginRefresh(p) \/ LeaveForList(p) PROVE Counted'
  BY <1>0, <1>3, <1>5 DEF BeginRefresh, LeaveForList, Pending
<1>6. ASSUME NEW p \in Proc, Land(p) PROVE Counted'
  BY <1>0, <1>3, <1>6 DEF Land, Landed, Pending
<1>7. ASSUME NEW p \in Proc, CheckLanded(p) \/ CheckWarm(p) PROVE Counted'
  BY <1>0, <1>3, <1>7 DEF CheckLanded, CheckWarm, CheckGen, Pending
<1>8. ASSUME NEW p \in Proc, Evaluate(p) PROVE Counted'
  BY <1>0, <1>3, <1>8 DEF Evaluate, LockAlerts, Classify, Finish, Pending
<1>9. CASE UNCHANGED vars
  BY <1>3, <1>9 DEF vars, Pending
<1>10. QED
  BY <1>1, <1>2, <1>4, <1>5, <1>6, <1>7, <1>8, <1>9 DEF Next, Switch, Refresh

LEMMA TypeStep == TypeOK /\ Counted' /\ [Next]_vars => TypeOK'
<1> SUFFICES ASSUME TypeOK, Counted', [Next]_vars PROVE TypeOK'
  OBVIOUS
<1> USE FocusAssumption DEF FocusAssumption, Goto, store, alerts, run, refreshing, locals, history
<1>1. ASSUME NEW p \in Proc, NEW a \in Airport, GetFocus(p, a) \/ PostFocus(p, a) PROVE TypeOK'
  <2>1. PICK isPost \in BOOLEAN : SetFocus(p, a, isPost)
    BY <1>1 DEF GetFocus, PostFocus
  <2>2. focus' \in Airport /\ target' \in [Proc -> Airport] /\ switches' \in 0..MaxSwitch
    BY <2>1 DEF SetFocus, TypeOK
  <2>3. post' \in [Proc -> BOOLEAN]
    BY <2>1 DEF SetFocus, TypeOK
  <2>4. QED
    BY <2>1, <2>2, <2>3 DEF SetFocus, TypeOK
<1>2. ASSUME NEW p \in Proc, SetBBox(p) PROVE TypeOK'
  <2>1. Cardinality(Pending') \in Nat /\ gen' + Cardinality(Pending') <= switches'
    BY FS_CardinalityType DEF Counted
  <2>2. gen' \in Nat /\ switches' \in 0..MaxSwitch
    BY <1>2 DEF SetBBox, TypeOK
  <2>3. gen' \in 0..MaxSwitch
    BY <2>1, <2>2
  <2>4. cutInto' \subseteq Proc
    BY <1>2 DEF SetBBox, UnderWay, TypeOK
  <2>5. QED
    BY <1>2, <2>3, <2>4 DEF SetBBox, TypeOK
<1>3. ASSUME NEW p \in Proc, ResetBootstrap(p) PROVE TypeOK'
  BY <1>3 DEF ResetBootstrap, TypeOK
<1>4. ASSUME NEW p \in Proc, BeginRefresh(p) \/ LeaveForList(p) PROVE TypeOK'
  BY <1>4 DEF BeginRefresh, LeaveForList, TypeOK
<1>5. ASSUME NEW p \in Proc, Land(p) PROVE TypeOK'
  <2>1. snap' \in Snap \cup {NoSnap} /\ stay' \subseteq Flight
    BY <1>5 DEF Land, Snap, Inbound, TypeOK
  <2>2. err' \in BOOLEAN /\ dropped' \subseteq Proc /\ cutInto' \subseteq Proc
    BY <1>5 DEF Land, TypeOK
  <2>3. QED
    BY <1>5, <2>1, <2>2 DEF Land, Landed, TypeOK
<1>6. ASSUME NEW p \in Proc, CheckLanded(p) \/ CheckWarm(p) PROVE TypeOK'
  BY <1>6 DEF CheckLanded, CheckWarm, CheckGen, TypeOK
<1>7. ASSUME NEW p \in Proc, LockAlerts(p) PROVE TypeOK'
  BY <1>7 DEF LockAlerts, TypeOK
<1>8. ASSUME NEW p \in Proc, Classify(p) PROVE TypeOK'
  <2>1. OnApproach(snap) \subseteq Flight
    BY DEF OnApproach, Inbound
  <2>2. QED
    BY <1>8, <2>1 DEF Classify, TypeOK
<1>9. ASSUME NEW p \in Proc, Finish(p) PROVE TypeOK'
  <2>1. now[p] \subseteq Flight /\ list[p] \in Snap \cup {NoSnap}
    BY <1>9 DEF TypeOK
  <2>2. /\ base' \in Snap \cup {NoSnap}
        /\ bootstrapped' \in BOOLEAN /\ approach' \subseteq Flight
    BY <1>9, <2>1 DEF Finish, TakeEdges, TypeOK
  <2>3. [fired EXCEPT !.flights = {}] \in Fired
    BY DEF Fired, TypeOK
  <2>4. \A new \in SUBSET Flight : [flights |-> new, focus |-> focus, base |-> base] \in Fired
    BY DEF Fired, TypeOK
  <2>5. now[p] \ approach \in SUBSET Flight
    BY <2>1
  <2>6. \/ fired' = [fired EXCEPT !.flights = {}]
        \/ \E new \in SUBSET Flight : fired' = [flights |-> new, focus |-> focus, base |-> base]
    BY <1>9, <2>5 DEF Finish, TakeEdges
  <2>7. fired' \in Fired
    BY <2>3, <2>4, <2>6
  <2>8. stay' \subseteq Flight
    BY <1>9, <2>1 DEF Finish, TakeEdges, Snap, TypeOK
  <2>9. QED
    BY <1>9, <2>2, <2>8, <2>7 DEF Finish, TypeOK
<1>10. CASE UNCHANGED vars
  BY <1>10 DEF vars, TypeOK
<1>11. QED
  BY <1>1, <1>2, <1>3, <1>4, <1>5, <1>6, <1>7, <1>8, <1>9, <1>10 DEF Next, Switch, Refresh, Evaluate

LEMMA TypeInit == Init => TypeOK /\ Counted
<1> SUFFICES ASSUME Init PROVE TypeOK /\ Counted
  OBVIOUS
<1>1. fired \in Fired
  BY FocusAssumption DEF FocusAssumption, Init, Fired
<1>2. 0 \in 0..MaxSwitch
  BY FocusAssumption DEF FocusAssumption
<1>3. TypeOK
  BY <1>1, <1>2, FocusAssumption DEF FocusAssumption, Init, TypeOK
<1>4. Pending = {}
  BY DEF Init, Pending
<1>5. QED
  BY <1>3, <1>4, FS_EmptySet DEF Counted, Init

\* However many goroutines switch at once, the box moves at most once a switch, and what
\* refreshes and evaluations carry along is well formed.
THEOREM TypeCorrect == Spec => []TypeOK
BY TypeInit, CountStep, TypeStep, PTL DEF Spec
-----------------------------------------------------------------------------
\* On a run where nothing overlaps: one goroutine at a time, the box is around the focus
\* outside a switch, an evaluation holds a list of the focus airport, and the edge state
\* is that of the list it was taken from.
Switching == \E p \in Proc : pc[p] \in {"setBBox", "reset"}

Alone == \A p, q \in Proc : p # q => pc[p] = "idle" \/ pc[q] = "idle"

Placed == /\ \A p \in Proc : pc[p] = "setBBox" => target[p] = focus
          /\ (\A p \in Proc : pc[p] # "setBBox") => box = focus

Evaluating(p) ==
    /\ pc[p] = "fetching" => reqBox[p] = box /\ reqGen[p] = gen
    /\ pc[p] \in {"landed", "warm", "evaluate", "classify"} => snap # NoSnap /\ snap.box = box
    /\ pc[p] = "finish" => /\ list[p] # NoSnap /\ list[p].box = focus
                           /\ now[p] = list[p].on \cap Inbound(focus)

Based == (bootstrapped /\ ~Switching)
            => base # NoSnap /\ base.box = focus /\ approach = base.on \cap Inbound(focus)

Told == NoReplay /\ fired.flights \subseteq Inbound(fired.focus)

QuietInv == quiet => Alone /\ Placed /\ (\A p \in Proc : Evaluating(p)) /\ Based /\ Told

LEMMA QuietInit == Init => QuietInv
BY DEF Init, QuietInv, Alone, Placed, Evaluating, Based, Told, NoReplay

LEMMA QuietStep == TypeOK /\ QuietInv /\ [Next]_vars => QuietInv'
<1> SUFFICES ASSUME TypeOK, QuietInv, [Next]_vars, quiet' PROVE QuietInv'
  BY DEF QuietInv
<1>a. CASE UNCHANGED vars
  BY <1>a DEF vars, store, alerts, locals, run, history, QuietInv, Alone, Placed, Evaluating,
              Based, Switching, Told, NoReplay, Inbound, Flight
<1>b. CASE Next
  <2>1. quiet
    BY <1>b DEF Next, Switch, GetFocus, PostFocus, SetFocus, SetBBox, ResetBootstrap, Refresh,
                BeginRefresh, LeaveForList, Land, Landed, CheckLanded, CheckWarm, CheckGen,
                Evaluate, LockAlerts, Classify, Finish, run, locals
  <2>2. Alone /\ Placed /\ (\A p \in Proc : Evaluating(p)) /\ Based /\ Told
    BY <2>1 DEF QuietInv
  <2>3. PICK p \in Proc : /\ \A q \in Proc \ {p} : pc[q] = "idle"
                          /\ Switch(p) \/ Refresh(p)
    BY <1>b, <2>1 DEF Next
  <2>4. \A q \in Proc \ {p} : pc'[q] = "idle"
    BY <2>3 DEF Switch, GetFocus, PostFocus, SetFocus, SetBBox, ResetBootstrap, Refresh,
                BeginRefresh, LeaveForList, Land, CheckLanded, CheckWarm, CheckGen,
                Evaluate, LockAlerts, Classify, Finish, Goto, TypeOK
  <2>5. Alone' /\ \A q \in Proc \ {p} : Evaluating(q)'
    BY <2>4 DEF Alone, Evaluating
  <2> USE DEF Goto, store, alerts, run, refreshing, locals, history
  <2>6. pc \in [Proc -> {"idle", "setBBox", "reset", "begin", "refresh", "fetching",
                          "landed", "warm", "evaluate", "classify", "finish"}]
    BY DEF TypeOK
  <2>7. SUFFICES Placed' /\ Evaluating(p)' /\ Based' /\ Told'
    BY <2>5 DEF QuietInv
  <2>8. ASSUME NEW a \in Airport, GetFocus(p, a) \/ PostFocus(p, a)
        PROVE  Placed' /\ Evaluating(p)' /\ Based' /\ Told'
    <3>1. /\ pc' = [pc EXCEPT ![p] = "setBBox"] /\ focus' = a /\ target' = [target EXCEPT ![p] = a]
          /\ UNCHANGED fired
      BY <2>8 DEF GetFocus, PostFocus, SetFocus
    <3>2. QED
      BY <2>2, <2>4, <2>6, <3>1 DEF Placed, Evaluating, Based, Switching, Told, NoReplay, Inbound, TypeOK
  <2>9. CASE SetBBox(p)
    BY <2>2, <2>4, <2>6, <2>9 DEF SetBBox, Placed, Evaluating, Based, Switching, Told, NoReplay,
                                  Inbound
  <2>10. CASE ResetBootstrap(p)
    BY <2>2, <2>3, <2>4, <2>6, <2>10
       DEF ResetBootstrap, Placed, Evaluating, Based, Switching, Told, NoReplay, Inbound
  <2>11. CASE BeginRefresh(p)
    BY <2>2, <2>3, <2>4, <2>6, <2>11
       DEF BeginRefresh, Placed, Evaluating, Based, Switching, Told, NoReplay, Inbound
  <2>12. CASE LeaveForList(p)
    BY <2>2, <2>3, <2>4, <2>6, <2>12
       DEF LeaveForList, Placed, Evaluating, Based, Switching, Told, NoReplay, Inbound, TypeOK
  <2>13. CASE Land(p)
    <3>1. snap' # NoSnap /\ snap'.box = box
      <4>1. reqGen[p] = gen /\ reqBox[p] = box /\ box \in Airport
        BY <2>2, <2>13 DEF Land, Evaluating, TypeOK
      <4>2. PICK F \in SUBSET Inbound(reqBox[p]) : snap' = [box |-> reqBox[p], on |-> F]
        BY <2>1, <2>13, <4>1 DEF Land
      <4>3. snap' \in Snap
        BY <4>1, <4>2 DEF Snap, Inbound
      <4>4. QED
        BY <4>1, <4>2, <4>3, FocusAssumption DEF FocusAssumption
    <3>2. QED
      BY <2>2, <2>3, <2>4, <2>6, <2>13, <3>1
         DEF Land, Landed, Placed, Evaluating, Based, Switching, Told, NoReplay, Inbound
  <2>14. CASE CheckLanded(p) \/ CheckWarm(p)
    <3>1. /\ pc[p] \in {"landed", "warm"} /\ pc'[p] \in {"warm", "evaluate", "idle"}
          /\ UNCHANGED <<focus, box, snap, bootstrapped, approach, base, fired>>
      BY <2>6, <2>14 DEF CheckLanded, CheckWarm, CheckGen
    <3>2. ~Switching /\ ~Switching'
      BY <2>3, <2>4, <3>1 DEF Switching
    <3>3. Placed'
      BY <2>2, <2>3, <2>4, <3>1 DEF Placed
    <3>4. Evaluating(p)'
      BY <2>2, <3>1 DEF Evaluating
    <3>5. Based' /\ Told'
      BY <2>2, <3>1, <3>2 DEF Based, Told, NoReplay, Inbound
    <3>6. QED
      BY <3>3, <3>4, <3>5
  <2>15. CASE LockAlerts(p)
    BY <2>2, <2>3, <2>4, <2>6, <2>15
       DEF LockAlerts, Placed, Evaluating, Based, Switching, Told, NoReplay, Inbound
  <2>16. CASE Classify(p)
    <3>1. box = focus /\ snap # NoSnap /\ snap.box = box
      BY <2>2, <2>3, <2>16 DEF Classify, Placed, Evaluating
    <3>2. /\ list'[p] = snap /\ now'[p] = snap.on \cap Inbound(focus)
          /\ pc' = [pc EXCEPT ![p] = "finish"]
      BY <2>16, <3>1 DEF Classify, OnApproach, TypeOK
    <3>3. QED
      BY <2>2, <2>3, <2>4, <2>6, <2>16, <3>1, <3>2
         DEF Classify, Placed, Evaluating, Based, Switching, Told, NoReplay, Inbound
  <2>17. CASE Finish(p)
    <3>1. /\ pc[p] = "finish" /\ pc' = [pc EXCEPT ![p] = "idle"] /\ ~Switching
          /\ UNCHANGED <<focus, box, target>>
      BY <2>3, <2>17 DEF Finish, Switching
    <3>2. /\ list[p] # NoSnap /\ list[p].box = focus
          /\ now[p] = list[p].on \cap Inbound(focus)
      BY <2>2, <3>1 DEF Evaluating
    <3>3. Placed' /\ Evaluating(p)'
      BY <2>2, <2>3, <2>4, <2>6, <3>1 DEF Placed, Evaluating
    <3>4. CASE gen # evalGen[p]
      BY <2>2, <2>17, <3>1, <3>3, <3>4 DEF Finish, Based, Told, NoReplay, Inbound, TypeOK, Fired
    <3>5. ASSUME NEW new \in SUBSET now[p], TakeEdges(p, new),
                 new = {} \/ (bootstrapped /\ new = now[p] \ approach)
          PROVE  Based' /\ Told'
      <4>1. Based'
        BY <3>1, <3>2, <3>5 DEF TakeEdges, Based, Inbound
      <4>2. fired' = [flights |-> new, focus |-> focus, base |-> base]
        BY <3>5 DEF TakeEdges
      <4>3. ASSUME NEW f \in new
            PROVE  base # NoSnap /\ base.box = focus /\ f \notin base.on
        BY <2>2, <3>1, <3>2, <3>5 DEF Based
      <4>4. new \subseteq Inbound(focus)
        BY <3>2
      <4>5. QED
        BY <4>1, <4>2, <4>3, <4>4 DEF Told, NoReplay, Inbound
    <3>6. CASE gen = evalGen[p]
      BY <2>17, <3>3, <3>5, <3>6 DEF Finish
    <3>7. QED
      BY <3>3, <3>4, <3>6
  <2>18. QED
    BY <2>3, <2>8, <2>9, <2>10, <2>11, <2>12, <2>13, <2>14, <2>15, <2>16, <2>17
       DEF Switch, Refresh, Evaluate
<1>1. QED
  BY <1>a, <1>b

LEMMA QuietAlways == Spec => []QuietInv
<1>1. Init => TypeOK /\ Counted /\ QuietInv
  BY TypeInit, QuietInit
<1>2. QED
  BY <1>1, CountStep, TypeStep, QuietStep, PTL DEF Spec

\* Where no two operations overlap and fetches work, the box is around the focus airport
\* between switches, and every evaluation takes its edges from a list of that airport.
THEOREM SwitchPlaces == Spec => []QuietSwitch
<1>1. QuietInv => QuietSwitch
  BY DEF QuietInv, Placed, Evaluating, QuietSwitch, BoxFollowsFocus, FocusIsEvaluated
<1>2. QED
  BY <1>1, QuietAlways, PTL

\* Where no two operations overlap and fetches work, no switch, by share URL or POST, and
\* no order of refreshes replays a flight that the baseline showed, and each alert names
\* the airport its flight is inbound to.
THEOREM AlertsAreNews == Spec => []QuietAlerts
<1>1. QuietInv => QuietAlerts
  BY DEF QuietInv, Told, QuietAlerts
<1>2. QED
  BY <1>1, QuietAlways, PTL
-----------------------------------------------------------------------------
\* Whatever overlaps: evaluations hold alerts.mu, so what is alerted stays in the list the
\* next one reads for as long as every snapshot shows it.
Shown(s) == IF s = NoSnap THEN {} ELSE s.on

Held(p) == pc[p] \in {"classify", "finish"} => lock = p

Current(p) == pc[p] = "finish" => /\ stay \subseteq Shown(list[p])
                                  /\ stay = {} \/ now[p] = Shown(list[p]) \cap Inbound(focus)

StayInv == /\ stay \subseteq Shown(snap)
           /\ bootstrapped => stay \cap Inbound(focus) \subseteq approach
           /\ \A p \in Proc : Held(p) /\ Current(p)

LEMMA StayInit == Init => StayInv
BY DEF Init, StayInv, Held, Current

LEMMA StayStep == TypeOK /\ StayInv /\ [Next]_vars => StayInv'
<1> SUFFICES ASSUME TypeOK, StayInv, [Next]_vars PROVE StayInv'
  OBVIOUS
<1> USE DEF Goto, store, alerts, run, refreshing, locals, history
<1>0. pc \in [Proc -> {"idle", "setBBox", "reset", "begin", "refresh", "fetching",
                       "landed", "warm", "evaluate", "classify", "finish"}]
  BY DEF TypeOK
<1>1. ASSUME NEW p \in Proc, NEW a \in Airport, GetFocus(p, a) \/ PostFocus(p, a)
      PROVE  StayInv'
  BY <1>0, <1>1 DEF GetFocus, PostFocus, SetFocus, StayInv, Held, Current
<1>2. ASSUME NEW p \in Proc, NEW to \in {"idle", "reset", "begin", "refresh", "fetching",
                                         "warm", "evaluate"},
             pc' = [pc EXCEPT ![p] = to],
             UNCHANGED <<focus, snap, alerts, stay, list, now>>
      PROVE  StayInv'
  BY <1>0, <1>2 DEF StayInv, Held, Current, Shown, Inbound
<1>3. ASSUME NEW p \in Proc, SetBBox(p) \/ BeginRefresh(p) \/ LeaveForList(p) PROVE StayInv'
  BY <1>2, <1>3 DEF SetBBox, BeginRefresh, LeaveForList
<1>4. ASSUME NEW p \in Proc, CheckLanded(p) \/ CheckWarm(p) PROVE StayInv'
  BY <1>2, <1>4 DEF CheckLanded, CheckWarm, CheckGen
<1>5. ASSUME NEW p \in Proc, ResetBootstrap(p) PROVE StayInv'
  <2>1. pc' = [pc EXCEPT ![p] = IF post[p] THEN "begin" ELSE "idle"]
    BY <1>5 DEF ResetBootstrap
  <2>2. /\ ~bootstrapped' /\ UNCHANGED <<focus, snap, lock, stay, list, now>>
    BY <1>5 DEF ResetBootstrap
  <2>3. QED
    BY <1>0, <2>1, <2>2 DEF StayInv, Held, Current, Shown, Inbound
<1>6. ASSUME NEW p \in Proc, Land(p) PROVE StayInv'
  <2>1. /\ pc' = [pc EXCEPT ![p] = "landed"]
        /\ UNCHANGED <<focus, bootstrapped, approach, lock, list, now>>
    BY <1>6 DEF Land, Landed
  <2>2. stay' \subseteq stay /\ stay' \subseteq Shown(snap')
    <3>1. CASE UNCHANGED <<snap, stay>>
      BY <3>1 DEF StayInv, Shown
    <3>2. ASSUME reqGen[p] = gen, NEW F \in SUBSET Inbound(reqBox[p]),
                 snap' = [box |-> reqBox[p], on |-> F], stay' = stay \cap F
          PROVE  stay' \subseteq stay /\ stay' \subseteq Shown(snap')
      <4>1. snap' \in Snap
        BY <3>2 DEF Snap, Inbound, TypeOK
      <4>2. QED
        BY <3>2, <4>1, FocusAssumption DEF FocusAssumption, Shown
    <3>3. QED
      BY <1>6, <3>1, <3>2 DEF Land
  <2>3. QED
    BY <1>0, <2>1, <2>2 DEF StayInv, Held, Current, Shown, Inbound
<1>7. ASSUME NEW p \in Proc, LockAlerts(p) PROVE StayInv'
  <2>1. /\ pc' = [pc EXCEPT ![p] = "classify"] /\ lock = NoProc /\ lock' = p
        /\ UNCHANGED <<focus, snap, bootstrapped, approach, stay, list, now>>
    BY <1>7 DEF LockAlerts
  <2>2. \A q \in Proc : pc[q] \notin {"classify", "finish"}
    BY <2>1, FocusAssumption DEF FocusAssumption, StayInv, Held
  <2>3. QED
    BY <1>0, <2>1, <2>2 DEF StayInv, Held, Current, Shown, Inbound
<1>8. ASSUME NEW p \in Proc, Classify(p) PROVE StayInv'
  <2>1. /\ pc[p] = "classify" /\ pc' = [pc EXCEPT ![p] = "finish"]
        /\ list' = [list EXCEPT ![p] = snap] /\ now' = [now EXCEPT ![p] = OnApproach(snap)]
        /\ UNCHANGED <<focus, snap, bootstrapped, approach, lock, stay>>
    BY <1>8 DEF Classify
  <2>2. list'[p] = snap /\ now'[p] = Shown(snap) \cap Inbound(focus)
    BY <2>1 DEF TypeOK, OnApproach, Shown
  <2>3. \A q \in Proc \ {p} : pc'[q] # "finish"
    BY <1>0, <2>1 DEF StayInv, Held
  <2>4. Current(p)'
    BY <2>1, <2>2 DEF StayInv, Current, Shown, Inbound
  <2>5. \A q \in Proc : Held(q)'
    BY <1>0, <2>1 DEF StayInv, Held
  <2>6. QED
    BY <2>1, <2>3, <2>4, <2>5 DEF StayInv, Current, Shown, Inbound
<1>9. ASSUME NEW p \in Proc, Finish(p) PROVE StayInv'
  <2>1. /\ pc[p] = "finish" /\ pc' = [pc EXCEPT ![p] = "idle"]
        /\ UNCHANGED <<focus, snap>>
    BY <1>9 DEF Finish
  <2>2. \A q \in Proc : pc'[q] \notin {"classify", "finish"}
    BY <1>0, <2>1 DEF StayInv, Held
  <2>3. \A q \in Proc : Held(q)' /\ Current(q)'
    BY <2>2 DEF Held, Current
  <2>4. CASE UNCHANGED <<bootstrapped, approach, stay>>
    BY <2>1, <2>3, <2>4 DEF StayInv, Shown, Inbound
  <2>5. ASSUME NEW new, TakeEdges(p, new) PROVE StayInv'
    <3>1. stay' = (stay \cup now[p]) \cap Shown(snap) /\ approach' = now[p]
      BY <2>5 DEF TakeEdges, Shown
    <3>2. stay \cap Inbound(focus) \subseteq now[p]
      BY <2>1 DEF StayInv, Current
    <3>3. stay' \subseteq Shown(snap') /\ stay' \cap Inbound(focus)' \subseteq approach'
      BY <2>1, <3>1, <3>2 DEF Shown, Inbound
    <3>4. QED
      BY <2>3, <3>3 DEF StayInv
  <2>6. QED
    BY <1>9, <2>4, <2>5 DEF Finish
<1>10. CASE UNCHANGED vars
  BY <1>10 DEF vars, StayInv, Held, Current, Shown, Inbound
<1>11. QED
  BY <1>1, <1>3, <1>4, <1>5, <1>6, <1>7, <1>8, <1>9, <1>10 DEF Next, Switch, Refresh, Evaluate

\* However refreshes, share URLs and POSTs overlap, while the airport stays a flight shown
\* by every snapshot since it was alerted is not alerted again.
THEOREM NotTwice == Spec => OncePerStay
<1>1. TypeOK /\ StayInv /\ [Next]_vars
        => [(\E p \in Proc : pc[p] = "finish" /\ pc'[p] = "idle")
              => fired'.flights \cap stay = {}]_vars
  <2> SUFFICES ASSUME TypeOK, StayInv, Next,
                      NEW p \in Proc, pc[p] = "finish", pc'[p] = "idle"
               PROVE  fired'.flights \cap stay = {}
    OBVIOUS
  <2> USE DEF Goto, store, alerts, run, refreshing, locals, history
  <2>1. \A q \in Proc : (Switch(q) \/ Refresh(q)) /\ q # p => pc'[p] = pc[p]
    BY DEF Switch, GetFocus, PostFocus, SetFocus, SetBBox, ResetBootstrap, Refresh,
           BeginRefresh, LeaveForList, Land, CheckLanded, CheckWarm, CheckGen, Evaluate,
           LockAlerts, Classify, Finish, TypeOK
  <2>2. Switch(p) \/ Refresh(p)
    BY <2>1 DEF Next
  <2>3. Finish(p)
    BY <2>2 DEF Switch, GetFocus, PostFocus, SetFocus, SetBBox, ResetBootstrap, Refresh,
                BeginRefresh, LeaveForList, Land, CheckLanded, CheckWarm, CheckGen,
                Evaluate, LockAlerts, Classify
  <2>4. CASE fired' = [fired EXCEPT !.flights = {}]
    BY <2>4 DEF TypeOK, Fired
  <2>5. CASE TakeEdges(p, {})
    BY <2>5 DEF TakeEdges
  <2>6. CASE bootstrapped /\ TakeEdges(p, now[p] \ approach)
    <3>1. fired'.flights = now[p] \ approach
      BY <2>6 DEF TakeEdges
    <3>2. now[p] \cap stay \subseteq approach
      BY <2>6 DEF StayInv, Current
    <3>3. QED
      BY <3>1, <3>2
  <2>7. QED
    BY <2>3, <2>4, <2>5, <2>6 DEF Finish
<1>2. Init => TypeOK /\ Counted /\ StayInv
  BY TypeInit, StayInit
<1>3. QED
  BY <1>1, <1>2, CountStep, TypeStep, StayStep, PTL DEF Spec, OncePerStay
=============================================================================
