--------------------------- MODULE Fetcher_proofs ---------------------------
(* For every set of boxes and of refreshing goroutines, every threshold and   *)
(* every bound: the store only ever shows traffic of the box watched when it  *)
(* was stored, and it implements SnapshotSpec.  A fetcher, whatever the UI    *)
(* hosts and their requests, is such a store, and a request that keeps its    *)
(* box until FetchOpenSky reads it is answered with that box's traffic.       *)
EXTENDS Fetcher, TLAPS

\* What a request in flight carries.  If its generation is the store's, so is its
\* box: box and generation are read together, every change of the box raises the
\* generation, and generations never come back.
InFlight ==
    \A p \in Proc :
        /\ pc[p] \in {"fetching", "answered"} =>
             /\ reqGen[p] <= bboxGen
             /\ reqGen[p] = bboxGen => reqBox[p] = bbox
        /\ pc[p] = "answered" =>
             /\ answer[p] \in List \cup {Failed}
             /\ answer[p] # Failed => answer[p].box = reqBox[p]

Inv == TypeOK /\ InFlight

\* The breaker's methods keep its fields in range.
LEMMA BreakerTypes ==
    ASSUME BreakerTypeOK, Allow \/ Refuse \/ Success \/ Failure \/ Elapse
    PROVE  BreakerTypeOK'
BY BreakerAssumption DEF BreakerAssumption, BreakerTypeOK, Allow, Refuse, Success, Failure, Elapse,
                         Open, Zero, breakerVars

LEMMA BreakerStays ==
    ASSUME BreakerTypeOK, UNCHANGED breakerVars
    PROVE  BreakerTypeOK'
BY DEF BreakerTypeOK, breakerVars, Zero

\* Type correctness: every field of the store keeps its type (cache.go:49-68).
THEOREM TypeCorrect == Spec => []TypeOK
<1>1. Init => TypeOK
  <2> SUFFICES ASSUME Init PROVE TypeOK
    OBVIOUS
  <2>1. BreakerTypeOK
    BY BreakerAssumption DEF BreakerAssumption, Init, NewBreaker, BreakerTypeOK, Zero
  <2>2. /\ pc \in [Proc -> {"idle", "refused", "allowed", "fetching", "answered"}]
        /\ reqBox \in [Proc -> Box]
        /\ reqGen \in [Proc -> Nat]
        /\ answer \in [Proc -> List \cup {NoList, Failed}]
    BY StoreAssumption DEF StoreAssumption, Init
  <2>3. QED
    BY <2>1, <2>2, StoreAssumption DEF StoreAssumption, Init, TypeOK
<1>2. TypeOK /\ [Next]_vars => TypeOK'
  <2> SUFFICES ASSUME TypeOK, [Next]_vars PROVE TypeOK'
    OBVIOUS
  <2> USE DEF TypeOK, Goto, storeVars, procVars
  <2>1. ASSUME NEW b \in Box, SetBBox(b) PROVE TypeOK'
    BY <2>1, BreakerStays DEF SetBBox, vars, breakerVars
  <2>2. ASSUME NEW p \in Proc, Allowed(p) PROVE TypeOK'
    BY <2>2, BreakerTypes DEF Allowed
  <2>3. ASSUME NEW p \in Proc, Refused(p) PROVE TypeOK'
    BY <2>3, BreakerTypes DEF Refused
  <2>4. ASSUME NEW p \in Proc, CircuitErr(p) PROVE TypeOK'
    BY <2>4, BreakerStays DEF CircuitErr
  <2>5. ASSUME NEW p \in Proc, ReadBox(p) PROVE TypeOK'
    BY <2>5, BreakerStays DEF ReadBox
  <2>6. ASSUME NEW p \in Proc, Answer(p) PROVE TypeOK'
    <3>1. [box |-> reqBox[p], at |-> clock + 1] \in List
      BY DEF List
    <3>2. QED
      BY <2>6, <3>1, BreakerStays DEF Answer
  <2>7. ASSUME NEW p \in Proc, Land(p) PROVE TypeOK'
    <3>1. BreakerTypeOK'
      BY <2>7, BreakerTypes, BreakerStays DEF Land, Discard, LandError, LandList
    <3>2. CASE Discard(p)
      BY <2>7, <3>1, <3>2 DEF Land, Discard
    <3>3. CASE LandError(p)
      BY <2>7, <3>1, <3>3 DEF Land, LandError
    <3>4. CASE LandList(p) /\ answer[p] \in List
      BY <2>7, <3>1, <3>4 DEF Land, LandList
    <3>5. CASE LandList(p) /\ answer[p] = NoList
      BY <2>7, <3>1, <3>5 DEF Land, LandList
    <3>6. QED
      BY <2>7, <3>2, <3>3, <3>4, <3>5 DEF Land, LandList
  <2>8. CASE CooldownElapses
    BY <2>8, BreakerTypes DEF CooldownElapses
  <2>9. CASE UNCHANGED vars
    BY <2>9, BreakerStays DEF vars
  <2>10. QED
    BY <2>1, <2>2, <2>3, <2>4, <2>5, <2>6, <2>7, <2>8, <2>9 DEF Next, Refresh
<1>3. QED
  BY <1>1, <1>2, PTL DEF Spec

\* The invariant is inductive.
LEMMA InFlightStep ==
    ASSUME TypeOK, TypeOK', InFlight, [Next]_vars
    PROVE  InFlight'
<1> USE DEF TypeOK, Goto, storeVars, procVars
<1>1. ASSUME NEW b \in Box, SetBBox(b) PROVE InFlight'
  <2>1. CASE b = bbox
    BY <1>1, <2>1 DEF SetBBox, vars, InFlight
  <2>2. CASE b # bbox
    <3>1. bboxGen' = bboxGen + 1 /\ UNCHANGED procVars
      BY <1>1, <2>2 DEF SetBBox
    <3>2. QED
      BY <3>1 DEF InFlight
  <2>3. QED
    BY <2>1, <2>2
<1>2. ASSUME NEW p \in Proc, Allowed(p) \/ Refused(p) \/ CircuitErr(p) PROVE InFlight'
  BY <1>2 DEF Allowed, Refused, CircuitErr, InFlight
<1>3. ASSUME NEW p \in Proc, ReadBox(p) PROVE InFlight'
  BY <1>3 DEF ReadBox, InFlight
<1>4. ASSUME NEW p \in Proc, Answer(p) PROVE InFlight'
  <2>1. answer'[p] \in List \cup {Failed} /\ (answer'[p] # Failed => answer'[p].box = reqBox[p])
    BY <1>4, StoreAssumption DEF Answer, List, StoreAssumption
  <2>2. \A q \in Proc \ {p} : pc'[q] = pc[q] /\ answer'[q] = answer[q]
    BY <1>4 DEF Answer
  <2>3. UNCHANGED <<bbox, bboxGen, reqBox, reqGen>> /\ pc[p] = "fetching" /\ pc'[p] = "answered"
    BY <1>4 DEF Answer
  <2>4. QED
    BY <2>1, <2>2, <2>3 DEF InFlight
<1>5. ASSUME NEW p \in Proc, Land(p) PROVE InFlight'
  <2>1. UNCHANGED <<bbox, bboxGen, reqBox, reqGen, answer>>
    BY <1>5 DEF Land, Discard, LandError, LandList
  <2>2. QED
    BY <1>5, <2>1 DEF Land, InFlight
<1>6. CASE CooldownElapses
  BY <1>6 DEF CooldownElapses, InFlight
<1>7. CASE UNCHANGED vars
  BY <1>7 DEF vars, InFlight
<1>8. QED
  BY <1>1, <1>2, <1>3, <1>4, <1>5, <1>6, <1>7 DEF Next, Refresh

THEOREM InvHolds == Spec => []Inv
<1>1. Init => InFlight
  BY DEF Init, InFlight
<1>2. TypeOK /\ TypeOK' /\ InFlight /\ [Next]_vars => InFlight'
  BY InFlightStep
<1>3. QED
  BY <1>1, <1>2, TypeCorrect, PTL DEF Spec, Inv

\* The only step that changes the snapshot lands a current answer, a list of the
\* watched box.
LEMMA OnlyLandListShows ==
    ASSUME Inv, [Next]_vars
    PROVE  \/ UNCHANGED snapshot
           \/ /\ snapshot' \in List
              /\ snapshot'.box = bbox
              /\ err' = FALSE
              /\ UNCHANGED bbox
<1> USE DEF storeVars, procVars
<1>1. ASSUME NEW b \in Box, SetBBox(b) PROVE UNCHANGED snapshot
  BY <1>1 DEF SetBBox, vars
<1>2. ASSUME NEW p \in Proc, Refresh(p), ~Land(p) PROVE UNCHANGED snapshot
  BY <1>2 DEF Refresh, Allowed, Refused, CircuitErr, ReadBox, Answer
<1>3. ASSUME NEW p \in Proc, Land(p)
      PROVE  \/ UNCHANGED snapshot
             \/ /\ snapshot' \in List
                /\ snapshot'.box = bbox
                /\ err' = FALSE
                /\ UNCHANGED bbox
  <2>1. CASE Discard(p) \/ LandError(p)
    BY <1>3, <2>1 DEF Discard, LandError
  <2>2. CASE LandList(p)
    BY <1>3, <2>2 DEF Land, Goto, LandList, Current, Inv, InFlight
  <2>3. QED
    BY <1>3, <2>1, <2>2 DEF Land
<1>4. CASE CooldownElapses \/ UNCHANGED vars
  BY <1>4 DEF CooldownElapses, vars
<1>5. QED
  BY <1>1, <1>2, <1>3, <1>4 DEF Next

\* No refresh ever puts traffic of another box over the watched one, however many
\* refreshes and switches overlap (refreshOpenSky, refreshUpstream, SetBBox).
THEOREM CommitSafe == Spec => CommitIsForWatchedBox
<1>1. Inv /\ [Next]_vars => [snapshot' # snapshot => snapshot'.box = bbox]_vars
  BY OnlyLandListShows
<1>2. QED
  BY <1>1, InvHolds, PTL DEF Spec, CommitIsForWatchedBox

\* Only Failure strikes.
LEMMA OthersDoNotStrike ==
    ASSUME BreakerTypeOK, Allow \/ Refuse \/ Success \/ Elapse \/ UNCHANGED breakerVars
    PROVE  ~Strike
BY BreakerAssumption DEF BreakerAssumption, BreakerTypeOK, Allow, Refuse, Success, Elapse,
                         Open, Zero, breakerVars, Strike

\* A request for a box the user has left neither marks the new box's snapshot
\* stale nor counts towards opening the circuit (cache.go:275-282, fail).
THEOREM OldBoxSafe == Spec => OldBoxCannotHurt
<1> DEFINE Blamed == \E p \in Proc : pc'[p] = "idle" /\ Reports(p)
<1>1. Inv /\ [Next]_vars => [(err' /\ ~err) \/ Strike => Blamed]_vars
  <2> SUFFICES ASSUME Inv, [Next]_vars, (err' /\ ~err) \/ Strike PROVE Blamed
    OBVIOUS
  <2> USE DEF Inv, TypeOK, storeVars, procVars
  <2>1. ASSUME NEW b \in Box, SetBBox(b) PROVE FALSE
    BY <2>1, OthersDoNotStrike DEF SetBBox, vars, breakerVars
  <2>2. ASSUME NEW p \in Proc, Allowed(p) \/ Refused(p) \/ ReadBox(p) \/ Answer(p) PROVE FALSE
    BY <2>2, OthersDoNotStrike DEF Allowed, Refused, ReadBox, Answer
  <2>3. ASSUME NEW p \in Proc, CircuitErr(p) PROVE Blamed
    BY <2>3 DEF CircuitErr, Goto, Reports
  <2>4. ASSUME NEW p \in Proc, Land(p) PROVE Blamed
    <3>1. CASE Discard(p)
      BY <3>1, OthersDoNotStrike DEF Discard
    <3>2. CASE LandError(p)
      BY <2>4, <3>2 DEF LandError, Land, Goto, Current, InFlight, Reports
    <3>3. CASE LandList(p)
      BY <3>3, OthersDoNotStrike DEF LandList
    <3>4. QED
      BY <2>4, <3>1, <3>2, <3>3 DEF Land
  <2>5. CASE CooldownElapses \/ UNCHANGED vars
    BY <2>5, OthersDoNotStrike DEF CooldownElapses, vars, breakerVars
  <2>6. QED
    BY <2>1, <2>2, <2>3, <2>4, <2>5 DEF Next, Refresh
<1>2. QED
  BY <1>1, InvHolds, PTL DEF Spec, OldBoxCannotHurt

\* Store implements SnapshotSpec: every step is a Switch, an Update with traffic of
\* the watched box, a Fail, or invisible to readers.
THEOREM StoreImplementsSnapshot == Spec => ImplementsSnapshot
<1>1. Init => Abstract!Init
  BY DEF Init, Abstract!Init
<1>2. Inv /\ [Next]_vars => [Abstract!Next]_(Abstract!vars)
  <2> SUFFICES ASSUME Inv, [Next]_vars PROVE [Abstract!Next]_(Abstract!vars)
    OBVIOUS
  <2> USE DEF Abstract!Next, Abstract!vars, storeVars, procVars
  <2>1. ASSUME NEW b \in Box, SetBBox(b) PROVE [Abstract!Next]_(Abstract!vars)
    BY <2>1 DEF SetBBox, vars, Abstract!Switch
  <2>2. ASSUME NEW p \in Proc, Allowed(p) \/ Refused(p) \/ ReadBox(p) \/ Answer(p)
        PROVE  UNCHANGED Abstract!vars
    BY <2>2 DEF Allowed, Refused, ReadBox, Answer
  <2>3. ASSUME NEW p \in Proc, CircuitErr(p) PROVE Abstract!Fail
    BY <2>3 DEF CircuitErr, Abstract!Fail
  <2>4. ASSUME NEW p \in Proc, Land(p) PROVE [Abstract!Next]_(Abstract!vars)
    <3>1. CASE Discard(p)
      BY <3>1 DEF Discard
    <3>2. CASE LandError(p)
      BY <3>2 DEF LandError, Abstract!Fail
    <3>3. CASE LandList(p)
      BY <2>4, <3>3 DEF Land, Goto, LandList, Current, Inv, InFlight, Abstract!Update
    <3>4. QED
      BY <2>4, <3>1, <3>2, <3>3 DEF Land
  <2>5. CASE CooldownElapses \/ UNCHANGED vars
    BY <2>5 DEF CooldownElapses, vars
  <2>6. QED
    BY <2>1, <2>2, <2>3, <2>4, <2>5 DEF Next, Refresh
<1>3. QED
  BY <1>1, <1>2, InvHolds, PTL DEF Spec, ImplementsSnapshot, Abstract!Spec
-----------------------------------------------------------------------------
LEMMA WantIsBox == ASSUME NEW p \in Request PROVE Want(p) \in Box /\ Owner[p] \in UI
BY FetcherAssumption DEF FetcherAssumption, Want, Request

\* Handlers add nothing to the store: each of their steps is one of its own steps or
\* leaves it alone (server.go:411-443).
THEOREM FetcherIsStore == FetcherSpec => Spec
<1>1. FetcherInit => Init
  BY DEF FetcherInit
<1>2. [FetcherNext]_fetcherVars => [Next]_vars
  <2>1. ASSUME NEW p \in Request, HandleFetch(p) \/ FetchOpenSky(p) \/ Respond(p)
        PROVE  [Next]_vars
    BY <2>1, WantIsBox, FetcherAssumption
       DEF FetcherAssumption, HandleFetch, FetchOpenSky, Respond, Next
  <2>2. QED
    BY <2>1 DEF FetcherNext, fetcherVars, OwnRefresh, OwnSwitch, Next
<1>3. QED
  BY <1>1, <1>2, PTL DEF FetcherSpec, Spec

\* The types of the handlers' own fields.
HandlerTypes == /\ stage \in [Request -> {"waiting", "boxed", "fetched"}]
                /\ body \in [Request -> List \cup {NoList, Failed}]
                /\ shown \in [UI -> List \cup {NoList}]
                /\ overtaken \subseteq Request

\* Where a handler stands.  Outside FetchOpenSky its goroutine is idle; before the box
\* is read the store's box is still the caller's, afterwards the request's own copy
\* is; and the list it returns is of that copy.
Standing(p) ==
    /\ stage[p] # "boxed" => pc[p] = "idle"
    /\ (stage[p] = "boxed" /\ p \notin overtaken) =>
         /\ pc[p] \in {"idle", "allowed"} => bbox = Want(p)
         /\ pc[p] \in {"fetching", "answered"} => reqBox[p] = Want(p)
    /\ (stage[p] = "fetched" /\ p \notin overtaken /\ body[p] # Failed) =>
         /\ body[p] # NoList
         /\ body[p].box = Want(p)

HandlerInv == HandlerTypes /\ \A p \in Request : Standing(p)

\* A refresh of one goroutine moves no other, and no box.
LEMMA RefreshIsLocal ==
    ASSUME NEW p \in Proc, Refresh(p), TypeOK
    PROVE  /\ bbox' = bbox
           /\ \A q \in Proc \ {p} : pc'[q] = pc[q] /\ reqBox'[q] = reqBox[q]
BY DEF TypeOK, Refresh, Allowed, Refused, CircuitErr, ReadBox, Answer, Land, Discard, LandError,
       LandList, Goto, storeVars, procVars

\* A change of the box overtakes every handler that has not read the caller's.
LEMMA SwitchOvertakes ==
    ASSUME NEW b \in Box, SetBBox(b), NEW q \in Request, Standing(q), TypeOK,
           UNCHANGED <<stage[q], body[q]>>,
           overtaken' \cap {q} = (overtaken \cup Overtaken(b)) \cap {q}
    PROVE  Standing(q)'
<1>1. bbox' = b /\ UNCHANGED <<pc, reqBox>>
  BY DEF SetBBox, vars, storeVars, procVars
<1>2. q \in overtaken' <=> q \in overtaken \cup Overtaken(b)
  OBVIOUS
<1>3. QED
  BY <1>1, <1>2 DEF Standing, Overtaken, Want

\* HandlerInv is inductive.
LEMMA HandlerStep ==
    ASSUME Inv, Inv', HandlerInv, [FetcherNext]_fetcherVars
    PROVE  HandlerInv'
<1> USE DEF Inv, HandlerInv, HandlerTypes, Stage
<1>1. ASSUME NEW p \in Request, HandleFetch(p) PROVE HandlerInv'
  <2>1. HandlerTypes'
    BY <1>1 DEF HandleFetch, Overtaken
  <2>2. Standing(p)'
    <3>1. bbox' = Want(p) /\ pc' = pc /\ pc[p] = "idle" /\ stage'[p] = "boxed"
      BY <1>1 DEF HandleFetch, SetBBox, vars, storeVars, procVars, Standing
    <3>2. QED
      BY <3>1 DEF Standing, Want
  <2>3. ASSUME NEW q \in Request, q # p PROVE Standing(q)'
    <3>1. UNCHANGED <<stage[q], body[q]>>
      BY <1>1, <2>3 DEF HandleFetch
    <3>2. overtaken' \cap {q} = (overtaken \cup Overtaken(Want(p))) \cap {q}
      BY <1>1, <2>3 DEF HandleFetch
    <3>3. QED
      BY <1>1, <3>1, <3>2, SwitchOvertakes, WantIsBox DEF HandleFetch
  <2>4. QED
    BY <2>1, <2>2, <2>3
<1>2. ASSUME NEW p \in Request, FetchOpenSky(p) PROVE HandlerInv'
  <2> USE FetcherAssumption DEF FetcherAssumption
  <2>1. p \in Proc \ Upstream /\ Refresh(p) /\ stage[p] = "boxed" /\ UNCHANGED <<shown, overtaken>>
    BY <1>2 DEF FetchOpenSky
  <2>2. HandlerTypes'
    BY <1>2 DEF FetchOpenSky, Returned, TypeOK
  <2>3. ASSUME NEW q \in Request, q # p PROVE Standing(q)'
    <3>1. UNCHANGED <<stage[q], body[q]>>
      BY <1>2, <2>3 DEF FetchOpenSky
    <3>2. UNCHANGED <<bbox, pc[q], reqBox[q]>>
      BY <2>1, <2>3, RefreshIsLocal
    <3>3. QED
      BY <2>1, <3>1, <3>2 DEF Standing, Want
  <2>4. Standing(p)'
    <3>1. CASE Allowed(p) \/ Refused(p) \/ Answer(p)
      BY <1>2, <2>1, <3>1
         DEF Allowed, Refused, Answer, FetchOpenSky, Standing, Want, TypeOK, Goto, storeVars
    <3>2. CASE ReadBox(p)
      BY <1>2, <2>1, <3>2 DEF ReadBox, FetchOpenSky, Standing, Want, TypeOK, Goto, storeVars
    <3>3. CASE CircuitErr(p)
      BY <1>2, <2>1, <3>3 DEF CircuitErr, FetchOpenSky, Returned, Standing, Want, TypeOK, Goto
    <3>4. CASE Land(p)
      <4>1. pc[p] = "answered" /\ pc'[p] = "idle" /\ stage'[p] = "fetched" /\ body'[p] = answer[p]
        BY <1>2, <3>4 DEF Land, Goto, TypeOK, FetchOpenSky, Returned
      <4>2. p \notin overtaken /\ answer[p] # Failed =>
              answer[p] \in List /\ answer[p].box = Want(p)
        BY <2>1, <4>1 DEF Standing, InFlight
      <4>3. QED
        BY <2>1, <4>1, <4>2, StoreAssumption DEF Standing, Want, StoreAssumption
    <3>5. QED
      BY <2>1, <3>1, <3>2, <3>3, <3>4 DEF Refresh
  <2>5. QED
    BY <2>2, <2>3, <2>4
<1>3. ASSUME NEW p \in Request, Respond(p) PROVE HandlerInv'
  <2>1. HandlerTypes'
    <3>1. shown' \in [UI -> List \cup {NoList}]
      BY <1>3, WantIsBox DEF Respond
    <3>2. QED
      BY <1>3, <3>1 DEF Respond
  <2>2. UNCHANGED <<pc, bbox, reqBox>>
    BY <1>3 DEF Respond, vars, storeVars, procVars
  <2>3. ASSUME NEW q \in Request PROVE Standing(q)'
    BY <1>3, <2>2 DEF Respond, Standing, Want
  <2>4. QED
    BY <2>1, <2>3
<1>4. ASSUME NEW p \in Proc \ Request, OwnRefresh(p) PROVE HandlerInv'
  <2>1. UNCHANGED handlerVars /\ Refresh(p)
    BY <1>4 DEF OwnRefresh
  <2>2. \A q \in Request : q \in Proc /\ q # p
    BY FetcherAssumption DEF FetcherAssumption
  <2>3. \A q \in Request : UNCHANGED <<bbox, pc[q], reqBox[q]>>
    BY <2>1, <2>2, RefreshIsLocal
  <2>4. QED
    BY <2>1, <2>3 DEF handlerVars, Standing, Want
<1>5. CASE OwnSwitch
  <2>1. PICK b \in Box : SetBBox(b)
    BY <1>5 DEF OwnSwitch
  <2>2. bbox' = b
    BY <2>1 DEF SetBBox, vars, storeVars
  <2>3. HandlerTypes'
    BY <1>5 DEF OwnSwitch, Overtaken
  <2>4. ASSUME NEW q \in Request PROVE Standing(q)'
    BY <1>5, <2>1, <2>2, SwitchOvertakes DEF OwnSwitch
  <2>5. QED
    BY <2>3, <2>4
<1>6. CASE CooldownElapses /\ UNCHANGED handlerVars
  BY <1>6 DEF CooldownElapses, storeVars, procVars, handlerVars, Standing, Want
<1>7. CASE UNCHANGED fetcherVars
  BY <1>7 DEF fetcherVars, handlerVars, vars, storeVars, procVars, Standing, Want
<1>8. QED
  BY <1>1, <1>2, <1>3, <1>4, <1>5, <1>6, <1>7 DEF FetcherNext

\* The invariants of the store and of the handlers hold together.
THEOREM FetcherInvHolds == FetcherSpec => [](Inv /\ HandlerInv)
<1>1. FetcherInit => HandlerInv
  <2> SUFFICES ASSUME FetcherInit PROVE HandlerInv
    OBVIOUS
  <2>1. HandlerTypes
    BY DEF FetcherInit, HandlerTypes
  <2>2. \A p \in Request : Standing(p)
    BY FetcherAssumption DEF FetcherAssumption, FetcherInit, Init, Standing
  <2>3. QED
    BY <2>1, <2>2 DEF HandlerInv
<1>2. Inv /\ Inv' /\ HandlerInv /\ [FetcherNext]_fetcherVars => HandlerInv'
  BY HandlerStep
<1>3. QED
  BY <1>1, <1>2, FetcherIsStore, InvHolds, PTL DEF FetcherSpec

\* Type correctness of the fetcher, its handlers and the store under them.
THEOREM FetcherTypeCorrect == FetcherSpec => []FetcherTypeOK
<1>1. Inv /\ HandlerInv => FetcherTypeOK
  BY DEF Inv, HandlerInv, HandlerTypes, FetcherTypeOK
<1>2. QED
  BY <1>1, FetcherInvHolds, PTL

\* "each /api/fetch HTTP body is still that caller's bbox", once the box has been read:
\* whatever other UIs ask for while OpenSky answers (cache.go:268-297, server.go:430).
THEOREM BodySafe == FetcherSpec => []BodyIsForCaller
<1>1. HandlerInv => BodyIsForCaller
  BY DEF HandlerInv, Standing, BodyIsForCaller
<1>2. QED
  BY <1>1, FetcherInvHolds, PTL

\* On a fetcher too, only traffic of the watched box enters the store, and answers for
\* a box that was replaced leave no trace.
THEOREM FetcherCommitsSafe == FetcherSpec => CommitIsForWatchedBox /\ OldBoxCannotHurt
BY FetcherIsStore, CommitSafe, OldBoxSafe
=============================================================================
