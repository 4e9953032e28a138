------------------------------- MODULE Store -------------------------------
(* cache.Store: the aircraft snapshot, the query box and its generation, and *)
(* any number of concurrent refreshes (internal/cache/cache.go).  A refresh   *)
(* reads the box and its generation under Store.mu, asks OpenSky (or the       *)
(* fetcher at UpstreamURL) with no lock held, and takes the lock again to land *)
(* its answer, which it drops if SetBBox has run in between.  One step per     *)
(* critical section, one for the answer.                                      *)
EXTENDS Breaker

CONSTANTS Box,          \* query boxes
          BootBox,      \* the box given to New
          Proc,         \* goroutines that refresh
          Upstream,     \* those that ask the fetcher at UpstreamURL (Refresh when it is
                        \* set), as against OpenSky (FetchOpenSky, Refresh when it is not)
          NoList,       \* no aircraft list: nothing fetched yet
          Failed,       \* an error instead of a list
          MaxGen,       \* bound on SetBBox calls that change the box
          MaxTime       \* bound on the lists OpenSky hands out

\* A list of aircraft is known by its box and by OpenSky's time stamp.
List == [box : Box, at : Nat]

ASSUME StoreAssumption == /\ BootBox \in Box
                          /\ Upstream \subseteq Proc
                          /\ NoList \notin List
                          /\ Failed \notin List
                          /\ MaxGen \in Nat
                          /\ MaxTime \in Nat

VARIABLES bbox,         \* Store.bbox
          bboxGen,      \* Store.bboxGen
          snapshot,     \* Store.aircraft and Store.updatedAt, assigned together
          err,          \* Store.err # nil
          pc,           \* where each refresh is
          reqBox,       \* its local bbox
          reqGen,       \* its local gen
          answer,       \* what came back: a list or Failed
          clock         \* OpenSky's clock

storeVars == <<bbox, bboxGen, snapshot, err>>
procVars == <<pc, reqBox, reqGen, answer>>
vars == <<breakerVars, storeVars, procVars, clock>>

TypeOK == /\ BreakerTypeOK
          /\ bbox \in Box
          /\ bboxGen \in Nat
          /\ snapshot \in List \cup {NoList}
          /\ err \in BOOLEAN
          /\ pc \in [Proc -> {"idle", "refused", "allowed", "fetching", "answered"}]
          /\ reqBox \in [Proc -> Box]
          /\ reqGen \in [Proc -> Nat]
          /\ answer \in [Proc -> List \cup {NoList, Failed}]
          /\ clock \in Nat

Init == /\ NewBreaker
        /\ bbox = BootBox
        /\ bboxGen = 0
        /\ snapshot = NoList
        /\ err = FALSE
        /\ pc = [p \in Proc |-> "idle"]
        /\ reqBox = [p \in Proc |-> BootBox]
        /\ reqGen = [p \in Proc |-> 0]
        /\ answer = [p \in Proc |-> NoList]
        /\ clock = 0

Goto(p, from, to) == pc[p] = from /\ pc' = [pc EXCEPT ![p] = to]

\* Mutant: the switch also clears the snapshot.
SetBBox_Clears(b) ==
    IF b = bbox
    THEN UNCHANGED vars
    ELSE /\ bboxGen < MaxGen
         /\ bbox' = b
         /\ bboxGen' = bboxGen + 1
         /\ snapshot' = NoList
         /\ UNCHANGED <<breakerVars, err, procVars, clock>>

\* SetBBox is a no-op for the box already watched.
SetBBox(b) ==
    IF b = bbox
    THEN UNCHANGED vars
    ELSE /\ bboxGen < MaxGen
         /\ bbox' = b
         /\ bboxGen' = bboxGen + 1
         /\ UNCHANGED <<breakerVars, snapshot, err, procVars, clock>>

\* refreshOpenSky asks the breaker first ...
Allowed(p) == /\ p \notin Upstream
              /\ Goto(p, "idle", "allowed")
              /\ Allow
              /\ UNCHANGED <<storeVars, reqBox, reqGen, answer, clock>>

Refused(p) == /\ p \notin Upstream
              /\ Goto(p, "idle", "refused")
              /\ Refuse
              /\ UNCHANGED <<storeVars, reqBox, reqGen, answer, clock>>

\* ... and a refused call reports "opensky circuit open", whatever the box is by then.
CircuitErr(p) == /\ Goto(p, "refused", "idle")
                 /\ err' = TRUE
                 /\ UNCHANGED <<breakerVars, bbox, bboxGen, snapshot,
                                reqBox, reqGen, answer, clock>>

\* Box and generation are read in one read-locked section.
ReadBox(p) == /\ Goto(p, IF p \in Upstream THEN "idle" ELSE "allowed", "fetching")
              /\ reqBox' = [reqBox EXCEPT ![p] = bbox]
              /\ reqGen' = [reqGen EXCEPT ![p] = bboxGen]
              /\ answer' = [answer EXCEPT ![p] = NoList]
              /\ UNCHANGED <<breakerVars, storeVars, clock>>

\* The far side answers: its list for the box asked for, or any kind of error.
Answer(p) ==
    /\ Goto(p, "fetching", "answered")
    /\ \/ /\ clock < MaxTime
          /\ clock' = clock + 1
          /\ answer' = [answer EXCEPT ![p] = [box |-> reqBox[p], at |-> clock']]
       \/ /\ answer' = [answer EXCEPT ![p] = Failed]
          /\ UNCHANGED clock
    /\ UNCHANGED <<breakerVars, storeVars, reqBox, reqGen>>

\* Mutant: the generation is not compared.
Current_Unchecked(p) == TRUE

Current(p) == reqGen[p] = bboxGen

Discard(p) == /\ ~Current(p)
              /\ UNCHANGED <<breakerVars, storeVars>>

\* Mutant: errors are recorded before the generation is compared.
LandError_AnyGen(p) == /\ answer[p] = Failed
                       /\ IF p \in Upstream THEN UNCHANGED breakerVars ELSE Failure
                       /\ err' = TRUE
                       /\ UNCHANGED <<bbox, bboxGen, snapshot>>

LandError(p) == /\ Current(p)
                /\ answer[p] = Failed
                /\ IF p \in Upstream THEN UNCHANGED breakerVars ELSE Failure
                /\ err' = TRUE
                /\ UNCHANGED <<bbox, bboxGen, snapshot>>

\* applyLocked with a nil error (the trails it records are module Trails).
LandList(p) == /\ Current(p)
               /\ answer[p] # Failed
               /\ IF p \in Upstream THEN UNCHANGED breakerVars ELSE Success
               /\ snapshot' = answer[p]
               /\ err' = FALSE
               /\ UNCHANGED <<bbox, bboxGen>>

\* The second critical section of a refresh, in which it returns.
Land(p) == /\ Goto(p, "answered", "idle")
           /\ Discard(p) \/ LandError(p) \/ LandList(p)
           /\ UNCHANGED <<reqBox, reqGen, answer, clock>>

CooldownElapses == Elapse /\ UNCHANGED <<storeVars, procVars, clock>>

Refresh(p) == \/ Allowed(p)
              \/ Refused(p)
              \/ CircuitErr(p)
              \/ ReadBox(p)
              \/ Answer(p)
              \/ Land(p)

Next == \/ \E b \in Box : SetBBox(b)
        \/ \E p \in Proc : Refresh(p)
        \/ CooldownElapses

Spec == Init /\ [][Next]_vars
-----------------------------------------------------------------------------
\* Whatever enters the snapshot is traffic of the box watched at that moment: a
\* refresh that left before an airport switch cannot put the old airport back,
\* not even when the box has moved away and come back in the meantime.
CommitIsForWatchedBox == [][snapshot' # snapshot => snapshot'.box = bbox]_vars

\* An error or a circuit strike is the work of the refresh that returns in that step, and
\* its request was for the box watched now: an outage seen by a discarded fetch stays
\* invisible.  (A refused call may still report the open circuit.)
Strike == failures' > failures \/ (openUntil' = Cooldown /\ openUntil # Cooldown)
Reports(p) == pc[p] = "refused" \/ (pc[p] = "answered" /\ reqBox[p] = bbox)
OldBoxCannotHurt ==
    [][(err' /\ ~err) \/ Strike
        => \E p \in Proc : pc'[p] = "idle" /\ Reports(p)]_vars

\* Store implements SnapshotSpec: with the refreshes, the generation and the
\* breaker hidden, readers see a store that only ever updates for its own box.
Abstract == INSTANCE SnapshotSpec WITH box <- bbox, shown <- snapshot, failed <- err
ImplementsSnapshot == Abstract!Spec
=============================================================================
