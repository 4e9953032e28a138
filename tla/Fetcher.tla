------------------------------ MODULE Fetcher ------------------------------
(* One fetcher host serving several UI hosts over POST /api/fetch           *)
(* (server.handleFetch around cache.Store).  A request sets the query box,   *)
(* then refreshes from OpenSky, then answers with the list it fetched itself, *)
(* even when a later box has made the fetcher's store drop it; the UI, whose   *)
(* own box has not moved, shows what it is sent (cache.refreshUpstream).       *)
EXTENDS Store

CONSTANTS UI,           \* UI hosts
          UIBox,        \* UIBox[u]: the box u watches and asks for
          Owner         \* Owner[p]: the UI whose request goroutine p serves

\* Goroutines that serve /api/fetch; the others are the fetcher's own refreshes.
Request == DOMAIN Owner

ASSUME FetcherAssumption == /\ UIBox \in [UI -> Box]
                            /\ Owner \in [Request -> UI]
                            /\ Request \subseteq Proc \ Upstream

VARIABLES stage,        \* where each handler is around FetchOpenSky
          body,         \* its list, or Failed
          shown,        \* shown[u]: the aircraft on u's map
          overtaken     \* history: handlers whose box was replaced before they read it

handlerVars == <<stage, body, shown, overtaken>>
fetcherVars == <<vars, handlerVars>>

Want(p) == UIBox[Owner[p]]

FetcherTypeOK == /\ TypeOK
                 /\ stage \in [Request -> {"waiting", "boxed", "fetched"}]
                 /\ body \in [Request -> List \cup {NoList, Failed}]
                 /\ shown \in [UI -> List \cup {NoList}]
                 /\ overtaken \subseteq Request

FetcherInit == /\ Init
               /\ stage = [p \in Request |-> "waiting"]
               /\ body = [p \in Request |-> NoList]
               /\ shown = [u \in UI |-> NoList]
               /\ overtaken = {}

Stage(p, from, to) == stage[p] = from /\ stage' = [stage EXCEPT ![p] = to]

\* Handlers that have set their box and not yet read it back, when it changes to b.
Overtaken(b) == {q \in Request : /\ stage[q] = "boxed"
                              /\ pc[q] \in {"idle", "allowed"}
                              /\ Want(q) # b}

\* Past the token and the query parameters: SetBBox, FetchOpenSky comes next.
HandleFetch(p) == /\ Stage(p, "waiting", "boxed")
                  /\ SetBBox(Want(p))
                  /\ overtaken' = (overtaken \ {p}) \cup Overtaken(Want(p))
                  /\ UNCHANGED <<body, shown>>

\* Mutant: the handler answers with store.Snapshot().
Returned_Snapshot(p) == IF pc[p] = "refused" THEN Failed ELSE snapshot

\* What FetchOpenSky returns: the list of this call, dropped from the store or not.
Returned(p) == IF pc[p] = "refused" THEN Failed ELSE answer[p]

FetchOpenSky(p) ==
    /\ Refresh(p)
    /\ IF pc'[p] = "idle"
       THEN Stage(p, "boxed", "fetched") /\ body' = [body EXCEPT ![p] = Returned(p)]
       ELSE stage[p] = "boxed" /\ UNCHANGED <<stage, body>>
    /\ UNCHANGED <<shown, overtaken>>

\* The response reaches the UI, which applies a list and keeps its own on an error.
Respond(p) == /\ Stage(p, "fetched", "waiting")
              /\ shown' = IF body[p] = Failed THEN shown
                          ELSE [shown EXCEPT ![Owner[p]] = body[p]]
              /\ UNCHANGED <<vars, body, overtaken>>

\* The fetcher is the same program: its own users may switch its box and refresh.
OwnSwitch == /\ \E b \in Box : SetBBox(b)
             /\ overtaken' = overtaken \cup Overtaken(bbox')
             /\ UNCHANGED <<stage, body, shown>>

OwnRefresh(p) == Refresh(p) /\ UNCHANGED handlerVars

FetcherNext == \/ \E p \in Request : HandleFetch(p) \/ FetchOpenSky(p) \/ Respond(p)
               \/ \E p \in Proc \ Request : OwnRefresh(p)
               \/ OwnSwitch
               \/ CooldownElapses /\ UNCHANGED handlerVars

FetcherSpec == FetcherInit /\ [][FetcherNext]_fetcherVars
-----------------------------------------------------------------------------
\* A request whose box is still in place when FetchOpenSky reads it is answered with
\* traffic of that box, however the box changes while OpenSky is being asked.
BodyIsForCaller ==
    \A p \in Request : (/\ stage[p] = "fetched"
                     /\ p \notin overtaken
                     /\ body[p] # Failed) => /\ body[p] # NoList
                                             /\ body[p].box = Want(p)

\* "each /api/fetch HTTP body is still that caller's bbox" (deploy/fetcher/README.md;
\* server.go:430-433): no UI ever shows the traffic of another UI's airport.
UIShowsOwnAirport ==
    \A u \in UI : shown[u] # NoList => shown[u].box = UIBox[u]
=============================================================================
