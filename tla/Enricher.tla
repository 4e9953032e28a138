------------------------------ MODULE Enricher ------------------------------
(* Aircraft and route look-ups with a cache (internal/meta/enrich.go,        *)
(* adsbdb.go).  A look-up misses the cache under the lock, asks the fetcher  *)
(* host and then the public providers with no lock held, and stores what it  *)
(* has.  Look-ups are begun by visitors who open a flight's details and by   *)
(* the workers of WarmRoutes, which may outlive the warm-up's budget.        *)
(* A Detail is the set of its fields that are not empty.                     *)
EXTENDS Integers, FiniteSets

CONSTANTS Key,      \* identities icao24|CALLSIGN
          Visitor,  \* requests for /api/aircraft/{icao24}
          Warm,     \* refreshes that can be inside WarmRoutes
          Truth,    \* Truth[k]: the fields some provider has of k
          Slots,    \* capacity of WarmRoutes' semaphore
          Budget,   \* clock ticks a warm-up waits
          TTL       \* cacheTTL in clock ticks

Aircraft == {"reg", "type"}
Detail == SUBSET (Aircraft \cup {"route"})

ASSUME EnricherAssumption ==
    /\ Visitor \cap Warm = {}
    /\ Truth \in [Key -> Detail]
    /\ Slots \in Nat \ {0} /\ Budget \in Nat \ {0} /\ TTL \in Nat \ {0}

\* A goroutine inside Enrich, or about to be: whose it is, and which key it is for.
Task == [by : Visitor \cup Warm, key : Key]

Miss == [age |-> TTL, data |-> {}]   \* no entry, told from an expired one by no reader

VARIABLES cache,    \* cache[k]: the time since entry.at, up to TTL, and entry.data
          pc,       \* where each task is
          out,      \* the local out of Enrich
          todo,     \* items WarmRoutes' loop has still to look at
          left,     \* ticks until the warm-up's context is done
          healthy,  \* no call to a provider fails any more
          behind    \* history: tasks that missed before the current entry was stored

vars == <<cache, pc, out, todo, left, healthy, behind>>

Asking == {"upstream", "adsbdb", "hexdb", "store"}   \* past the miss

\* The workers of w that have a slot.
Holding(w) == {t \in Task : t.by = w /\ pc[t] \in {"lookup"} \cup Asking}

TypeOK == /\ cache \in [Key -> [age : 0..TTL, data : Detail]]
          /\ pc \in [Task -> {"idle", "queued", "lookup"} \cup Asking]
          /\ out \in [Task -> Detail]
          /\ todo \in [Warm -> SUBSET Key]
          /\ left \in [Warm -> 0..Budget]
          /\ healthy \in BOOLEAN
          /\ behind \subseteq Task
          /\ \A w \in Warm : Cardinality(Holding(w)) <= Slots

Init == /\ cache = [k \in Key |-> Miss]
        /\ pc = [t \in Task |-> "idle"]
        /\ out = [t \in Task |-> {}]
        /\ todo = [w \in Warm |-> {}] /\ left = [w \in Warm |-> 0]
        /\ healthy = FALSE
        /\ behind = {}

\* time.Since(ent.at) < cacheTTL
Fresh(k) == cache[k].age < TTL

\* CachedRoute: what boards, filters and alerts know of k's route.
CachedRoute(k) == Fresh(k) /\ "route" \in cache[k].data

\* What comes of asking a provider for fields f: it makes one call for the aircraft and
\* one for the route, and each may fail.
Answer(f) == IF healthy THEN {f} ELSE {f, f \cap Aircraft, f \ Aircraft, {}}

Goto(t, place) == pc' = [pc EXCEPT ![t] = place]

(* The steps of Enrich. *)

\* Mutant: the cache is not looked at.
Lookup_Always(t) == /\ pc[t] = "lookup"
                    /\ Goto(t, "upstream")
                    /\ UNCHANGED <<cache, out, todo, left, healthy, behind>>

\* The critical section at the start: a hit returns at once.
Lookup(t) == /\ pc[t] = "lookup"
             /\ Goto(t, IF Fresh(t.key) THEN "idle" ELSE "upstream")
             /\ UNCHANGED <<cache, out, todo, left, healthy, behind>>

\* The fetcher host's /api/meta; a failure, and a host without one, leave out empty.
\* The public providers are asked next unless the aircraft is complete.
AskUpstream(t) ==
    /\ pc[t] = "upstream"
    /\ \E d \in Answer(Truth[t.key]) :
         /\ out' = [out EXCEPT ![t] = d]
         /\ Goto(t, IF Aircraft \subseteq d THEN "store" ELSE "adsbdb")
    /\ UNCHANGED <<cache, todo, left, healthy, behind>>

\* adsbdb's aircraft and callsign calls run together, and each may fail.  Its answer
\* alone decides whether hexdb is asked, since it fills a detail of its own.
AskADSBdb(t) ==
    /\ pc[t] = "adsbdb"
    /\ \E d \in Answer(Truth[t.key]) :
         /\ out' = [out EXCEPT ![t] = @ \cup d]
         /\ Goto(t, IF Aircraft \subseteq d THEN "store" ELSE "hexdb")
    /\ UNCHANGED <<cache, todo, left, healthy, behind>>

\* hexdb fills gaps of the aircraft; it is not asked for routes.
AskHexDB(t) ==
    /\ pc[t] = "hexdb"
    /\ \E d \in Answer(Truth[t.key] \cap Aircraft) : out' = [out EXCEPT ![t] = @ \cup d]
    /\ Goto(t, "store")
    /\ UNCHANGED <<cache, todo, left, healthy, behind>>

\* The critical section at the end: whatever is there is overwritten.  An empty answer
\* is not stored.
Store(t) ==
    /\ pc[t] = "store"
    /\ IF out[t] = {}
       THEN behind' = behind \ {t} /\ UNCHANGED cache
       ELSE /\ cache' = [cache EXCEPT ![t.key] = [age |-> 0, data |-> out[t]]]
            /\ behind' = (behind \ {t})
                           \cup {u \in Task \ {t} : u.key = t.key /\ pc[u] \in Asking}
    /\ Goto(t, "idle")
    /\ out' = [out EXCEPT ![t] = {}]
    /\ UNCHANGED <<todo, left, healthy>>

Enrich(t) == Lookup(t) \/ AskUpstream(t) \/ AskADSBdb(t) \/ AskHexDB(t) \/ Store(t)

(* Who calls it. *)

\* handleAircraftDetail.
Visit(t) == /\ t.by \in Visitor
            /\ \A u \in Task : u.by = t.by => pc[u] = "idle"
            /\ Goto(t, "lookup")
            /\ UNCHANGED <<cache, out, todo, left, healthy, behind>>

\* WarmRoutes after a refresh whose snapshot lists the identities in items.
WarmRoutes(w, items) ==
    /\ left[w] = 0 /\ items # {}
    /\ \A t \in Task : t.by = w => pc[t] = "idle"   \* a bound: no two calls under one name
    /\ todo' = [todo EXCEPT ![w] = items]
    /\ left' = [left EXCEPT ![w] = Budget]
    /\ UNCHANGED <<cache, pc, out, healthy, behind>>

\* Mutant: an identity that is cached at all is skipped, expired or not.
Skips_Expired(k) == cache[k].data # {}

\* cachedIdentity
Skips(k) == Fresh(k)

\* One turn of the loop.  It does not look at the context: it goes on when the budget
\* is spent, and its goroutines then find out.
Launch(t) == /\ t.by \in Warm /\ t.key \in todo[t.by]
             /\ todo' = [todo EXCEPT ![t.by] = @ \ {t.key}]
             /\ Goto(t, IF Skips(t.key) THEN pc[t] ELSE "queued")
             /\ UNCHANGED <<cache, out, left, healthy, behind>>

\* Mutant: one worker too many gets a slot.
Start_OffByOne(t) == /\ t.by \in Warm /\ pc[t] = "queued"
                     /\ Cardinality(Holding(t.by)) <= Slots
                     /\ left[t.by] > 0
                     /\ Goto(t, "lookup")
                     /\ UNCHANGED <<cache, out, todo, left, healthy, behind>>

\* The worker has a slot and the context is not done.
Start(t) == /\ t.by \in Warm /\ pc[t] = "queued"
            /\ Cardinality(Holding(t.by)) < Slots
            /\ left[t.by] > 0
            /\ Goto(t, "lookup")
            /\ UNCHANGED <<cache, out, todo, left, healthy, behind>>

\* The context is done: whether or not it has a slot, it leaves.
GiveUp(t) == /\ t.by \in Warm /\ pc[t] = "queued"
             /\ left[t.by] = 0
             /\ Goto(t, "idle")
             /\ UNCHANGED <<cache, out, todo, left, healthy, behind>>

\* All workers have finished in time: the context is cancelled.
WarmDone(w) == /\ left[w] > 0 /\ todo[w] = {}
               /\ \A t \in Task : t.by = w => pc[t] = "idle"
               /\ left' = [left EXCEPT ![w] = 0]
               /\ UNCHANGED <<cache, pc, out, todo, healthy, behind>>

Tick == /\ cache' = [k \in Key |-> [cache[k] EXCEPT !.age = IF @ < TTL THEN @ + 1 ELSE @]]
        /\ left' = [w \in Warm |-> IF left[w] > 0 THEN left[w] - 1 ELSE 0]
        /\ UNCHANGED <<pc, out, todo, healthy, behind>>

\* From here on every provider answers.
Recover == /\ ~healthy
           /\ healthy' = TRUE
           /\ UNCHANGED <<cache, pc, out, todo, left, behind>>

Next == \/ Tick \/ Recover
        \/ \E t \in Task : Enrich(t) \/ Visit(t) \/ Launch(t) \/ Start(t) \/ GiveUp(t)
        \/ \E w \in Warm : WarmDone(w) \/ \E items \in SUBSET Key : WarmRoutes(w, items)

Workers == {t \in Task : t.by \in Warm}
SlotFree(w) == left[w] > 0 /\ Cardinality(Holding(w)) < Slots

\* Time passes and calls end (8 s and 4 s timeouts).  Live keeps refreshing, with each
\* identity on its list again and again; not always does the loop get to it, or its
\* worker to a slot, only when the budget is spent or the slots are taken.
Fairness == /\ WF_vars(Tick)
            /\ \A t \in Task : WF_vars(Enrich(t))
            /\ \A t \in Workers : /\ WF_vars(Launch(t)) /\ WF_vars(GiveUp(t))
                                  /\ SF_vars(Launch(t) /\ SlotFree(t.by)) /\ SF_vars(Start(t))
            /\ \A w \in Warm : SF_vars(WarmRoutes(w, Key)) /\ WF_vars(WarmDone(w))

Spec == Init /\ [][Next]_vars /\ Fairness
-----------------------------------------------------------------------------
\* An answer replaces an entry that has not expired only if its look-up had begun before
\* that entry was stored (enrich.go:104-110, 127-131): overlapping misses are the one way
\* for a route that is known to be overwritten by an answer without it.
FreshIsKept ==
    [][\A t \in Task : Store(t) /\ out[t] # {} /\ Fresh(t.key) => t \in behind]_vars

\* Whatever failed, overlapped or was left over before: once providers answer, Live
\* traffic whose route some provider knows keeps getting its route (CachedRoute).
RouteArrives ==
    \A k \in Key : "route" \in Truth[k] => (healthy ~> CachedRoute(k))
=============================================================================
