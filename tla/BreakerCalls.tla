---------------------------- MODULE BreakerCalls ----------------------------
(* The breaker under concurrent refreshes.  refreshOpenSky calls Allow, then *)
(* talks to OpenSky with no lock held, then reports Success, Failure, or     *)
(* nothing at all when SetBBox made its answer obsolete (cache.go).          *)
EXTENDS Breaker, FiniteSets

CONSTANT Caller         \* goroutines that can be inside refreshOpenSky

ASSUME CallerAssumption == IsFiniteSet(Caller) /\ Caller # {}

VARIABLES fetching,     \* callers between Allow() = TRUE and their report
          counted,      \* history: those admitted since the last opening or Success
          spent,        \* history: requests let through since then, discards apart
          probing       \* history: callers in flight that a tripped circuit let through

history == <<counted, spent, probing>>
vars == <<breakerVars, fetching, history>>

TypeOK == /\ BreakerTypeOK
          /\ fetching \subseteq Caller
          /\ counted \subseteq fetching
          /\ spent \in Nat
          /\ probing \subseteq fetching

Init == /\ NewBreaker
        /\ fetching = {}
        /\ counted = {}
        /\ spent = 0
        /\ probing = {}

\* The circuit has tripped and no try has reported on it yet.
HalfOpen == openUntil = 0 \/ probing # {}

Admit(c) == /\ c \notin fetching
            /\ Allow
            /\ fetching' = fetching \cup {c}
            /\ counted' = counted \cup {c}
            /\ spent' = spent + 1
            /\ probing' = IF HalfOpen THEN probing \cup {c} ELSE probing

TurnAway(c) == /\ c \notin fetching
               /\ Refuse
               /\ UNCHANGED <<fetching, history>>

ReportSuccess(c) == /\ c \in fetching
                    /\ Success
                    /\ fetching' = fetching \ {c}
                    /\ counted' = {}
                    /\ spent' = 0
                    /\ probing' = {}

ReportFailure(c) ==
    /\ c \in fetching
    /\ Failure
    /\ fetching' = fetching \ {c}
    /\ probing' = probing \ {c}
    /\ IF failures' = 0          \* this failure opened the circuit
       THEN counted' = {} /\ spent' = 0
       ELSE counted' = counted \ {c} /\ UNCHANGED spent

\* gen != s.bboxGen: neither Success nor Failure is called.
ReportNothing(c) == /\ c \in fetching
                    /\ fetching' = fetching \ {c}
                    /\ counted' = counted \ {c}
                    /\ spent' = IF c \in counted THEN spent - 1 ELSE spent
                    /\ probing' = probing \ {c}
                    /\ UNCHANGED breakerVars

Tick == Elapse /\ UNCHANGED <<fetching, history>>

Next == \/ Tick
        \/ \E c \in Caller : \/ Admit(c)
                             \/ TurnAway(c)
                             \/ ReportSuccess(c)
                             \/ ReportFailure(c)
                             \/ ReportNothing(c)

\* Time passes, and every request ends: the OpenSky client has a timeout.
Fairness == /\ WF_vars(Tick)
            /\ \A c \in Caller :
                 WF_vars(ReportSuccess(c) \/ ReportFailure(c) \/ ReportNothing(c))

Spec == Init /\ [][Next]_vars /\ Fairness
-----------------------------------------------------------------------------
\* An outage costs OpenSky a bounded number of requests: between two openings,
\* with no success in between, the breaker lets through at most the failures
\* that fit under the threshold plus one request per concurrent caller, whatever
\* the order in which late reports of earlier requests arrive.
OutageBudget == spent <= (Threshold - 1) + Cardinality(Caller)

\* A tripped circuit never stays tripped for good.  Late failures of requests
\* admitted before the opening may restart the cooldown, but a refused call must
\* not, so however often callers knock, the cooldown runs out.
TripIsTemporary == []<>(~Open)

\* "then one half-open retry" (README, operations table; breaker.go:41): while
\* the first try after the cooldown is in flight, no other request is let through.
OneHalfOpenTry == Cardinality(probing) <= 1
=============================================================================
