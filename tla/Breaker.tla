------------------------------ MODULE Breaker ------------------------------
(* The consecutive-failure circuit breaker in front of OpenSky             *)
(* (internal/opensky/breaker.go): its two fields and its methods.  Every    *)
(* method runs under Breaker.mu, so each is one step.  Modules with callers *)
(* conjoin these operators into their own actions.                          *)
EXTENDS Integers

CONSTANTS Threshold,    \* consecutive failures that open the circuit
          Cooldown      \* clock ticks the circuit stays open

\* NewBreaker replaces a threshold below 1 and a cooldown <= 0 by defaults.
ASSUME BreakerAssumption == /\ Threshold \in Nat \ {0}
                            /\ Cooldown \in Nat \ {0}

VARIABLES failures,     \* Breaker.failures
          openUntil     \* Breaker.openUntil, as its distance from time.Now()

breakerVars == <<failures, openUntil>>

Zero == -1              \* the zero time.Time: the circuit is closed

BreakerTypeOK == /\ failures \in 0..(Threshold - 1)
                 /\ openUntil \in {Zero} \cup 0..Cooldown

NewBreaker == failures = 0 /\ openUntil = Zero

\* The circuit is open while time.Now() is before openUntil.
Open == openUntil > 0

\* Allow() = TRUE: closed, or the cooldown has elapsed and openUntil is zeroed.
Allow == /\ ~Open
         /\ openUntil' = Zero
         /\ UNCHANGED failures

\* Mutant: a refused call restarts the cooldown.
Refuse_Extends == Open /\ openUntil' = Cooldown /\ UNCHANGED failures

\* Allow() = FALSE.
Refuse == Open /\ UNCHANGED breakerVars

Success == failures' = 0 /\ openUntil' = Zero

\* Mutant: the circuit opens one failure late.
Failure_OffByOne ==
    \/ /\ failures >= Threshold
       /\ openUntil' = Cooldown
       /\ failures' = 0
    \/ /\ failures < Threshold
       /\ failures' = failures + 1
       /\ UNCHANGED openUntil

\* Mutant: the count is not restarted when the circuit opens.
Failure_KeepsCount ==
    /\ failures' = failures + 1
    /\ openUntil' = IF failures + 1 >= Threshold THEN Cooldown ELSE openUntil

\* The failure that reaches the threshold opens the circuit and restarts the count.
Failure ==
    \/ /\ failures + 1 >= Threshold
       /\ openUntil' = Cooldown
       /\ failures' = 0
    \/ /\ failures + 1 < Threshold
       /\ failures' = failures + 1
       /\ UNCHANGED openUntil

\* The clock moves towards openUntil.
Elapse == /\ Open
          /\ openUntil' = openUntil - 1
          /\ UNCHANGED failures
============================================================================
