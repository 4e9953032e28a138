--------------------------- MODULE OpenSkyClient ---------------------------
(* The retry loop of opensky.Client.FetchStates inside each call that the     *)
(* breaker lets through: a call is up to 1 + Retries requests with a pause    *)
(* between them, the loop never asks the breaker again, and only its outcome  *)
(* is reported (client.go, cache.go).                                         *)
EXTENDS BreakerCalls

CONSTANT Retries        \* Client.retryCount()

ASSUME RetryAssumption == Retries \in Nat

VARIABLES attempt,      \* FetchStates: its loop variable, from 1; 0 outside a call
          asleep        \* callers in the time.Sleep between two attempts

\* History: the requests OpenSky got since the last opening or Success, from calls that
\* have failed and from each call in flight.  Those of a discarded call are left out.
VARIABLES struck, sent

loop == <<attempt, asleep>>
requests == <<struck, sent>>
clientVars == <<vars, loop, requests>>

ClientTypeOK == /\ TypeOK
                /\ attempt \in [Caller -> 0..(Retries + 1)]
                /\ asleep \subseteq fetching
                /\ \A c \in Caller : attempt[c] = 0 <=> c \notin fetching
                /\ struck \in Nat /\ sent \in [Caller -> Nat]

ClientInit == /\ Init
              /\ attempt = [c \in Caller |-> 0] /\ asleep = {}
              /\ struck = 0 /\ sent = [c \in Caller |-> 0]

\* The first attempt leaves as soon as the breaker has let the call through.
Call(c) == /\ Admit(c)
           /\ attempt' = [attempt EXCEPT ![c] = 1]
           /\ sent' = [sent EXCEPT ![c] = 1]
           /\ UNCHANGED <<asleep, struck>>

TurnedAway(c) == TurnAway(c) /\ UNCHANGED <<loop, requests>>

Out(c) == c \in fetching \ asleep

\* Mutant: one attempt too many.
AttemptFails_OneMore(c) == /\ Out(c)
                           /\ attempt[c] <= Retries + 1
                           /\ asleep' = asleep \cup {c}
                           /\ UNCHANGED <<vars, attempt, requests>>

\* An attempt fails that is not the last one.
AttemptFails(c) == /\ Out(c)
                   /\ attempt[c] <= Retries
                   /\ asleep' = asleep \cup {c}
                   /\ UNCHANGED <<vars, attempt, requests>>

\* Mutant: every attempt asks the breaker.
Retry_AsksAllow(c) == /\ c \in asleep
                      /\ Allow
                      /\ asleep' = asleep \ {c}
                      /\ attempt' = [attempt EXCEPT ![c] = @ + 1]
                      /\ sent' = [sent EXCEPT ![c] = @ + 1]
                      /\ UNCHANGED <<fetching, history, struck>>

\* The pause is over; the circuit may have opened meanwhile.
Retry(c) == /\ c \in asleep
            /\ asleep' = asleep \ {c}
            /\ attempt' = [attempt EXCEPT ![c] = @ + 1]
            /\ sent' = [sent EXCEPT ![c] = @ + 1]
            /\ UNCHANGED <<vars, struck>>

Return(c) == attempt' = [attempt EXCEPT ![c] = 0] /\ UNCHANGED asleep

AllForgotten == struck' = 0 /\ sent' = [c \in Caller |-> 0]

Discarded(c) == /\ ReportNothing(c)
                /\ sent' = [sent EXCEPT ![c] = 0]
                /\ UNCHANGED struck

\* A list arrives, at whichever attempt.
Answer(c) == /\ Out(c)
             /\ Return(c)
             /\ \/ ReportSuccess(c) /\ AllForgotten
                \/ Discarded(c)

\* The last attempt fails; refreshOpenSky counts the call as one failure.
GiveUp(c) == /\ Out(c)
             /\ attempt[c] = Retries + 1
             /\ Return(c)
             /\ \/ /\ ReportFailure(c)
                   /\ \/ failures' = 0 /\ AllForgotten
                      \/ /\ failures' # 0
                         /\ struck' = struck + sent[c]
                         /\ sent' = [sent EXCEPT ![c] = 0]
                \/ Discarded(c)

ClientTick == Tick /\ UNCHANGED <<loop, requests>>

ClientNext == \/ ClientTick
              \/ \E c \in Caller : \/ Call(c)
                                   \/ TurnedAway(c)
                                   \/ AttemptFails(c)
                                   \/ Retry(c)
                                   \/ Answer(c)
                                   \/ GiveUp(c)

\* Each attempt ends within the timeout of the HTTP client, and each pause ends.
ClientFairness == /\ WF_clientVars(ClientTick)
                  /\ \A c \in Caller :
                       /\ WF_clientVars(AttemptFails(c) \/ Answer(c) \/ GiveUp(c))
                       /\ WF_clientVars(Retry(c))

ClientSpec == ClientInit /\ [][ClientNext]_clientVars /\ ClientFairness
-----------------------------------------------------------------------------
\* What an outage costs OpenSky in requests, between two openings of the circuit: the
\* loops that go on while it is open, or that started before it opened, included, the
\* calls that have failed sent no more than the strikes allow, and each in flight no
\* more than its own attempts.
RequestBudget == /\ struck <= (Retries + 1) * (Threshold - 1)
                 /\ \A c \in Caller : sent[c] <= Retries + 1

\* To the breaker a call with its retries is one call that reports at most once, and
\* that ends.
KeepsCalls == Spec
=============================================================================
