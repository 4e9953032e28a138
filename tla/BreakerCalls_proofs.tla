------------------------ MODULE BreakerCalls_proofs ------------------------
(* For every threshold, cooldown, number of retries and finite set of callers: *)
(* an outage costs a bounded number of calls, and of requests, between two     *)
(* openings of the circuit.                                                    *)
EXTENDS OpenSkyClient, FiniteSetTheorems, TLAPS

\* Every request let through since the last opening has either struck the breaker
\* or is still in flight; those in flight are all accounted for.
Spending == Cardinality(counted) <= spent /\ spent <= failures + Cardinality(counted)

Inv == TypeOK /\ Spending

\* Sets of callers are finite, and adding or removing one changes their size by one.
LEMMA CallerSets ==
    ASSUME NEW S \in SUBSET Caller, NEW c \in Caller
    PROVE  /\ IsFiniteSet(S)
           /\ Cardinality(S) \in Nat
           /\ Cardinality(S) <= Cardinality(Caller)
           /\ Cardinality(Caller) \in Nat
           /\ c \notin S => Cardinality(S \cup {c}) = Cardinality(S) + 1
           /\ c \in S => Cardinality(S \ {c}) = Cardinality(S) - 1
<1>1. IsFiniteSet(Caller)
  BY CallerAssumption DEF CallerAssumption
<1>2. IsFiniteSet(S) /\ Cardinality(S) <= Cardinality(Caller)
  BY <1>1, FS_Subset
<1>3. Cardinality(S) \in Nat /\ Cardinality(Caller) \in Nat
  BY <1>1, <1>2, FS_CardinalityType
<1>4. c \notin S => Cardinality(S \cup {c}) = Cardinality(S) + 1
  BY <1>2, FS_AddElement
<1>5. c \in S => Cardinality(S \ {c}) = Cardinality(S) - 1
  BY <1>2, FS_RemoveElement
<1>6. QED
  BY <1>1, <1>2, <1>3, <1>4, <1>5

\* The breaker's fields stay in range, and so do the sets of callers.
LEMMA RangesStep ==
    ASSUME TypeOK, [Next]_vars
    PROVE  /\ BreakerTypeOK'
           /\ fetching' \subseteq Caller
           /\ counted' \subseteq fetching'
           /\ probing' \subseteq fetching'
<1>1. BreakerTypeOK'
  BY BreakerAssumption
     DEF BreakerAssumption, TypeOK, BreakerTypeOK, Next, vars, breakerVars, Admit, TurnAway,
         ReportSuccess, ReportFailure, ReportNothing, Tick, Allow, Refuse, Success,
         Failure, Elapse, Open, Zero
<1>2. QED
  BY <1>1 DEF TypeOK, Next, vars, history, Admit, TurnAway, ReportSuccess, ReportFailure,
              ReportNothing, Tick

\* The books stay balanced.
LEMMA SpendingStep ==
    ASSUME Inv, [Next]_vars
    PROVE  spent' \in Nat /\ Spending'
<1> USE DEF Inv, TypeOK, BreakerTypeOK, Spending
<1>0. /\ counted \in SUBSET Caller
      /\ failures \in Nat
      /\ Cardinality(counted) \in Nat
      /\ Cardinality({}) = 0
  <2>1. counted \in SUBSET Caller
    OBVIOUS
  <2>2. Cardinality(counted) \in Nat
    BY <2>1, CallerSets, CallerAssumption DEF CallerAssumption
  <2>3. Cardinality({}) = 0
    BY FS_EmptySet
  <2>4. failures \in Nat
    BY BreakerAssumption DEF BreakerAssumption
  <2>5. QED
    BY <2>1, <2>2, <2>3, <2>4
<1>1. ASSUME NEW c \in Caller, Admit(c) PROVE spent' \in Nat /\ Spending'
  <2>1. c \notin counted
    BY <1>1 DEF Admit
  <2>2. Cardinality(counted') = Cardinality(counted) + 1
    BY <1>0, <1>1, <2>1, CallerSets DEF Admit
  <2>3. QED
    BY <1>0, <1>1, <2>2 DEF Admit, Allow
<1>2. ASSUME NEW c \in Caller, ReportSuccess(c) PROVE spent' \in Nat /\ Spending'
  BY <1>0, <1>2 DEF ReportSuccess, Success
<1>3. ASSUME NEW c \in Caller, ReportFailure(c) PROVE spent' \in Nat /\ Spending'
  <2>1. CASE failures' = 0
    BY <1>0, <1>3, <2>1 DEF ReportFailure
  <2>2. CASE failures' # 0
    <3>1. failures' = failures + 1
      BY <1>3, <2>2 DEF ReportFailure, Failure
    <3>2. counted' = counted \ {c} /\ spent' = spent
      BY <1>3, <2>2 DEF ReportFailure
    <3>3. /\ c \in counted => Cardinality(counted') = Cardinality(counted) - 1
          /\ c \notin counted => counted' = counted
      BY <1>0, <3>2, CallerSets
    <3>4. CASE c \in counted
      <4>1. Cardinality(counted') = Cardinality(counted) - 1
        BY <3>3, <3>4
      <4>2. spent' = spent
        BY <3>2
      <4>3. QED
        BY <1>0, <3>1, <4>1, <4>2
    <3>5. CASE c \notin counted
      <4>1. counted' = counted /\ spent' = spent
        BY <3>2, <3>3, <3>5
      <4>2. QED
        BY <1>0, <3>1, <4>1
    <3>6. QED
      BY <3>4, <3>5
  <2>3. QED
    BY <2>1, <2>2
<1>4. ASSUME NEW c \in Caller, ReportNothing(c) PROVE spent' \in Nat /\ Spending'
  <2>1. CASE c \in counted
    <3>1. Cardinality(counted') = Cardinality(counted) - 1 /\ Cardinality(counted') \in Nat
      <4>1. counted' = counted \ {c} /\ counted' \in SUBSET Caller
        BY <1>0, <1>4 DEF ReportNothing
      <4>2. QED
        BY <1>0, <2>1, <4>1, CallerSets
    <3>2. spent' = spent - 1 /\ failures' = failures
      BY <1>4, <2>1 DEF ReportNothing, breakerVars
    <3>3. QED
      BY <1>0, <3>1, <3>2
  <2>2. CASE c \notin counted
    <3>1. counted' = counted /\ spent' = spent /\ failures' = failures
      BY <1>4, <2>2 DEF ReportNothing, breakerVars
    <3>2. QED
      BY <3>1
  <2>3. QED
    BY <2>1, <2>2
<1>5. ASSUME NEW c \in Caller, TurnAway(c) PROVE spent' \in Nat /\ Spending'
  BY <1>5 DEF TurnAway, Refuse, breakerVars, history
<1>6. CASE Tick \/ UNCHANGED vars
  BY <1>6 DEF Tick, Elapse, vars, breakerVars, history
<1>7. QED
  BY <1>1, <1>2, <1>3, <1>4, <1>5, <1>6 DEF Next

LEMMA InvOfCalls == Init /\ [][Next]_vars => []Inv
<1>1. Init => Inv
  <2>1. Cardinality({}) = 0
    BY FS_EmptySet
  <2>2. QED
    BY <2>1, BreakerAssumption
       DEF BreakerAssumption, Init, NewBreaker, Inv, Spending, TypeOK, BreakerTypeOK, Zero
<1>2. Inv /\ [Next]_vars => Inv'
  BY RangesStep, SpendingStep DEF Inv, TypeOK
<1>3. QED
  BY <1>1, <1>2, PTL

LEMMA InvHolds == Spec => []Inv
BY InvOfCalls, PTL DEF Spec

\* Type correctness of the breaker under concurrent callers (breaker.go:9-15).
THEOREM TypeCorrect == Spec => []TypeOK
BY InvHolds, PTL DEF Inv

LEMMA BudgetOfCalls == Init /\ [][Next]_vars => []OutageBudget
<1>1. Inv => OutageBudget
  <2> SUFFICES ASSUME Inv PROVE OutageBudget
    OBVIOUS
  <2>1. counted \in SUBSET Caller
    BY DEF Inv, TypeOK
  <2>2. /\ Cardinality(counted) <= Cardinality(Caller)
        /\ Cardinality(counted) \in Nat
        /\ Cardinality(Caller) \in Nat
    BY <2>1, CallerSets, CallerAssumption DEF CallerAssumption
  <2>3. QED
    BY <2>2, BreakerAssumption
       DEF BreakerAssumption, OutageBudget, Inv, Spending, TypeOK, BreakerTypeOK
<1>2. QED
  BY <1>1, InvOfCalls, PTL

\* During an outage OpenSky receives at most Threshold - 1 calls plus one per concurrent
\* caller between two openings of the circuit (Allow, Failure).
THEOREM OutageBounded == Spec => []OutageBudget
BY BudgetOfCalls, PTL DEF Spec
-----------------------------------------------------------------------------
\* The retry loop: to the breaker, each step of the loop is a step of BreakerCalls or none.
LEMMA LoopStep == [ClientNext]_clientVars => [Next]_vars
<1> SUFFICES ASSUME [ClientNext]_clientVars PROVE [Next]_vars
  OBVIOUS
<1>1. ASSUME NEW c \in Caller, Call(c) \/ TurnedAway(c) PROVE Next
  BY <1>1 DEF Call, TurnedAway, Next
<1>2. ASSUME NEW c \in Caller, AttemptFails(c) \/ Retry(c) PROVE UNCHANGED vars
  BY <1>2 DEF AttemptFails, Retry
<1>3. ASSUME NEW c \in Caller, Answer(c) \/ GiveUp(c) PROVE Next
  BY <1>3 DEF Answer, GiveUp, Discarded, Next
<1>4. CASE ClientTick
  BY <1>4 DEF ClientTick, Next
<1>5. CASE UNCHANGED clientVars
  BY <1>5 DEF clientVars
<1>6. QED
  BY <1>1, <1>2, <1>3, <1>4, <1>5 DEF ClientNext

\* FetchStates with its retries is, to the breaker, one call that reports at most once
\* (KeepsCalls without its fairness).
THEOREM CallsKept == ClientSpec => Init /\ [][Next]_vars
<1>1. ClientInit => Init
  BY DEF ClientInit
<1>2. QED
  BY <1>1, LoopStep, PTL DEF ClientSpec

\* A loop that sleeps has attempts left; the requests of a call are its attempts at most;
\* and every strike stands for one call that used all of its attempts.
Charged == /\ \A c \in asleep : attempt[c] <= Retries
           /\ \A c \in Caller : sent[c] <= attempt[c]
           /\ struck <= (Retries + 1) * failures

ClientInv == Inv /\ ClientTypeOK /\ Charged

LEMMA NatTimes == \A m, n \in Nat : m * n \in Nat
OBVIOUS

LEMMA ClientStep == ClientInv /\ [ClientNext]_clientVars => ClientInv'
<1> SUFFICES ASSUME ClientInv, [ClientNext]_clientVars PROVE ClientInv'
  OBVIOUS
<1> USE RetryAssumption DEF RetryAssumption
<1>1. Inv'
  BY LoopStep, RangesStep, SpendingStep DEF ClientInv, Inv, TypeOK
<1>2. /\ asleep \subseteq fetching /\ fetching \subseteq Caller
      /\ attempt \in [Caller -> 0..(Retries + 1)]
      /\ struck \in Nat /\ sent \in [Caller -> Nat] /\ failures \in Nat
      /\ \A c \in Caller : attempt[c] = 0 <=> c \notin fetching
  BY BreakerAssumption DEF BreakerAssumption, ClientInv, ClientTypeOK, TypeOK, BreakerTypeOK
<1>3. Charged /\ TypeOK'
  BY <1>1 DEF ClientInv, Inv
<1>4. SUFFICES /\ attempt' \in [Caller -> 0..(Retries + 1)]
               /\ asleep' \subseteq fetching'
               /\ \A c \in Caller : attempt'[c] = 0 <=> c \notin fetching'
               /\ struck' \in Nat /\ sent' \in [Caller -> Nat]
               /\ Charged'
  BY <1>1, <1>3 DEF ClientInv, ClientTypeOK
<1>5. ASSUME NEW c \in Caller, Call(c)
      PROVE  /\ attempt' \in [Caller -> 0..(Retries + 1)]
             /\ asleep' \subseteq fetching'
             /\ \A d \in Caller : attempt'[d] = 0 <=> d \notin fetching'
             /\ struck' \in Nat /\ sent' \in [Caller -> Nat]
             /\ Charged'
  BY <1>2, <1>3, <1>5 DEF Call, Admit, Allow, Charged
<1>6. ASSUME NEW c \in Caller, AttemptFails(c)
      PROVE  /\ attempt' \in [Caller -> 0..(Retries + 1)]
             /\ asleep' \subseteq fetching'
             /\ \A d \in Caller : attempt'[d] = 0 <=> d \notin fetching'
             /\ struck' \in Nat /\ sent' \in [Caller -> Nat]
             /\ Charged'
  BY <1>2, <1>3, <1>6 DEF AttemptFails, Out, Charged, vars, breakerVars, requests
<1>7. ASSUME NEW c \in Caller, Retry(c)
      PROVE  /\ attempt' \in [Caller -> 0..(Retries + 1)]
             /\ asleep' \subseteq fetching'
             /\ \A d \in Caller : attempt'[d] = 0 <=> d \notin fetching'
             /\ struck' \in Nat /\ sent' \in [Caller -> Nat]
             /\ Charged'
  BY <1>2, <1>3, <1>7 DEF Retry, Charged, vars, breakerVars
\* However the call ends, it is over and its requests are struck or forgotten.
<1>8. ASSUME NEW c \in Caller, Out(c), Return(c), fetching' = fetching \ {c},
             sent' \in [Caller -> Nat], \A d \in Caller \ {c} : sent'[d] <= sent[d],
             sent'[c] = 0, struck' \in Nat, struck' <= (Retries + 1) * failures'
      PROVE  /\ attempt' \in [Caller -> 0..(Retries + 1)]
             /\ asleep' \subseteq fetching'
             /\ \A d \in Caller : attempt'[d] = 0 <=> d \notin fetching'
             /\ struck' \in Nat /\ sent' \in [Caller -> Nat]
             /\ Charged'
  <2>1. /\ attempt' = [attempt EXCEPT ![c] = 0] /\ asleep' = asleep
        /\ c \in fetching /\ c \notin asleep
    BY <1>8 DEF Out, Return
  <2>2. attempt' \in [Caller -> 0..(Retries + 1)]
    BY <1>2, <2>1
  <2>3. \A d \in Caller : attempt'[d] = 0 <=> d \notin fetching'
    BY <1>2, <1>8, <2>1
  <2>4. \A d \in Caller : sent'[d] <= attempt'[d]
    <3>1. ASSUME NEW d \in Caller \ {c} PROVE sent'[d] <= attempt'[d]
      <4>1. attempt'[d] = attempt[d] /\ attempt[d] \in Nat
        BY <1>2, <2>1
      <4>2. sent'[d] \in Nat /\ sent[d] \in Nat /\ sent'[d] <= sent[d] /\ sent[d] <= attempt[d]
        BY <1>2, <1>3, <1>8 DEF Charged
      <4>3. QED
        BY <4>1, <4>2
    <3>2. attempt'[c] = 0
      BY <1>2, <2>1
    <3>3. QED
      BY <1>8, <3>1, <3>2
  <2>5. \A d \in asleep' : attempt'[d] <= Retries
    BY <1>2, <1>3, <2>1 DEF Charged
  <2>6. QED
    BY <1>2, <1>8, <2>1, <2>2, <2>3, <2>4, <2>5 DEF Charged
<1>9. ASSUME NEW c \in Caller, AllForgotten, failures' \in Nat
      PROVE  /\ sent' \in [Caller -> Nat] /\ \A d \in Caller \ {c} : sent'[d] <= sent[d]
             /\ sent'[c] = 0 /\ struck' \in Nat /\ struck' <= (Retries + 1) * failures'
  <2>1. struck' = 0 /\ \A d \in Caller : sent'[d] = 0 /\ sent[d] \in Nat
    BY <1>2, <1>9 DEF AllForgotten
  <2>2. sent' \in [Caller -> Nat]
    BY <1>9 DEF AllForgotten
  <2>3. Retries + 1 \in Nat /\ failures' \in Nat
    BY <1>9
  <2>4. (Retries + 1) * failures' \in Nat
    BY ONLY <2>3, NatTimes
  <2>5. struck' \in Nat /\ struck' <= (Retries + 1) * failures'
    BY ONLY <2>1, <2>4
  <2>6. QED
    BY <2>1, <2>2, <2>5
<1>10. ASSUME NEW c \in Caller, Discarded(c)
       PROVE  /\ sent' \in [Caller -> Nat] /\ \A d \in Caller \ {c} : sent'[d] <= sent[d]
              /\ sent'[c] = 0 /\ struck' \in Nat /\ struck' <= (Retries + 1) * failures'
              /\ fetching' = fetching \ {c}
  BY <1>2, <1>3, <1>10 DEF Discarded, ReportNothing, breakerVars, Charged
<1>11. failures' \in Nat
  BY <1>3, BreakerAssumption DEF BreakerAssumption, TypeOK, BreakerTypeOK
<1>12. ASSUME NEW c \in Caller, Answer(c)
       PROVE  /\ attempt' \in [Caller -> 0..(Retries + 1)]
              /\ asleep' \subseteq fetching'
              /\ \A d \in Caller : attempt'[d] = 0 <=> d \notin fetching'
              /\ struck' \in Nat /\ sent' \in [Caller -> Nat]
              /\ Charged'
  <2>1. Out(c) /\ Return(c)
    BY <1>12 DEF Answer
  <2>2. CASE ReportSuccess(c) /\ AllForgotten
    BY <1>8, <1>9, <1>11, <2>1, <2>2 DEF ReportSuccess
  <2>3. CASE Discarded(c)
    BY <1>8, <1>10, <2>1, <2>3
  <2>4. QED
    BY <1>12, <2>2, <2>3 DEF Answer
<1>13. ASSUME NEW c \in Caller, GiveUp(c)
       PROVE  /\ attempt' \in [Caller -> 0..(Retries + 1)]
              /\ asleep' \subseteq fetching'
              /\ \A d \in Caller : attempt'[d] = 0 <=> d \notin fetching'
              /\ struck' \in Nat /\ sent' \in [Caller -> Nat]
              /\ Charged'
  <2>1. Out(c) /\ Return(c)
    BY <1>13 DEF GiveUp
  <2>2. CASE ReportFailure(c) /\ failures' = 0 /\ AllForgotten
    BY <1>8, <1>9, <1>11, <2>1, <2>2 DEF ReportFailure
  <2>3. CASE /\ ReportFailure(c) /\ failures' # 0
             /\ struck' = struck + sent[c] /\ sent' = [sent EXCEPT ![c] = 0]
    <3>1. failures' = failures + 1 /\ fetching' = fetching \ {c}
      BY <2>3 DEF ReportFailure, Failure
    <3>2. sent[c] <= Retries + 1 /\ struck <= (Retries + 1) * failures
      BY <1>2, <1>3 DEF Charged
    <3>3. (Retries + 1) * (failures + 1) = (Retries + 1) * failures + (Retries + 1)
      BY <1>2
    <3>4. struck' \in Nat /\ struck' <= (Retries + 1) * failures'
      BY <1>2, <2>3, <3>1, <3>2, <3>3
    <3>5. /\ sent' \in [Caller -> Nat] /\ sent'[c] = 0
          /\ \A d \in Caller \ {c} : sent'[d] <= sent[d]
      BY <1>2, <2>3
    <3>6. QED
      BY <1>8, <2>1, <3>1, <3>4, <3>5
  <2>4. CASE Discarded(c)
    BY <1>8, <1>10, <2>1, <2>4
  <2>5. QED
    BY <1>13, <2>2, <2>3, <2>4 DEF GiveUp
<1>14. ASSUME NEW c \in Caller, TurnedAway(c)
       PROVE  UNCHANGED <<fetching, failures, attempt, asleep, struck, sent>>
  BY <1>14 DEF TurnedAway, TurnAway, Refuse, breakerVars, loop, requests
<1>15. CASE ClientTick \/ UNCHANGED clientVars
  <2>1. UNCHANGED <<fetching, failures, attempt, asleep, struck, sent>>
    BY <1>15 DEF ClientTick, Tick, Elapse, clientVars, vars, breakerVars, loop, requests
  <2>2. QED
    BY <1>2, <1>3, <2>1 DEF Charged
<1>16. CASE UNCHANGED <<fetching, failures, attempt, asleep, struck, sent>>
  BY <1>2, <1>3, <1>16 DEF Charged
<1>17. QED
  BY <1>5, <1>6, <1>7, <1>12, <1>13, <1>14, <1>15, <1>16 DEF ClientNext

LEMMA ClientInvHolds == ClientSpec => []ClientInv
<1>1. ClientInit => ClientInv
  <2>1. Cardinality({}) = 0
    BY FS_EmptySet
  <2>2. QED
    BY <2>1, BreakerAssumption, RetryAssumption
       DEF BreakerAssumption, RetryAssumption, ClientInit, Init, NewBreaker, ClientInv, Inv,
           Spending, ClientTypeOK, TypeOK, BreakerTypeOK, Zero, Charged
<1>2. QED
  BY <1>1, ClientStep, PTL DEF ClientSpec

\* The loop variable, the pauses and the books of the requests stay in range.
THEOREM ClientTypeCorrect == ClientSpec => []ClientTypeOK
BY ClientInvHolds, PTL DEF ClientInv

\* With their retries too, the calls of an outage are bounded between two openings.
THEOREM ClientOutageBounded == ClientSpec => []OutageBudget
<1>1. ClientSpec => Init /\ [][Next]_vars
  BY CallsKept
<1>2. Init /\ [][Next]_vars => []OutageBudget
  BY BudgetOfCalls
<1>3. QED
  BY <1>1, <1>2, PTL

\* For any number of retries and callers, the requests OpenSky gets between two openings
\* are bounded by those of the strikes and one call's attempts per caller.
THEOREM RequestsBounded == ClientSpec => []RequestBudget
<1>1. ClientInv => RequestBudget
  <2> SUFFICES ASSUME ClientInv PROVE RequestBudget
    OBVIOUS
  <2>1. /\ failures \in Nat /\ Threshold \in Nat /\ failures <= Threshold - 1
        /\ Retries \in Nat
    BY BreakerAssumption, RetryAssumption
       DEF BreakerAssumption, RetryAssumption, ClientInv, Inv, TypeOK, BreakerTypeOK
  <2>2. (Retries + 1) * failures <= (Retries + 1) * (Threshold - 1)
    BY <2>1
  <2>3. struck \in Nat /\ struck <= (Retries + 1) * failures
    BY DEF ClientInv, ClientTypeOK, Charged
  <2>4. \A c \in Caller : sent[c] \in Nat /\ attempt[c] \in 0..(Retries + 1) /\ sent[c] <= attempt[c]
    BY DEF ClientInv, ClientTypeOK, Charged
  <2>5. struck <= (Retries + 1) * (Threshold - 1)
    <3> DEFINE x == (Retries + 1) * failures
               y == (Retries + 1) * (Threshold - 1)
    <3>1. x \in Int /\ y \in Int /\ x <= y /\ struck <= x
      BY <2>1, <2>2, <2>3
    <3> HIDE DEF x, y
    <3>2. struck <= y
      BY <2>3, <3>1
    <3>3. QED
      BY <3>2 DEF y
  <2>6. \A c \in Caller : sent[c] <= Retries + 1
    BY <2>1, <2>4
  <2>7. QED
    BY <2>5, <2>6 DEF RequestBudget
<1>2. QED
  BY <1>1, ClientInvHolds, PTL
-----------------------------------------------------------------------------
\* The ticks an open circuit can still stay open for: what is left of the cooldown, and
\* one more cooldown for each call in flight that may yet fail.
Patience == openUntil + Cooldown * Cardinality(fetching)

\* An open circuit has less patience after a tick, and never more after another step.
RunsDown == Open /\ Open' => Patience' <= Patience /\ (Tick => Patience' < Patience)

LEMMA ProductStep ==
    ASSUME NEW a \in Nat, NEW n \in Nat
    PROVE  a * n \in Nat /\ a * (n + 1) = a * n + a
OBVIOUS

LEMMA Weighed ==
    ASSUME NEW u \in Nat, NEW v \in Nat, NEW x \in Nat, NEW a \in Nat
    PROVE  /\ v <= u + a => v + x <= u + (x + a)
           /\ v <= u => v + x <= u + x
           /\ v < u => v + x < u + x
OBVIOUS

LEMMA RunsDownStep == TypeOK /\ [Next]_vars => RunsDown
<1> DEFINE n == Cardinality(fetching)
           m == Cardinality(fetching')
           p == Cooldown * n
           q == Cooldown * m
<1> SUFFICES ASSUME TypeOK, [Next]_vars, Open, Open'
             PROVE  openUntil' + q <= openUntil + p /\ (Tick => openUntil' + q < openUntil + p)
  BY DEF RunsDown, Patience
<1>1. /\ Cooldown \in Nat /\ openUntil \in Nat /\ openUntil <= Cooldown
      /\ fetching \in SUBSET Caller
  BY BreakerAssumption DEF BreakerAssumption, TypeOK, BreakerTypeOK, Open, Zero
<1>2. n \in Nat
  BY <1>1, CallerSets, CallerAssumption DEF CallerAssumption
<1>3. p \in Nat
  <2> HIDE DEF n
  <2>1. QED
    BY <1>1, <1>2, ProductStep
<1>4. ASSUME UNCHANGED fetching, openUntil' <= openUntil, openUntil' \in Nat,
             Tick => openUntil' < openUntil
      PROVE  openUntil' + q <= openUntil + p /\ (Tick => openUntil' + q < openUntil + p)
  <2>1. q = p
    BY <1>4
  <2> HIDE DEF p, q
  <2>2. QED
    BY <1>1, <1>3, <1>4, <2>1, Weighed
\* A call that ends takes its cooldown with it.
<1>5. ASSUME NEW c \in fetching, fetching' = fetching \ {c}, openUntil' \in {openUntil, Cooldown}
      PROVE  openUntil' + q <= openUntil + p /\ (Tick => openUntil' + q < openUntil + p)
  <2>1. m \in Nat /\ n = m + 1
    <3>1. m = n - 1
      <4>1. fetching \in SUBSET Caller /\ c \in Caller /\ c \in fetching
        BY <1>1, <1>5
      <4>2. Cardinality(fetching \ {c}) = Cardinality(fetching) - 1
        BY <4>1, CallerSets
      <4>3. QED
        BY <1>5, <4>2
    <3>2. m \in Nat
      <4>1. fetching' \in SUBSET Caller /\ c \in Caller
        BY <1>1, <1>5
      <4>2. QED
        BY <4>1, CallerSets
    <3> HIDE DEF m, n
    <3>3. QED
      BY <1>2, <3>1, <3>2
  <2>2. ~Tick
    BY <1>5 DEF Tick
  <2>3. q \in Nat /\ p = q + Cooldown
    <3> HIDE DEF n, m
    <3>1. QED
      BY <1>1, <2>1, ProductStep
  <2>4. openUntil' <= openUntil + Cooldown /\ openUntil' \in Nat
    BY <1>1, <1>5
  <2> HIDE DEF p, q
  <2>5. QED
    BY <1>1, <2>2, <2>3, <2>4, Weighed
<1>6. ASSUME NEW c \in Caller, Admit(c)
      PROVE  FALSE
  <2>1. ~Open
    BY <1>6 DEF Admit, Allow
  <2>2. QED
    BY <2>1
<1>7. ASSUME NEW c \in Caller, ReportSuccess(c)
      PROVE  FALSE
  BY <1>7 DEF ReportSuccess, Success, Open, Zero
<1>8. ASSUME NEW c \in Caller, ReportFailure(c) \/ ReportNothing(c)
      PROVE  openUntil' + q <= openUntil + p /\ (Tick => openUntil' + q < openUntil + p)
  <2>1. /\ c \in fetching /\ fetching' = fetching \ {c}
        /\ openUntil' \in {openUntil, Cooldown}
    BY <1>8 DEF ReportFailure, ReportNothing, Failure, breakerVars
  <2> HIDE DEF p, q
  <2>2. QED
    BY <1>5, <2>1
\* A tick shortens the cooldown; a refused call leaves everything as it is.
<1>9. CASE Tick \/ UNCHANGED vars \/ \E c \in Caller : TurnAway(c)
  <2>1. UNCHANGED fetching /\ openUntil' \in {openUntil, openUntil - 1}
    BY <1>9 DEF Tick, Elapse, TurnAway, Refuse, vars, breakerVars
  <2>2. openUntil' \in Nat /\ openUntil' <= openUntil
    BY <1>1, <2>1 DEF Open
  <2>3. Tick => openUntil' < openUntil
    BY <1>1 DEF Tick, Elapse
  <2> HIDE DEF p, q
  <2>4. QED
    BY <1>4, <2>1, <2>2, <2>3
<1>10. QED
  <2> HIDE DEF p, q
  <2>1. QED
    BY <1>6, <1>7, <1>8, <1>9 DEF Next

\* The variant behind TripIsTemporary: a circuit that is open can stay so without a break
\* for at most one cooldown and one more per call in flight, since refused calls do not
\* extend it and each failure of a call that was under way can do so once (Allow, Failure).
THEOREM TripsRunOut == ClientSpec => [][RunsDown]_vars
<1>1. TypeOK /\ [Next]_vars => [RunsDown]_vars
  BY RunsDownStep
<1>2. Inv => TypeOK
  BY DEF Inv
<1>3. QED
  BY <1>1, <1>2, InvOfCalls, CallsKept, PTL
=============================================================================
