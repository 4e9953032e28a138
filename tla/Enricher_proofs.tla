--------------------------- MODULE Enricher_proofs ---------------------------
(* For any identities, visitors, warm-ups, slots, budgets and expiry: types,  *)
(* the bound on workers, and when an entry of the cache may be overwritten.   *)
EXTENDS Enricher, FiniteSetTheorems, TLAPS

\* The types, and the workers that have a slot, which are counted.
Types == /\ cache \in [Key -> [age : 0..TTL, data : Detail]]
         /\ pc \in [Task -> {"idle", "queued", "lookup"} \cup Asking]
         /\ out \in [Task -> Detail]
         /\ todo \in [Warm -> SUBSET Key]
         /\ left \in [Warm -> 0..Budget]
         /\ healthy \in BOOLEAN
         /\ behind \subseteq Task

Slotted == \A w \in Warm : IsFiniteSet(Holding(w)) /\ Cardinality(Holding(w)) <= Slots

\* A task that is past its miss either is behind or has an expired entry to replace.
Missed == \A t \in Task : pc[t] \in Asking => t \in behind \/ ~Fresh(t.key)

IInv == Types /\ Slotted /\ Missed

LEMMA InitInv == Init => IInv
<1> SUFFICES ASSUME Init PROVE IInv
  OBVIOUS
<1> USE EnricherAssumption DEF EnricherAssumption
<1>1. Types
  <2>1. {} \in Detail
    BY DEF Detail
  <2>2. Miss \in [age : 0..TTL, data : Detail]
    <3>1. TTL \in 0..TTL
      OBVIOUS
    <3>2. QED
      BY <2>1, <3>1, Zenon DEF Miss
  <2>3. cache \in [Key -> [age : 0..TTL, data : Detail]]
    BY <2>2, Zenon DEF Init
  <2>4. pc \in [Task -> {"idle", "queued", "lookup"} \cup Asking]
    BY DEF Init
  <2>5. out \in [Task -> Detail] /\ todo \in [Warm -> SUBSET Key]
    BY <2>1, Zenon DEF Init
  <2>6. left \in [Warm -> 0..Budget]
    BY DEF Init
  <2>7. healthy \in BOOLEAN /\ behind \subseteq Task
    BY DEF Init
  <2>8. QED
    BY <2>3, <2>4, <2>5, <2>6, <2>7 DEF Types
<1>2. \A w \in Warm : Holding(w) = {}
  BY DEF Init, Holding, Asking
<1>3. Slotted
  BY <1>2, FS_EmptySet DEF Slotted
<1>4. Missed
  BY DEF Init, Missed, Asking
<1>5. QED
  BY <1>1, <1>3, <1>4 DEF IInv

\* What a provider answers with is a detail.
LEMMA AnswerIsDetail == ASSUME NEW f \in Detail PROVE Answer(f) \subseteq Detail
BY DEF Answer, Detail, Aircraft

LEMMA TypesStep == Types /\ [Next]_vars => Types'
<1> SUFFICES ASSUME Types, [Next]_vars PROVE Types'
  OBVIOUS
<1> USE EnricherAssumption DEF EnricherAssumption, Types, Goto, Asking
<1>1. ASSUME NEW t \in Task, Lookup(t) PROVE Types'
  BY <1>1 DEF Lookup
<1>2. ASSUME NEW t \in Task, AskUpstream(t) PROVE Types'
  <2>1. PICK d \in Answer(Truth[t.key]) :
              /\ out' = [out EXCEPT ![t] = d]
              /\ pc' = [pc EXCEPT ![t] = IF Aircraft \subseteq d THEN "store" ELSE "adsbdb"]
    BY <1>2 DEF AskUpstream
  <2>2. d \in Detail
    BY AnswerIsDetail DEF Task
  <2>3. QED
    BY <1>2, <2>1, <2>2 DEF AskUpstream
<1>3. ASSUME NEW t \in Task, AskADSBdb(t) PROVE Types'
  <2>1. PICK d \in Answer(Truth[t.key]) :
              /\ out' = [out EXCEPT ![t] = @ \cup d]
              /\ pc' = [pc EXCEPT ![t] = IF Aircraft \subseteq d THEN "store" ELSE "hexdb"]
    BY <1>3 DEF AskADSBdb
  <2>2. out[t] \cup d \in Detail
    <3>1. d \in Detail
      BY AnswerIsDetail DEF Task
    <3>2. QED
      BY <3>1 DEF Detail
  <2>3. QED
    BY <1>3, <2>1, <2>2 DEF AskADSBdb
<1>4. ASSUME NEW t \in Task, AskHexDB(t) PROVE Types'
  <2>1. PICK d \in Answer(Truth[t.key] \cap Aircraft) : out' = [out EXCEPT ![t] = @ \cup d]
    BY <1>4 DEF AskHexDB
  <2>2. out[t] \cup d \in Detail
    <3>1. Truth[t.key] \cap Aircraft \in Detail
      BY DEF Task, Detail
    <3>2. d \in Detail
      BY <3>1, AnswerIsDetail
    <3>3. QED
      BY <3>2 DEF Detail
  <2>3. QED
    BY <1>4, <2>1, <2>2 DEF AskHexDB
<1>5. ASSUME NEW t \in Task, Store(t) PROVE Types'
  <2>1. {} \in Detail
    BY DEF Detail
  <2>2. /\ out' = [out EXCEPT ![t] = {}]
        /\ pc' = [pc EXCEPT ![t] = "idle"]
        /\ UNCHANGED <<todo, left, healthy>>
    BY <1>5 DEF Store
  <2>3. CASE out[t] = {}
    BY <1>5, <2>1, <2>2, <2>3 DEF Store
  <2>4. CASE out[t] # {}
    <3>1. cache' = [cache EXCEPT ![t.key] = [age |-> 0, data |-> out[t]]]
      BY <1>5, <2>4 DEF Store
    <3>2. cache' \in [Key -> [age : 0..TTL, data : Detail]]
      <4>1. [age |-> 0, data |-> out[t]] \in [age : 0..TTL, data : Detail]
        OBVIOUS
      <4>2. QED
        BY <3>1, <4>1
    <3>3. behind' \subseteq Task
      BY <1>5, <2>4 DEF Store
    <3>4. QED
      BY <2>1, <2>2, <3>2, <3>3
  <2>5. QED
    BY <2>3, <2>4
<1>6. ASSUME NEW t \in Task, Visit(t) \/ Start(t) \/ GiveUp(t) PROVE Types'
  BY <1>6 DEF Visit, Start, GiveUp
<1>7. ASSUME NEW t \in Task, Launch(t) PROVE Types'
  BY <1>7 DEF Launch
<1>8. ASSUME NEW w \in Warm, WarmDone(w) PROVE Types'
  BY <1>8 DEF WarmDone
<1>9. ASSUME NEW w \in Warm, NEW items \in SUBSET Key, WarmRoutes(w, items) PROVE Types'
  BY <1>9 DEF WarmRoutes
<1>10. CASE Tick
  <2>1. cache' \in [Key -> [age : 0..TTL, data : Detail]]
    BY <1>10 DEF Tick
  <2>2. left' \in [Warm -> 0..Budget]
    BY <1>10 DEF Tick
  <2>3. QED
    BY <1>10, <2>1, <2>2 DEF Tick
<1>11. CASE Recover
  BY <1>11 DEF Recover
<1>12. CASE UNCHANGED vars
  BY <1>12 DEF vars
<1>13. QED
  BY <1>1, <1>2, <1>3, <1>4, <1>5, <1>6, <1>7, <1>8, <1>9, <1>10, <1>11, <1>12
     DEF Next, Enrich

\* A worker gets a slot in Start only, which counts those taken first.
LEMMA SlottedStep == Types /\ Slotted /\ [Next]_vars => Slotted'
<1> SUFFICES ASSUME Types, Slotted, [Next]_vars, NEW w \in Warm
             PROVE IsFiniteSet(Holding(w)') /\ Cardinality(Holding(w)') <= Slots
  BY DEF Slotted
<1>1. IsFiniteSet(Holding(w)) /\ Cardinality(Holding(w)) <= Slots
  BY DEF Slotted
<1>2. Cardinality(Holding(w)) \in Nat /\ Slots \in Nat
  BY <1>1, FS_CardinalityType, EnricherAssumption DEF EnricherAssumption
<1>3. CASE Holding(w)' \subseteq Holding(w)
  <2>1. /\ IsFiniteSet(Holding(w)')
        /\ Cardinality(Holding(w)') <= Cardinality(Holding(w))
        /\ Cardinality(Holding(w)') \in Nat
    BY <1>1, <1>3, FS_Subset, FS_CardinalityType
  <2>2. QED
    BY <1>1, <1>2, <2>1
<1>4. ASSUME NEW t \in Task, Start(t), t.by = w
      PROVE  IsFiniteSet(Holding(w)') /\ Cardinality(Holding(w)') <= Slots
  <2>1. Holding(w)' \subseteq Holding(w) \cup {t}
    BY <1>4 DEF Start, Goto, Holding, Types
  <2>2. /\ IsFiniteSet(Holding(w) \cup {t})
        /\ Cardinality(Holding(w) \cup {t}) <= Cardinality(Holding(w)) + 1
        /\ Cardinality(Holding(w) \cup {t}) \in Nat
    <3>1. \/ Cardinality(Holding(w) \cup {t}) = Cardinality(Holding(w))
          \/ Cardinality(Holding(w) \cup {t}) = Cardinality(Holding(w)) + 1
      BY <1>1, FS_AddElement
    <3>2. IsFiniteSet(Holding(w) \cup {t})
      BY <1>1, FS_AddElement
    <3>3. QED
      BY <1>2, <3>1, <3>2
  <2>3. /\ IsFiniteSet(Holding(w)')
        /\ Cardinality(Holding(w)') <= Cardinality(Holding(w) \cup {t})
        /\ Cardinality(Holding(w)') \in Nat
    BY <2>1, <2>2, FS_Subset, FS_CardinalityType
  <2>4. Cardinality(Holding(w)) < Slots
    BY <1>4 DEF Start
  <2>5. QED
    BY <1>2, <2>2, <2>3, <2>4
<1>5. ASSUME NEW t \in Task, Start(t), t.by # w PROVE Holding(w)' \subseteq Holding(w)
  BY <1>5 DEF Start, Goto, Holding, Types
<1>6. ASSUME NEW t \in Task, Visit(t) PROVE Holding(w)' \subseteq Holding(w)
  <2>1. t.by # w
    BY <1>6, EnricherAssumption DEF EnricherAssumption, Visit
  <2>2. QED
    BY <1>6, <2>1 DEF Visit, Goto, Holding, Asking, Types
<1>7. ASSUME NEW t \in Task, Enrich(t) PROVE Holding(w)' \subseteq Holding(w)
  <2>1. pc[t] \in {"lookup"} \cup Asking
    BY <1>7 DEF Enrich, Lookup, AskUpstream, AskADSBdb, AskHexDB, Store, Asking
  <2>2. \A u \in Task \ {t} : pc'[u] = pc[u]
    <3>1. CASE Lookup(t)
      BY <3>1 DEF Lookup, Goto, Types
    <3>2. CASE AskUpstream(t) \/ AskADSBdb(t)
      BY <3>2 DEF AskUpstream, AskADSBdb, Goto, Types
    <3>3. CASE AskHexDB(t) \/ Store(t)
      BY <3>3 DEF AskHexDB, Store, Goto, Types
    <3>4. QED
      BY <1>7, <3>1, <3>2, <3>3 DEF Enrich
  <2>3. QED
    BY <2>1, <2>2 DEF Holding
<1>8. ASSUME NEW t \in Task, Launch(t) \/ GiveUp(t) PROVE Holding(w)' \subseteq Holding(w)
  BY <1>8 DEF Launch, GiveUp, Goto, Holding, Asking, Types
<1>9. ASSUME UNCHANGED pc PROVE Holding(w)' \subseteq Holding(w)
  BY <1>9 DEF Holding
<1>10. ASSUME NEW v \in Warm, WarmDone(v) \/ \E items \in SUBSET Key : WarmRoutes(v, items)
       PROVE  UNCHANGED pc
  BY <1>10 DEF WarmDone, WarmRoutes
<1>11. CASE Tick \/ Recover \/ UNCHANGED vars
  BY <1>3, <1>9, <1>11 DEF Tick, Recover, vars
<1>12. QED
  BY <1>3, <1>4, <1>5, <1>6, <1>7, <1>8, <1>9, <1>10, <1>11 DEF Next

\* An entry is stored in Store only, and what is past its miss by then falls behind.
LEMMA MissedStep == Types /\ Missed /\ [Next]_vars => Missed'
<1> SUFFICES ASSUME Types, Missed, [Next]_vars PROVE Missed'
  OBVIOUS
<1> USE EnricherAssumption DEF EnricherAssumption, Missed, Goto, Fresh, Types
<1>1. ASSUME NEW t \in Task, Lookup(t) PROVE Missed'
  BY <1>1 DEF Lookup, Asking
<1>2. ASSUME NEW t \in Task, AskUpstream(t) \/ AskADSBdb(t) \/ AskHexDB(t) PROVE Missed'
  <2>1. /\ pc[t] \in Asking
        /\ UNCHANGED <<cache, behind>>
        /\ \E place : pc' = [pc EXCEPT ![t] = place]
    BY <1>2 DEF AskUpstream, AskADSBdb, AskHexDB, Asking
  <2>2. QED
    BY <2>1
<1>3. ASSUME NEW t \in Task, Store(t) PROVE Missed'
  <2>1. pc' = [pc EXCEPT ![t] = "idle"]
    BY <1>3 DEF Store
  <2>2. CASE out[t] = {}
    BY <1>3, <2>1, <2>2 DEF Store, Asking
  <2>3. CASE out[t] # {}
    <3>1. /\ cache' = [cache EXCEPT ![t.key] = [age |-> 0, data |-> out[t]]]
          /\ behind' = (behind \ {t}) \cup {u \in Task \ {t} : u.key = t.key /\ pc[u] \in Asking}
      BY <1>3, <2>3 DEF Store
    <3>2. ASSUME NEW u \in Task, pc'[u] \in Asking
          PROVE  u \in behind' \/ ~(cache'[u.key].age < TTL)
      <4>1. u # t /\ pc[u] \in Asking
        BY <2>1, <3>2 DEF Asking
      <4>2. CASE u.key = t.key
        BY <3>1, <4>1, <4>2
      <4>3. CASE u.key # t.key
        BY <3>1, <4>1, <4>3 DEF Task
      <4>4. QED
        BY <4>2, <4>3
    <3>3. QED
      BY <3>2
  <2>4. QED
    BY <2>2, <2>3
<1>4. ASSUME NEW t \in Task, Visit(t) \/ Launch(t) \/ Start(t) \/ GiveUp(t) PROVE Missed'
  BY <1>4 DEF Visit, Launch, Start, GiveUp, Asking
<1>5. ASSUME NEW w \in Warm, WarmDone(w) \/ \E items \in SUBSET Key : WarmRoutes(w, items)
      PROVE  Missed'
  BY <1>5 DEF WarmDone, WarmRoutes
<1>6. CASE Tick
  <2>1. UNCHANGED <<pc, behind>>
    BY <1>6 DEF Tick
  <2>2. \A k \in Key : ~(cache[k].age < TTL) => ~(cache'[k].age < TTL)
    BY <1>6 DEF Tick
  <2>3. QED
    BY <2>1, <2>2 DEF Task
<1>7. CASE Recover \/ UNCHANGED vars
  BY <1>7 DEF Recover, vars
<1>8. QED
  BY <1>1, <1>2, <1>3, <1>4, <1>5, <1>6, <1>7 DEF Next, Enrich

LEMMA StepInv == IInv /\ [Next]_vars => IInv'
BY TypesStep, SlottedStep, MissedStep DEF IInv

\* No warm-up has more look-ups under way than its semaphore has slots, its budget spent
\* or not (enrich.go:214, 226-238).
THEOREM TypeCorrect == Spec => []TypeOK
<1>1. IInv => TypeOK
  BY DEF IInv, Types, Slotted, TypeOK
<1>2. QED
  BY <1>1, InitInv, StepInv, PTL DEF Spec

\* An entry that has not expired is overwritten only by a look-up that missed before the
\* entry was stored (enrich.go:104-110, 127-131).
THEOREM FreshKept == Spec => FreshIsKept
<1> DEFINE Kept == \A t \in Task : Store(t) /\ out[t] # {} /\ Fresh(t.key) => t \in behind
<1>1. IInv => Kept
  BY DEF IInv, Missed, Store, Asking
<1>2. IInv /\ [Next]_vars => [Kept]_vars
  BY <1>1
<1>3. QED
  BY <1>2, InitInv, StepInv, PTL DEF Spec, FreshIsKept
=============================================================================
