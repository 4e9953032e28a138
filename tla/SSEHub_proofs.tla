---------------------------- MODULE SSEHub_proofs ----------------------------
(* For any number of connections and publishers and any capacity: no channel  *)
(* is sent to after it is closed, none holds more than its capacity, and no   *)
(* publisher sends a client back to an older snapshot twice.                  *)
EXTENDS SSEHub, SequenceTheorems, TLAPS

\* The hub knows a channel exactly while it is open: both change in one section.
Registered == clients = open

Inv == TypeOK /\ Registered

LEMMA InitInv == Init => Inv
<1> SUFFICES ASSUME Init PROVE Inv
  OBVIOUS
<1>1. <<>> \in Seq(Event) /\ Len(<<>>) = 0
  OBVIOUS
<1>2. 0 \in Version /\ 1 \in Version
  BY HubAssumption DEF HubAssumption, Version
<1>3. QED
  BY <1>1, <1>2, HubAssumption DEF HubAssumption, Init, Inv, TypeOK, Registered

\* A channel that is sent to only when it is not full keeps to its capacity.
LEMMA SendFits ==
    ASSUME NEW q \in Seq(Event), Len(q) <= Buffer, Len(q) # Buffer, NEW e \in Event
    PROVE  Append(q, e) \in Seq(Event) /\ Len(Append(q, e)) <= Buffer
BY HubAssumption DEF HubAssumption

LEMMA ReceiveFits ==
    ASSUME NEW q \in Seq(Event), q # <<>>
    PROVE  /\ Head(q) \in Event /\ Tail(q) \in Seq(Event)
           /\ Len(Tail(q)) = Len(q) - 1
OBVIOUS

LEMMA StepInv == Inv /\ [Next]_vars => Inv'
<1> SUFFICES ASSUME Inv, [Next]_vars PROVE Inv'
  OBVIOUS
<1>1. TypeOK /\ Registered
  BY DEF Inv
<1>2. CASE UNCHANGED vars
  BY <1>1, <1>2 DEF Inv, TypeOK, Registered, vars
<1>3. CASE NewSnapshot
  <2>1. version' \in Version
    BY <1>1, <1>3, HubAssumption DEF HubAssumption, NewSnapshot, TypeOK, Version
  <2>2. QED
    BY <1>1, <1>3, <2>1 DEF NewSnapshot, Inv, TypeOK, Registered
<1>4. ASSUME NEW p \in Publisher, BuildPayload(p) PROVE Inv'
  BY <1>1, <1>4 DEF BuildPayload, Inv, TypeOK, Registered
<1>5. ASSUME NEW p \in Publisher, Broadcast(p) PROVE Inv'
  <2> DEFINE event == [snap |-> payload[p], by |-> p]
  <2>1. event \in Event /\ payload' = [payload EXCEPT ![p] = 0] /\ 0 \in Version
    BY <1>1, <1>5, HubAssumption DEF HubAssumption, Broadcast, TypeOK, Version, Event
  <2>2. ASSUME NEW c \in Client
        PROVE  queue'[c] \in Seq(Event) /\ Len(queue'[c]) <= Buffer
    <3>1. queue[c] \in Seq(Event) /\ Len(queue[c]) <= Buffer
      BY <1>1 DEF TypeOK
    <3>2. queue'[c] = IF c \in clients /\ ~Full(c) THEN Append(queue[c], event) ELSE queue[c]
      BY <1>5 DEF Broadcast, Sent
    <3>3. QED
      BY <2>1, <3>1, <3>2, SendFits DEF Full
  <2>3. queue' \in [Client -> Seq(Event)]
    BY <1>5, <2>2 DEF Broadcast, Sent
  <2>4. QED
    BY <1>1, <1>5, <2>1, <2>2, <2>3 DEF Broadcast, Inv, TypeOK, Registered
<1>6. ASSUME NEW c \in Client, Subscribe(c) PROVE Inv'
  <2>1. /\ queue' = [queue EXCEPT ![c] = <<>>] /\ seen' = [seen EXCEPT ![c] = Hello]
        /\ <<>> \in Seq(Event) /\ Len(<<>>) <= Buffer
    BY <1>6, HubAssumption DEF HubAssumption, Subscribe
  <2>2. QED
    BY <1>1, <1>6, <2>1 DEF Subscribe, Inv, TypeOK, Registered
<1>7. ASSUME NEW c \in Client, Flush(c) PROVE Inv'
  <2>1. /\ Head(queue[c]) \in Event /\ Tail(queue[c]) \in Seq(Event)
        /\ Len(Tail(queue[c])) <= Buffer
    BY <1>1, <1>7, ReceiveFits, HubAssumption DEF HubAssumption, Flush, TypeOK
  <2>2. QED
    BY <1>1, <1>7, <2>1 DEF Flush, Inv, TypeOK, Registered
<1>8. ASSUME NEW c \in Client, Unsubscribe(c) PROVE Inv'
  <2>1. /\ queue' = [queue EXCEPT ![c] = <<>>]
        /\ <<>> \in Seq(Event) /\ Len(<<>>) <= Buffer
    BY <1>8, HubAssumption DEF HubAssumption, Unsubscribe
  <2>2. QED
    BY <1>1, <1>8, <2>1 DEF Unsubscribe, Inv, TypeOK, Registered
<1>9. QED
  BY <1>2, <1>3, <1>4, <1>5, <1>6, <1>7, <1>8 DEF Next, Publish

LEMMA InvHolds == Spec => []Inv
BY InitInv, StepInv, PTL DEF Spec

\* However broadcasts and readers interleave, no channel holds more than its capacity.
THEOREM TypeCorrect == Spec => []TypeOK
BY InvHolds, PTL DEF Inv

\* However connections come and go between broadcasts, a send finds its channel open
\* (sse.go:28-47).
THEOREM SendsAreSafe == Spec => []NoSendOnClosed
<1>1. Registered => NoSendOnClosed
  BY DEF Registered, NoSendOnClosed
<1>2. QED
  BY <1>1, InvHolds, PTL DEF Inv
-----------------------------------------------------------------------------
\* What a client has seen and is about to see, f, against the payloads under way, pay,
\* when the store's snapshot is v.  A publisher whose payload is older than an event
\* built it before that event was broadcast, and so sent nothing from there on.
Tidy(f, v, pay) ==
    \A i \in 1..Len(f) :
        /\ f[i].snap <= v
        /\ \A p \in Publisher : pay[p] # 0 /\ pay[p] < f[i].snap
               => \A j \in i..Len(f) : f[j].by # p
        /\ \A k \in 1..Len(f) : i < k /\ f[k].snap < f[i].snap
               => \A j \in i..(k - 1) : f[j].by # f[k].by

Shown == Event \cup {Hello}

Payloads == [Publisher -> Version]

LEMMA ShownType == /\ Version \subseteq Nat /\ 0 \in Version
                   /\ \A e \in Shown : e.snap \in Nat
                   /\ \A f \in Seq(Shown) : /\ Len(f) \in Nat
                                            /\ \A i \in 1..Len(f) : f[i].snap \in Nat
<1>1. Version \subseteq Nat /\ 0 \in Version
  BY HubAssumption DEF HubAssumption, Version
<1>2. ASSUME NEW e \in Shown PROVE e.snap \in Nat
  <2>1. CASE e \in Event
    BY <1>1, <2>1 DEF Event
  <2>2. CASE e = Hello
    BY <2>2 DEF Hello
  <2>3. QED
    BY <2>1, <2>2 DEF Shown
<1>3. QED
  BY <1>1, <1>2

\* The event p sends is older only than events from which on p has sent none.
LEMMA TidyAppend ==
    ASSUME NEW f \in Seq(Shown), NEW v \in Nat, NEW pay \in Payloads, NEW p \in Publisher,
           Tidy(f, v, pay), pay[p] # 0, pay[p] <= v
    PROVE  Tidy(Append(f, [snap |-> pay[p], by |-> p]), v, [pay EXCEPT ![p] = 0])
<1> DEFINE e == [snap |-> pay[p], by |-> p]
           g == Append(f, e)
           rest == [pay EXCEPT ![p] = 0]
<1>1. /\ Len(f) \in Nat /\ \A i \in 1..Len(f) : f[i].snap \in Nat
      /\ pay[p] \in Nat /\ \A q \in Publisher : pay[q] \in Nat
  BY ShownType DEF Payloads
<1>2. /\ Len(g) = Len(f) + 1 /\ g[Len(f) + 1] = e
      /\ \A i \in 1..Len(f) : g[i] = f[i]
  <2>1. e \in Shown
    BY DEF Shown, Event, Payloads
  <2>2. QED
    BY <2>1, AppendProperties
<1>3. /\ e.snap = pay[p] /\ e.by = p
      /\ \A q \in Publisher : rest[q] # 0 => rest[q] = pay[q] /\ q # p
  BY DEF Payloads
<1> HIDE DEF e, g, rest
<1>4. ASSUME NEW i \in 1..Len(g)
      PROVE  /\ g[i].snap <= v
             /\ \A q \in Publisher : rest[q] # 0 /\ rest[q] < g[i].snap
                    => \A j \in i..Len(g) : g[j].by # q
             /\ \A k \in 1..Len(g) : i < k /\ g[k].snap < g[i].snap
                    => \A j \in i..(k - 1) : g[j].by # g[k].by
  <2>1. CASE i = Len(f) + 1
    BY <1>1, <1>2, <1>3, <2>1
  <2>2. CASE i \in 1..Len(f)
    <3>1. /\ f[i].snap <= v
          /\ \A q \in Publisher : pay[q] # 0 /\ pay[q] < f[i].snap
                 => \A j \in i..Len(f) : f[j].by # q
          /\ \A k \in 1..Len(f) : i < k /\ f[k].snap < f[i].snap
                 => \A j \in i..(k - 1) : f[j].by # f[k].by
      BY <2>2 DEF Tidy
    <3>2. ASSUME NEW q \in Publisher, rest[q] # 0, rest[q] < g[i].snap, NEW j \in i..Len(g)
          PROVE  g[j].by # q
      <4>1. CASE j = Len(f) + 1
        BY <1>2, <1>3, <3>2, <4>1
      <4>2. CASE j \in i..Len(f)
        <5>1. j \in 1..Len(f) /\ g[j] = f[j] /\ g[i] = f[i]
          BY <1>1, <1>2, <2>2, <4>2
        <5>2. QED
          BY <1>3, <3>1, <3>2, <4>2, <5>1
      <4>3. QED
        BY <1>1, <1>2, <2>2, <4>1, <4>2
    <3>3. ASSUME NEW k \in 1..Len(g), i < k, g[k].snap < g[i].snap, NEW j \in i..(k - 1)
          PROVE  g[j].by # g[k].by
      <4>1. j \in 1..Len(f) /\ j \in i..Len(f) /\ g[j] = f[j] /\ g[i] = f[i]
        BY <1>1, <1>2, <2>2, <3>3
      <4>2. CASE k = Len(f) + 1
        BY <1>2, <1>3, <3>1, <3>3, <4>1, <4>2
      <4>3. CASE k \in 1..Len(f)
        BY <1>2, <3>1, <3>3, <4>1, <4>3
      <4>4. QED
        BY <1>1, <1>2, <4>2, <4>3
    <3>4. QED
      BY <1>2, <2>2, <3>1, <3>2, <3>3
  <2>3. QED
    BY <1>1, <1>2, <2>1, <2>2
<1>5. QED
  BY <1>4 DEF Tidy, e, g, rest

\* What follows the first event is tidy when the whole is.
LEMMA TidyTail ==
    ASSUME NEW f \in Seq(Shown), NEW v \in Nat, NEW pay \in Payloads, f # <<>>, Tidy(f, v, pay)
    PROVE  Tidy(Tail(f), v, pay)
<1> DEFINE g == Tail(f)
<1>1. /\ Len(f) \in Nat /\ Len(f) > 0 /\ Len(g) = Len(f) - 1
      /\ \A i \in 1..Len(g) : g[i] = f[i + 1]
  BY EmptySeq, HeadTailProperties
<1> HIDE DEF g
<1>2. ASSUME NEW i \in 1..Len(g)
      PROVE  /\ g[i].snap <= v
             /\ \A q \in Publisher : pay[q] # 0 /\ pay[q] < g[i].snap
                    => \A j \in i..Len(g) : g[j].by # q
             /\ \A k \in 1..Len(g) : i < k /\ g[k].snap < g[i].snap
                    => \A j \in i..(k - 1) : g[j].by # g[k].by
  <2>1. i + 1 \in 1..Len(f) /\ g[i] = f[i + 1]
    BY <1>1
  <2>2. /\ f[i + 1].snap <= v
        /\ \A q \in Publisher : pay[q] # 0 /\ pay[q] < f[i + 1].snap
               => \A j \in (i + 1)..Len(f) : f[j].by # q
        /\ \A k \in 1..Len(f) : i + 1 < k /\ f[k].snap < f[i + 1].snap
               => \A j \in (i + 1)..(k - 1) : f[j].by # f[k].by
    BY <2>1 DEF Tidy
  <2>3. ASSUME NEW j \in i..Len(g)
        PROVE  j + 1 \in (i + 1)..Len(f) /\ g[j] = f[j + 1]
    BY <1>1, <2>3
  <2>4. ASSUME NEW k \in 1..Len(g), i < k, g[k].snap < g[i].snap, NEW j \in i..(k - 1)
        PROVE  g[j].by # g[k].by
    <3>1. /\ k + 1 \in 1..Len(f) /\ i + 1 < k + 1 /\ g[k] = f[k + 1]
          /\ j + 1 \in (i + 1)..((k + 1) - 1) /\ j \in i..Len(g)
      BY <1>1, <2>4
    <3>2. QED
      BY <2>1, <2>2, <2>3, <2>4, <3>1
  <2>5. QED
    BY <2>1, <2>2, <2>3, <2>4
<1>3. QED
  BY <1>2 DEF Tidy, g

\* Its first event alone is tidy too.
LEMMA TidyHead ==
    ASSUME NEW f \in Seq(Shown), NEW v \in Nat, NEW pay \in Payloads, f # <<>>, Tidy(f, v, pay)
    PROVE  Tidy(<<f[1]>>, v, pay)
<1>1. 1 \in 1..Len(f) /\ Len(<<f[1]>>) = 1 /\ <<f[1]>>[1] = f[1] /\ 1 \in 1..Len(f)
  BY EmptySeq
<1>2. /\ f[1].snap <= v
      /\ \A q \in Publisher : pay[q] # 0 /\ pay[q] < f[1].snap => f[1].by # q
  <2>1. 1 \in 1..Len(f)
    BY <1>1
  <2>2. QED
    BY <1>1, <2>1 DEF Tidy
<1>3. QED
  BY <1>1, <1>2 DEF Tidy

\* A payload sent or just built, of the store's snapshot, is older than nothing.
LEMMA TidyPayload ==
    ASSUME NEW f \in Seq(Shown), NEW v \in Nat, NEW pay \in Payloads, NEW p \in Publisher,
           NEW w \in {0, v}, Tidy(f, v, pay)
    PROVE  Tidy(f, v, [pay EXCEPT ![p] = w])
<1>1. \A q \in Publisher : [pay EXCEPT ![p] = w][q] = IF q = p THEN w ELSE pay[q]
  BY DEF Payloads
<1>2. \A i \in 1..Len(f) : f[i].snap \in Nat
  BY ShownType
<1>3. QED
  BY <1>1, <1>2 DEF Tidy

LEMMA TidyNewer ==
    ASSUME NEW f \in Seq(Shown), NEW v \in Nat, NEW pay \in Payloads, Tidy(f, v, pay)
    PROVE  Tidy(f, v + 1, pay)
<1>1. \A i \in 1..Len(f) : f[i].snap \in Nat
  BY ShownType
<1>2. QED
  BY <1>1 DEF Tidy
-----------------------------------------------------------------------------
LEMMA FlowType == Inv => \A c \in Client : /\ Flow(c) \in Seq(Shown) /\ Flow(c) # <<>>
                                           /\ Flow(c)[1] = seen[c]
<1> SUFFICES ASSUME Inv, NEW c \in Client
             PROVE  Flow(c) \in Seq(Shown) /\ Flow(c) # <<>> /\ Flow(c)[1] = seen[c]
  OBVIOUS
<1>1. seen[c] \in Shown /\ queue[c] \in Seq(Shown)
  BY DEF Inv, TypeOK, Shown
<1>2. QED
  BY <1>1 DEF Flow

\* The invariant: every flow is tidy, and no payload is newer than the store.
Ordered == /\ \A p \in Publisher : payload[p] <= version
           /\ \A c \in Client : Tidy(Flow(c), version, payload)

LEMMA InitOrdered == Init => Ordered
<1> SUFFICES ASSUME Init, NEW c \in Client PROVE Tidy(Flow(c), version, payload)
  BY HubAssumption DEF HubAssumption, Init, Ordered
<1>1. Flow(c) = <<Hello>> /\ version = 1 /\ \A p \in Publisher : payload[p] = 0
  BY DEF Init, Flow
<1>2. Len(<<Hello>>) = 1 /\ <<Hello>>[1] = Hello /\ Hello.snap = 0
  BY DEF Hello
<1>3. QED
  BY <1>1, <1>2 DEF Tidy

LEMMA OrderedStep == Inv /\ Inv' /\ Ordered /\ [Next]_vars => Ordered'
<1> SUFFICES ASSUME Inv, Inv', Ordered, [Next]_vars PROVE Ordered'
  OBVIOUS
<1>1. /\ TypeOK /\ Version \subseteq Nat /\ version \in Nat /\ payload \in Payloads
      /\ \A p \in Publisher : payload[p] \in Nat /\ payload[p] <= version
  BY ShownType DEF Inv, TypeOK, Payloads, Ordered
<1>2. \A c \in Client : /\ Flow(c) \in Seq(Shown) /\ Flow(c) # <<>> /\ Flow(c)[1] = seen[c]
                        /\ Tidy(Flow(c), version, payload)
  BY FlowType DEF Ordered
<1>3. CASE UNCHANGED vars
  BY <1>3 DEF Ordered, Flow, vars
<1>4. CASE NewSnapshot
  <2>1. version' = version + 1 /\ payload' = payload /\ \A c \in Client : Flow(c)' = Flow(c)
    BY <1>4 DEF NewSnapshot, Flow
  <2>2. \A c \in Client : Tidy(Flow(c), version + 1, payload)
    BY <1>1, <1>2, TidyNewer
  <2>3. QED
    BY <1>1, <2>1, <2>2 DEF Ordered
<1>5. ASSUME NEW p \in Publisher, BuildPayload(p) PROVE Ordered'
  <2>1. /\ payload' = [payload EXCEPT ![p] = version] /\ version' = version
        /\ \A c \in Client : Flow(c)' = Flow(c)
    BY <1>5 DEF BuildPayload, Flow
  <2>2. \A c \in Client : Tidy(Flow(c), version, [payload EXCEPT ![p] = version])
    BY <1>1, <1>2, TidyPayload
  <2>3. \A q \in Publisher : payload'[q] <= version
    BY <1>1, <2>1 DEF Payloads
  <2>4. QED
    BY <2>1, <2>2, <2>3 DEF Ordered
<1>6. ASSUME NEW p \in Publisher, Broadcast(p) PROVE Ordered'
  <2> DEFINE event == [snap |-> payload[p], by |-> p]
             sent == [payload EXCEPT ![p] = 0]
  <2>1. payload[p] # 0 /\ payload' = sent /\ version' = version /\ seen' = seen
    BY <1>6 DEF Broadcast
  <2>2. event \in Event
    BY <1>1 DEF TypeOK, Event
  <2>3. ASSUME NEW c \in Client PROVE Tidy(Flow(c)', version, sent)
    <3>1. queue'[c] = Append(queue[c], event) \/ queue'[c] = queue[c]
      BY <1>6 DEF Broadcast, Sent
    <3>2. CASE queue'[c] = Append(queue[c], event)
      <4>1. seen[c] \in Shown /\ queue[c] \in Seq(Shown) /\ event \in Shown
        BY <1>1, <2>2 DEF TypeOK, Shown
      <4>2. <<seen[c]>> \o Append(queue[c], event) = Append(<<seen[c]>> \o queue[c], event)
        BY <4>1
      <4>3. Flow(c)' = Append(Flow(c), event)
        BY <2>1, <3>2, <4>2 DEF Flow
      <4>4. Tidy(Append(Flow(c), event), version, sent)
        BY <1>1, <1>2, <2>1, TidyAppend
      <4>5. QED
        BY <4>3, <4>4
    <3>3. CASE queue'[c] = queue[c]
      <4>1. Flow(c)' = Flow(c)
        BY <2>1, <3>3 DEF Flow
      <4>2. Tidy(Flow(c), version, sent)
        BY <1>1, <1>2, TidyPayload
      <4>3. QED
        BY <4>1, <4>2
    <3>4. QED
      BY <3>1, <3>2, <3>3
  <2>4. \A q \in Publisher : sent[q] <= version
    BY <1>1 DEF Payloads
  <2>5. QED
    BY <2>1, <2>3, <2>4 DEF Ordered
<1>7. ASSUME NEW c \in Client, Subscribe(c) PROVE Ordered'
  <2>1. /\ queue'[c] = <<>> /\ seen'[c] = Hello /\ version' = version /\ payload' = payload
        /\ \A d \in Client \ {c} : queue'[d] = queue[d] /\ seen'[d] = seen[d]
    BY <1>1, <1>7 DEF Subscribe, TypeOK
  <2>2. Flow(c)' = <<Hello>> /\ \A d \in Client \ {c} : Flow(d)' = Flow(d)
    BY <2>1 DEF Flow
  <2>3. Len(<<Hello>>) = 1 /\ <<Hello>>[1] = Hello /\ Hello.snap = 0
    BY DEF Hello
  <2>4. Tidy(<<Hello>>, version, payload)
    BY <1>1, <2>3 DEF Tidy
  <2>5. QED
    BY <1>1, <1>2, <2>1, <2>2, <2>4 DEF Ordered
<1>8. ASSUME NEW c \in Client, Flush(c) PROVE Ordered'
  <2>1. /\ queue[c] # <<>> /\ queue'[c] = Tail(queue[c]) /\ seen'[c] = Head(queue[c])
        /\ version' = version /\ payload' = payload
        /\ \A d \in Client \ {c} : queue'[d] = queue[d] /\ seen'[d] = seen[d]
    BY <1>1, <1>8 DEF Flush, TypeOK
  <2>2. seen[c] \in Shown /\ queue[c] \in Seq(Shown)
    BY <1>1 DEF TypeOK, Shown
  <2>3. <<Head(queue[c])>> \o Tail(queue[c]) = Tail(<<seen[c]>> \o queue[c])
    BY <2>1, <2>2
  <2>4. Flow(c)' = Tail(Flow(c)) /\ \A d \in Client \ {c} : Flow(d)' = Flow(d)
    BY <2>1, <2>3 DEF Flow
  <2>5. Tidy(Tail(Flow(c)), version, payload)
    BY <1>1, <1>2, TidyTail
  <2>6. QED
    BY <1>1, <1>2, <2>1, <2>4, <2>5 DEF Ordered
<1>9. ASSUME NEW c \in Client, Unsubscribe(c) PROVE Ordered'
  <2>1. /\ queue'[c] = <<>> /\ seen' = seen /\ version' = version /\ payload' = payload
        /\ \A d \in Client \ {c} : queue'[d] = queue[d]
    BY <1>1, <1>9 DEF Unsubscribe, TypeOK
  <2>2. Flow(c)' = <<Flow(c)[1]>> /\ \A d \in Client \ {c} : Flow(d)' = Flow(d)
    BY <1>2, <2>1 DEF Flow
  <2>3. Tidy(<<Flow(c)[1]>>, version, payload)
    BY <1>1, <1>2, TidyHead
  <2>4. QED
    BY <1>1, <1>2, <2>1, <2>2, <2>3 DEF Ordered
<1>10. QED
  BY <1>3, <1>4, <1>5, <1>6, <1>7, <1>8, <1>9 DEF Next, Publish

\* However many goroutines publish at once and in whatever order their payloads are sent,
\* whatever is missed and however slow its connection, no publisher sends a client back
\* to an older snapshot twice (publishUpdate, broadcast, handleEvents).
THEOREM NeverBackTwice == Spec => []BackAtMostOnce
<1>1. Inv /\ Ordered => BackAtMostOnce
  <2> SUFFICES ASSUME Inv, Ordered, NEW c \in open PROVE
        \A i, k \in DOMAIN Flow(c) : i < k /\ Flow(c)[k].snap < Flow(c)[i].snap
            => \A j \in i..(k - 1) : Flow(c)[j].by # Flow(c)[k].by
    BY DEF BackAtMostOnce
  <2>1. c \in Client
    BY DEF Inv, TypeOK
  <2>2. DOMAIN Flow(c) = 1..Len(Flow(c)) /\ Tidy(Flow(c), version, payload)
    BY <2>1, FlowType, LenProperties DEF Ordered
  <2>3. QED
    BY <2>2 DEF Tidy
<1>2. Inv /\ Inv' /\ Ordered /\ [Next]_vars => Ordered'
  BY OrderedStep
<1>3. QED
  BY <1>1, <1>2, InvHolds, InitOrdered, PTL DEF Spec
=============================================================================
