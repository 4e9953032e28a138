------------------------------- MODULE SSEHub -------------------------------
(* The fan-out of updates to EventSource clients (server/sse.go): a set of   *)
(* buffered channels guarded by sseHub.mu.  publishUpdate builds its payload *)
(* before it takes that lock, so two of them (the live loop and the handlers  *)
(* of requests) may overtake each other; a broadcast never waits for a client, *)
(* and each handleEvents goroutine drains its own channel at its own speed.   *)
EXTENDS Naturals, Sequences

CONSTANTS Client,
          Publisher,    \* goroutines that may be in publishUpdate at once
          Ticking,      \* those of them that publish for ever: the live loop
          Stream,       \* the handler itself, which says hello to its client
          Stuck,        \* clients whose network may stop taking data
          Buffer,       \* capacity of a channel
          MaxVersion    \* bound on the snapshots the store goes through

ASSUME HubAssumption == /\ Stuck \subseteq Client
                        /\ Ticking \subseteq Publisher
                        /\ Stream \notin Publisher
                        /\ Buffer \in Nat \ {0}
                        /\ MaxVersion \in Nat \ {0}

VARIABLES version,      \* the store's snapshot, numbered from the empty one of the start
          payload,      \* publishUpdate: the snapshot in its payload, 0 before it is built
          clients,      \* sseHub.clients
          open,         \* clients whose channel is not closed
          queue,        \* their channels
          seen          \* the event last flushed to each client

vars == <<version, payload, clients, open, queue, seen>>

Version == 0..MaxVersion

\* An update: the snapshot it shows and the publishUpdate that sent it.
Event == [snap : Version, by : Publisher]

\* The first event of every stream, which shows no snapshot.
Hello == [snap |-> 0, by |-> Stream]

TypeOK == /\ version \in Version
          /\ payload \in [Publisher -> Version]
          /\ clients \subseteq Client /\ open \subseteq Client
          /\ queue \in [Client -> Seq(Event)]
          /\ \A c \in Client : Len(queue[c]) <= Buffer
          /\ seen \in [Client -> Event \cup {Hello}]

Init == /\ version = 1
        /\ payload = [p \in Publisher |-> 0]
        /\ clients = {} /\ open = {}
        /\ queue = [c \in Client |-> <<>>]
        /\ seen = [c \in Client |-> Hello]

\* A refresh lands in the store.
NewSnapshot == /\ version < MaxVersion
               /\ version' = version + 1
               /\ UNCHANGED <<payload, clients, open, queue, seen>>

\* Mutant: the payload kept since the snapshot before is sent again.
BuildPayload_Cached(p) == /\ payload[p] = 0
                          /\ \E v \in {version - 1, version} \ {0} :
                               payload' = [payload EXCEPT ![p] = v]
                          /\ UNCHANGED <<version, clients, open, queue, seen>>

\* aircraftPayload, with no lock of the hub held.
BuildPayload(p) == /\ payload[p] = 0
                   /\ payload' = [payload EXCEPT ![p] = version]
                   /\ UNCHANGED <<version, clients, open, queue, seen>>

Full(c) == Len(queue[c]) = Buffer

\* The channels once p has sent its payload to the clients in to.
Sent(p, to) == [c \in Client |-> IF c \in to
                                  THEN Append(queue[c], [snap |-> payload[p], by |-> p])
                                  ELSE queue[c]]

\* Mutant: the send waits until every channel has room.
Broadcast_Blocking(p) ==
    /\ payload[p] # 0
    /\ \A c \in clients : ~Full(c)
    /\ queue' = Sent(p, clients)
    /\ payload' = [payload EXCEPT ![p] = 0]
    /\ UNCHANGED <<version, clients, open, seen>>

\* Under sseHub.mu: a client with a full channel misses this event.
Broadcast(p) ==
    /\ payload[p] # 0
    /\ queue' = Sent(p, {c \in clients : ~Full(c)})
    /\ payload' = [payload EXCEPT ![p] = 0]
    /\ UNCHANGED <<version, clients, open, seen>>

\* handleEvents starts with a new channel and an EventSource that has seen nothing.
Subscribe(c) == /\ c \notin open
                /\ open' = open \cup {c}
                /\ clients' = clients \cup {c}
                /\ queue' = [queue EXCEPT ![c] = <<>>]
                /\ seen' = [seen EXCEPT ![c] = Hello]
                /\ UNCHANGED <<version, payload>>

Flush(c) == /\ c \in open /\ queue[c] # <<>>
            /\ seen' = [seen EXCEPT ![c] = Head(queue[c])]
            /\ queue' = [queue EXCEPT ![c] = Tail(@)]
            /\ UNCHANGED <<version, payload, clients, open>>

\* Mutant: the channel is closed but stays registered.
Unsubscribe_KeepsClient(c) == /\ c \in open
                              /\ open' = open \ {c}
                              /\ queue' = [queue EXCEPT ![c] = <<>>]
                              /\ UNCHANGED <<version, payload, clients, seen>>

\* The request ends: unsubscribe deletes and closes the channel in one section.
Unsubscribe(c) == /\ c \in open
                  /\ open' = open \ {c}
                  /\ clients' = clients \ {c}
                  /\ queue' = [queue EXCEPT ![c] = <<>>]
                  /\ UNCHANGED <<version, payload, seen>>

Publish(p) == BuildPayload(p) \/ Broadcast(p)

Next == \/ NewSnapshot
        \/ \E p \in Publisher : Publish(p)
        \/ \E c \in Client : Subscribe(c) \/ Flush(c) \/ Unsubscribe(c)

\* Live ticks keep publishing, a payload once built is broadcast (the hub's lock is
\* never held across anything that waits), and a client that is not stuck keeps reading.
Fairness == /\ \A p \in Publisher : WF_vars(Broadcast(p))
            /\ \A p \in Ticking : WF_vars(BuildPayload(p))
            /\ \A c \in Client \ Stuck : WF_vars(Flush(c))

Spec == Init /\ [][Next]_vars /\ Fairness
-----------------------------------------------------------------------------
\* A broadcast never sends on a closed channel (which would panic the process),
\* however it interleaves with connections coming and going.
NoSendOnClosed == clients \subseteq open

\* What an open EventSource shows and is about to show.
Flow(c) == <<seen[c]>> \o queue[c]

\* Publishers overtake each other, but none sends a client back to an older snapshot
\* twice: an event older than one before it is the first its publisher has sent since
\* (publishUpdate builds its payload anew each time, sse.go:56-62), so behind a newer
\* event there are never more older ones than there are other publishers.
BackAtMostOnce ==
    \A c \in open : \A i, k \in DOMAIN Flow(c) :
        i < k /\ Flow(c)[k].snap < Flow(c)[i].snap
            => \A j \in i..(k - 1) : Flow(c)[j].by # Flow(c)[k].by

\* A stuck client holds nobody up and an overtaken payload does not stay: whoever reads
\* and stays connected ends on the last snapshot for good, even if updates in between
\* were missed or came out of order.
SettlesOnLast ==
    \A c \in Client \ Stuck, v \in Version \ {0} :
        <>[](version = v /\ c \in open) => <>[](seen[c].snap = v)
=============================================================================
