---------------------------- MODULE AuthLimiter ----------------------------
(* Live authorisation (server/auth.go) under a LIVE_TOKEN, as the page uses  *)
(* it, with its token in POST only: POST /api/auth/live is limited to         *)
(* max attempts a window and client, and a right token is answered with a     *)
(* cookie, which GET renews and DELETE clears.  allow reads the clock before  *)
(* it has the lock, so that attempts are recorded out of order, with times    *)
(* that are already past.  The server keeps no sessions: the token is the     *)
(* cookie, and what the browser holds is up to the order in which answers     *)
(* reach it.  Clients are limited one by one: here, one of them, with several  *)
(* requests at a time, and one browser of it with its cookie.                 *)
EXTENDS Integers, FiniteSets

CONSTANTS Attempt,      \* POST requests, each used again once it is forgotten
          Max, Window,  \* authLimiter.max and .window
          MaxDelay,     \* the longest wait between reading the clock and having the lock
          Renewal,      \* GET requests, each used again once it is answered
          CookieTTL     \* liveCookieMaxAge

ASSUME AuthAssumption == /\ IsFiniteSet(Attempt)
                         /\ {Max, Window, CookieTTL} \subseteq Nat \ {0}
                         /\ MaxDelay \in Nat
                         /\ Attempt \cap Renewal = {}

Horizon == Window + MaxDelay    \* times further back make no difference

VARIABLES hits,         \* authLimiter.hits: the attempts whose time it has recorded
          waiting,      \* attempts that have read the clock and want the lock
          read,         \* read[a]: how long ago a read the clock, up to Horizon
          coming,       \* requests whose answer, with a Set-Cookie, is on its way
          cookie,       \* time left of the browser's cookie; 0 without one
          passed,       \* history: how long ago a was let through, up to Horizon
          before,       \* history: requests under way since before the last logout
          proved,       \* history: a right token of a later request was accepted
          undone        \* history: the answer of an earlier one has set the cookie again

limit == <<hits, waiting, read, passed>>
session == <<coming, cookie, before, proved, undone>>
authVars == <<limit, session>>

AuthTypeOK == /\ hits \subseteq Attempt /\ waiting \subseteq Attempt \ hits
              /\ Cardinality(hits) <= Max
              /\ read \in [Attempt -> 0..Horizon]
              /\ passed \in [Attempt -> 0..Horizon]
              /\ coming \subseteq (Attempt \cup Renewal) \ waiting
              /\ cookie \in 0..CookieTTL
              /\ before \subseteq waiting \cup coming
              /\ proved \in BOOLEAN /\ undone \in BOOLEAN

AuthInit == /\ hits = {} /\ waiting = {} /\ coming = {} /\ before = {}
            /\ read = [a \in Attempt |-> Horizon]
            /\ passed = [a \in Attempt |-> Horizon]
            /\ cookie = 0
            /\ proved = FALSE /\ undone = FALSE
-----------------------------------------------------------------------------
\* now := authNow(), before l.mu.Lock().
ReadClock(a) == /\ a \notin hits \cup waiting \cup coming /\ passed[a] = Horizon
                /\ waiting' = waiting \cup {a}
                /\ read' = [read EXCEPT ![a] = 0]
                /\ UNCHANGED <<hits, passed, session>>

\* t.After(now.Add(-l.window)) for the now of a.
Kept(a) == {t \in hits : read[t] < read[a] + Window}

\* Mutant: one attempt too many.
Full_OffByOne(a) == Cardinality(Kept(a)) > Max

\* len(kept) >= l.max
Full(a) == Cardinality(Kept(a)) >= Max

\* Mutant: an attempt that is refused is recorded all the same.
Refuse_Recorded(a) == /\ a \in waiting /\ Full(a)
                      /\ waiting' = waiting \ {a}
                      /\ hits' = Kept(a) \cup {a}
                      /\ before' = before \ {a}
                      /\ UNCHANGED <<read, passed, coming, cookie, proved, undone>>

\* 429: the attempt itself leaves no trace.
Refuse(a) == /\ a \in waiting /\ Full(a)
             /\ waiting' = waiting \ {a}
             /\ hits' = Kept(a)
             /\ before' = before \ {a}
             /\ UNCHANGED <<read, passed, coming, cookie, proved, undone>>

\* The attempt counts, whatever its token; a right one is answered with the cookie.
Accept(a) == /\ a \in waiting /\ ~Full(a)
             /\ waiting' = waiting \ {a}
             /\ hits' = Kept(a) \cup {a}
             /\ passed' = [passed EXCEPT ![a] = 0]
             /\ \/ /\ coming' = coming \cup {a}
                   /\ proved' = (proved \/ a \notin before)
                   /\ UNCHANGED before
                \/ /\ before' = before \ {a}     \* 401
                   /\ UNCHANGED <<coming, proved>>
             /\ UNCHANGED <<read, cookie, undone>>

\* Mutant: the status hands out a cookie to everybody.
Status_Always(r) == /\ r \notin coming
                    /\ coming' = coming \cup {r}
                    /\ UNCHANGED <<limit, cookie, before, proved, undone>>

\* GET, sent with the cookie if there is one left, and then answered with a new one: what
\* is in between does not matter, as only the cookie it was sent with is looked at.
Status(r) == /\ r \notin coming /\ cookie > 0
             /\ coming' = coming \cup {r}
             /\ UNCHANGED <<limit, cookie, before, proved, undone>>

\* The browser gets the answer to x: Set-Cookie starts the cookie's life anew, whatever
\* the browser has been told since x was sent.
Arrive(x) == /\ x \in coming
             /\ coming' = coming \ {x} /\ before' = before \ {x}
             /\ cookie' = CookieTTL
             /\ undone' = (undone \/ x \in before)
             /\ UNCHANGED <<limit, proved>>

Lost(x) == /\ x \in coming
           /\ coming' = coming \ {x} /\ before' = before \ {x}
           /\ UNCHANGED <<limit, cookie, proved, undone>>

\* The answer to DELETE reaches the browser; to the server nothing has happened.
Logout == /\ cookie' = 0
          /\ before' = waiting \cup coming
          /\ proved' = FALSE /\ undone' = FALSE
          /\ UNCHANGED <<limit, coming>>

\* One unit of time; nobody waits for the lock longer than MaxDelay.
Later(n) == IF n < Horizon THEN n + 1 ELSE n
Tick == /\ \A a \in waiting : read[a] < MaxDelay
        /\ read' = [a \in Attempt |-> Later(read[a])]
        /\ passed' = [a \in Attempt |-> Later(passed[a])]
        /\ cookie' = IF cookie > 0 THEN cookie - 1 ELSE 0
        /\ UNCHANGED <<hits, waiting, coming, before, proved, undone>>

AuthNext == \/ \E a \in Attempt : ReadClock(a) \/ Refuse(a) \/ Accept(a)
            \/ \E r \in Renewal : Status(r)
            \/ \E x \in Attempt \cup Renewal : Arrive(x) \/ Lost(x)
            \/ Logout \/ Tick

AuthSpec == AuthInit /\ [][AuthNext]_authVars
-----------------------------------------------------------------------------
\* No window, short of the time a request may wait for the lock, lets more than max
\* attempts through: none is pruned early, although a request that read the clock later
\* may have pruned on behalf of one that read it earlier (auth.go:45-58).
WindowBudget ==
    Cardinality({a \in Attempt : passed[a] < Window - MaxDelay}) <= Max

\* Nobody is shut out by attempts that were refused themselves: a refusal means that max
\* attempts were let through within the last window and the wait for the lock.
NoLockout ==
    [][\A a \in waiting : Refuse(a) =>
         Cardinality({t \in Attempt : passed[t] < Horizon}) >= Max]_authVars

\* After a logout a browser is authorised only if a token got to the server since, or if
\* an answer to a request that overlapped the logout came after that of the DELETE and set
\* the cookie again (auth.go:183-192): renewing never makes a session out of nothing, and
\* nothing that was sent after a logout undoes it.
LogoutHolds == cookie > 0 => proved \/ undone
=============================================================================
