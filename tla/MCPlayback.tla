----------------------------- MODULE MCPlayback -----------------------------
EXTENDS Playback

B(t, x) == [at |-> t, pos |-> x]

\* Two aircraft: no trails, one tick, two, a later window that drops the first, one
\* aircraft only, and breadcrumbs that share a second, in the middle and at the end.
MCAnswers ==
    {[a1 |-> <<>>, a2 |-> <<>>],
     [a1 |-> <<B(2, 12)>>, a2 |-> <<>>],
     [a1 |-> <<B(1, 0), B(3, 24)>>, a2 |-> <<B(2, 12)>>],
     [a1 |-> <<B(3, 24), B(4, 12), B(6, 36)>>, a2 |-> <<B(4, 0), B(6, 24)>>],
     [a1 |-> <<>>, a2 |-> <<B(2, 12), B(2, 24), B(5, 0), B(5, 36)>>]}

MCIcao == {"a1", "a2"}
=============================================================================
