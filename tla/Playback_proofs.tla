--------------------------- MODULE Playback_proofs ---------------------------
(* For any aircraft, any trails in the order of their times, any speeds and   *)
(* links: what playback draws is what the trails say of the time on its clock, *)
(* and that time is one they reach.                                            *)
EXTENDS Playback, SequenceTheorems, WellFoundedInduction, TLAPS

\* A set of naturals has a least element, from the well-foundedness of <: what the proofs
\* below use in place of induction, on the least index at which something would go wrong.
LEMMA NatLeast == ASSUME NEW S, S \subseteq Nat, S # {}
                  PROVE  \E x \in S : \A y \in S : x <= y
<1>1. \A x, y \in Nat : <<y, x>> \in OpToRel(<, Nat) <=> y < x
  BY DEF OpToRel
<1>2. PICK R : IsWellFoundedOn(R, Nat) /\ \A x, y \in Nat : <<y, x>> \in R <=> y < x
  BY NatLessThanWellFounded, <1>1, Zenon
<1>3. PICK x \in S : \A y \in S : ~ (<<y, x>> \in R)
  BY WFMin, <1>2
<1>4. \A y \in S : x <= y
  <2> TAKE y \in S
  <2>1. ~ (y < x)
    BY <1>2, <1>3
  <2>2. QED
    BY <2>1
<1>5. QED
  BY <1>4

LEMMA LeastOf == ASSUME NEW S, S \subseteq 1..MaxAt, S # {}
                 PROVE  Least(S) \in S /\ \A y \in S : Least(S) <= y
<1>1. \E x \in S : \A y \in S : x <= y
  <2>1. S \subseteq Nat
    BY PlaybackAssumption DEF PlaybackAssumption
  <2>2. QED
    BY <2>1, NatLeast
<1>2. QED
  BY <1>1, Zenon DEF Least

LEMMA GreatestOf == ASSUME NEW S, S \subseteq 1..MaxAt, S # {}
                    PROVE  Greatest(S) \in S /\ \A y \in S : y <= Greatest(S)
<1> DEFINE R == {MaxAt - x : x \in S}
<1>1. R \subseteq Nat /\ R # {}
  <2>1. MaxAt \in Nat
    BY PlaybackAssumption DEF PlaybackAssumption
  <2>2. \A x \in S : MaxAt - x \in Nat
    BY <2>1
  <2>3. QED
    BY <2>2
<1>2. PICK r \in R : \A q \in R : r <= q
  BY <1>1, NatLeast
<1>3. PICK x \in S : r = MaxAt - x
  BY <1>2
<1>4. \A y \in S : y <= x
  <2> TAKE y \in S
  <2>1. MaxAt - y \in R
    OBVIOUS
  <2>2. r <= MaxAt - y
    BY <1>2, <2>1
  <2>3. QED
    BY <2>2, <1>3, PlaybackAssumption DEF PlaybackAssumption
<1>5. QED
  BY <1>4, Zenon DEF Greatest

\* What a trail is made of.
LEMMA Crumbs == ASSUME NEW p \in Seq(Point)
                PROVE  /\ Len(p) \in Nat
                       /\ \A k \in 1..Len(p) : /\ p[k] \in Point
                                               /\ p[k].at \in 1..MaxAt /\ p[k].at \in Nat \ {0}
                                               /\ p[k].pos \in Nat
<1>1. Len(p) \in Nat
  BY LenProperties
<1>2. \A k \in 1..Len(p) : p[k] \in Point
  BY ElementOfSeq
<1>3. \A q \in Point : q.at \in 1..MaxAt /\ q.pos \in Nat
  BY DEF Point
<1>4. MaxAt \in Nat
  BY PlaybackAssumption DEF PlaybackAssumption
<1>5. QED
  BY <1>1, <1>2, <1>3, <1>4

\* Breadcrumbs, one after the other in the order of their times, are so at any distance.
Ordered(p) == \A j, k \in 1..Len(p) : j <= k => p[j].at <= p[k].at

LEMMA Chronology ==
  ASSUME NEW p \in Seq(Point), \A k \in 1..(Len(p) - 1) : p[k].at <= p[k + 1].at
  PROVE  Ordered(p)
<1> SUFFICES ASSUME NEW j \in 1..Len(p), NEW m \in 1..Len(p), j <= m, ~ (p[j].at <= p[m].at)
             PROVE  FALSE
  BY DEF Ordered
<1> DEFINE bad == {k \in j..Len(p) : ~ (p[j].at <= p[k].at)}
<1>1. Len(p) \in Nat /\ \A k \in 1..Len(p) : p[k].at \in Nat
  BY Crumbs
<1>2. bad \subseteq Nat /\ m \in bad
  BY <1>1
<1>3. PICK k \in bad : \A i \in bad : k <= i
  BY <1>2, NatLeast
<1>4. k # j
  BY <1>1
<1>5. k - 1 \in j..Len(p) /\ k - 1 \in 1..(Len(p) - 1) /\ k - 1 \notin bad
  BY <1>1, <1>3, <1>4
<1>6. p[k - 1].at <= p[(k - 1) + 1].at
  BY <1>5
<1>7. (k - 1) + 1 = k
  BY <1>1
<1>8. QED
  <2>1. p[j].at <= p[k - 1].at
    BY <1>5
  <2>2. p[k - 1].at <= p[k].at
    BY <1>6, <1>7
  <2>3. k \in 1..Len(p) /\ k - 1 \in 1..Len(p) /\ ~ (p[j].at <= p[k].at)
    BY <1>1, <1>3, <1>5
  <2>4. QED
    BY <1>1, <2>1, <2>2, <2>3

\* The first segment to end at t or later: the ones before it all end earlier.
LEMMA FirstSegment ==
  ASSUME NEW p \in Seq(Point), NEW t \in Nat
  PROVE  LET k == SegmentEnd(p, t) IN
         /\ k \in Nat
         /\ k # Len(p) + 1 => k \in 2..Len(p) /\ t <= p[k].at
         /\ \A j \in 2..Len(p) : j < k => p[j].at < t
<1> DEFINE ends == {k \in 2..Len(p) : t <= p[k].at}
<1>1. Len(p) \in Nat /\ \A k \in 1..Len(p) : p[k].at \in Nat
  BY Crumbs
<1>2. ends \subseteq Nat
  BY <1>1
<1>3. CASE ends = {}
  <2>1. SegmentEnd(p, t) = Len(p) + 1
    BY <1>3 DEF SegmentEnd
  <2>2. \A j \in 2..Len(p) : p[j].at < t
    BY <1>1, <1>3
  <2>3. QED
    BY <1>1, <2>1, <2>2
<1>4. CASE ends # {}
  <2>1. \E k \in ends : \A j \in ends : k <= j
    BY <1>2, <1>4, NatLeast
  <2>2. SegmentEnd(p, t) = CHOOSE k \in ends : \A j \in ends : k <= j
    BY <1>4 DEF SegmentEnd
  <2>3. SegmentEnd(p, t) \in ends /\ \A j \in ends : SegmentEnd(p, t) <= j
    BY <2>1, <2>2
  <2>4. QED
    BY <1>1, <2>3
<1>5. QED
  BY <1>3, <1>4

\* A quotient lies between the bounds of its dividend.
LEMMA Quotient == ASSUME NEW a \in Int, NEW d \in Nat \ {0}
                  PROVE  /\ a \div d \in Int
                         /\ d * (a \div d) <= a /\ a < d * (a \div d) + d
OBVIOUS

LEMMA QuotientBelow == ASSUME NEW a \in Int, NEW d \in Nat \ {0}, NEW h \in Int, a <= h * d
                       PROVE  a \div d <= h
<1> DEFINE q == a \div d
<1>1. q \in Int /\ d * q <= a
  BY Quotient
<1>2. SUFFICES ASSUME q >= h + 1 PROVE FALSE
  BY <1>1
<1> HIDE DEF q
<1>3. d * q >= d * (h + 1)
  BY ONLY <1>1, <1>2, d \in Nat \ {0}, h \in Int
<1>4. d * (h + 1) = h * d + d
  BY ONLY d \in Nat \ {0}, h \in Int
<1>5. h * d \in Int /\ d * q \in Int
  BY <1>1
<1>6. QED
  BY <1>1, <1>3, <1>4, <1>5

LEMMA QuotientAbove == ASSUME NEW a \in Int, NEW d \in Nat \ {0}, NEW l \in Int, l * d <= a
                       PROVE  l <= a \div d
<1> DEFINE q == a \div d
<1>1. q \in Int /\ a < d * q + d
  BY Quotient
<1>2. SUFFICES ASSUME q + 1 <= l PROVE FALSE
  BY <1>1
<1> HIDE DEF q
<1>3. d * (q + 1) <= d * l
  BY ONLY <1>1, <1>2, d \in Nat \ {0}, l \in Int
<1>4. d * (q + 1) = d * q + d /\ d * l = l * d
  BY ONLY <1>1, d \in Nat \ {0}, l \in Int
<1>5. d * l \in Int /\ d * q \in Int
  BY <1>1
<1>6. QED
  BY <1>1, <1>3, <1>4, <1>5

\* Interpolation stays between the ends of a segment and reaches the second one.
LEMMA Interpolation ==
  ASSUME NEW a \in Point, NEW b \in Point, NEW t \in Nat, a.at < t, t <= b.at
  PROVE  LET x == Between(a, b, t) IN
         /\ x \in Int
         /\ (a.pos <= x /\ x <= b.pos) \/ (b.pos <= x /\ x <= a.pos)
         /\ t = b.at => x = b.pos
<1> DEFINE d == b.at - a.at  r == t - a.at  m == b.pos - a.pos
<1>1. /\ a.at \in Nat /\ b.at \in Nat /\ a.pos \in Nat /\ b.pos \in Nat
  BY PlaybackAssumption DEF PlaybackAssumption, Point
<1>2. d \in Nat \ {0} /\ r \in Nat /\ r <= d /\ m \in Int /\ (t = b.at => r = d)
  BY <1>1
<1>3. Between(a, b, t) = a.pos + (m * r) \div d
  BY DEF Between
<1> HIDE DEF d, r, m
<1> DEFINE q == (m * r) \div d
<1>4. m * r \in Int
  BY <1>2
<1>5. CASE m >= 0
  <2>1. 0 * d <= m * r /\ m * r <= m * d
    BY ONLY <1>2, <1>5
  <2>2. 0 <= q /\ q <= m
    BY <1>2, <1>4, <2>1, QuotientAbove, QuotientBelow
  <2>3. r = d => q = m
    <3>1. SUFFICES ASSUME r = d PROVE m <= q
      BY <1>2, <1>4, <2>2, Quotient
    <3>2. m * d <= m * r
      BY <1>4, <3>1
    <3>3. QED
      BY <1>2, <1>4, <3>2, QuotientAbove
  <2>4. q \in Int
    BY <1>2, <1>4, Quotient
  <2>5. Between(a, b, t) = a.pos + q
    BY <1>3
  <2> HIDE DEF q
  <2>6. QED
    BY <1>1, <1>2, <2>2, <2>3, <2>4, <2>5 DEF m
<1>6. CASE m <= 0
  <2>1. m * d <= m * r /\ m * r <= 0 * d
    BY ONLY <1>2, <1>6
  <2>2. m <= q /\ q <= 0
    BY <1>2, <1>4, <2>1, QuotientAbove, QuotientBelow
  <2>3. r = d => q = m
    <3>1. SUFFICES ASSUME r = d PROVE q <= m
      BY <1>2, <1>4, <2>2, Quotient
    <3>2. m * r <= m * d
      BY <1>4, <3>1
    <3>3. QED
      BY <1>2, <1>4, <3>2, QuotientBelow
  <2>4. q \in Int
    BY <1>2, <1>4, Quotient
  <2>5. Between(a, b, t) = a.pos + q
    BY <1>3
  <2> HIDE DEF q
  <2>6. QED
    BY <1>1, <1>2, <2>2, <2>3, <2>4, <2>5 DEF m
<1>7. QED
  BY <1>2, <1>5, <1>6

\* Within a trail both positionAt and PositionAt interpolate on the segment the time is in.
LEMMA Inside ==
  ASSUME NEW p \in Seq(Point), Ordered(p), NEW t \in Nat,
         Len(p) > 1, p[1].at < t, t < Last(p).at
  PROVE  \E k \in 2..Len(p) : /\ p[k - 1].at < t /\ t <= p[k].at
                             /\ positionAt(p, t) = Between(p[k - 1], p[k], t)
                             /\ PositionAt(p, t) = Between(p[k - 1], p[k], t)
<1> DEFINE k == SegmentEnd(p, t)
<1>1. Len(p) \in Nat /\ \A j \in 1..Len(p) : p[j].at \in Nat
  BY Crumbs
<1>2. /\ k \in Nat
      /\ k # Len(p) + 1 => k \in 2..Len(p) /\ t <= p[k].at
      /\ \A j \in 2..Len(p) : j < k => p[j].at < t
  BY FirstSegment
<1>3. p # <<>>
  BY <1>1, EmptySeq
<1> HIDE DEF k
<1>4. k \in 2..Len(p) /\ t <= p[k].at
  <2>1. Len(p) \in 2..Len(p) /\ ~ (p[Len(p)].at < t)
    BY <1>1 DEF Last
  <2>2. QED
    BY <1>1, <1>2, <2>1
<1>5. p[k - 1].at < t
  <2>1. CASE k = 2
    BY <2>1
  <2>2. CASE k # 2
    BY <1>1, <1>2, <1>4, <2>2
  <2>3. QED
    BY <2>1, <2>2
<1>6. p[k].at # p[k - 1].at /\ ~ (t >= Last(p).at) /\ ~ (k > Len(p))
  <2>1. k - 1 \in 1..Len(p) /\ Len(p) \in 1..Len(p)
    BY <1>1, <1>4
  <2>2. QED
    BY <1>1, <1>4, <1>5, <2>1 DEF Last
<1>7. 1 \in 1..Len(p) /\ ~ (t < p[1].at) /\ t # p[1].at /\ t > p[1].at /\ Len(p) # 1
  BY <1>1
<1>8. positionAt(p, t) = Between(p[k - 1], p[k], t)
  BY <1>3, <1>6, <1>7 DEF positionAt, k
<1>9. PositionAt(p, t) = Between(p[k - 1], p[k], t)
  BY <1>3, <1>6, <1>7 DEF PositionAt, k
<1>10. QED
  BY <1>4, <1>5, <1>8, <1>9

\* The other cases of positionAt.
LEMMA Outside ==
  ASSUME NEW p \in Seq(Point), p # <<>>, Ordered(p), NEW t \in Nat
  PROVE  /\ Len(p) = 1 => positionAt(p, t) = p[1].pos
         /\ Len(p) > 1 /\ t < p[1].at => positionAt(p, t) = None
         /\ Len(p) > 1 /\ t = p[1].at => /\ positionAt(p, t) = p[1].pos
                                        /\ PositionAt(p, t) = p[1].pos
         /\ Len(p) > 1 /\ p[1].at < t /\ Last(p).at <= t => positionAt(p, t) = Last(p).pos
<1>1. Len(p) \in Nat /\ \A j \in 1..Len(p) : p[j].at \in Nat
  BY Crumbs
<1>2. Len(p) = 1 => positionAt(p, t) = p[1].pos
  BY DEF positionAt
<1>3. Len(p) > 1 /\ t < p[1].at => positionAt(p, t) = None
  BY <1>1 DEF positionAt
<1>4. Len(p) > 1 /\ t = p[1].at => positionAt(p, t) = p[1].pos /\ PositionAt(p, t) = p[1].pos
  BY <1>1 DEF positionAt, PositionAt
<1>5. Len(p) > 1 /\ p[1].at < t /\ Last(p).at <= t => positionAt(p, t) = Last(p).pos
  <2> SUFFICES ASSUME Len(p) > 1, p[1].at < t, Last(p).at <= t
               PROVE  positionAt(p, t) = Last(p).pos
    OBVIOUS
  <2>1. /\ 1 \in 1..Len(p) /\ Len(p) # 1 /\ t > p[1].at /\ ~ (t < p[1].at) /\ t # p[1].at
        /\ Len(p) \in 1..Len(p)
    BY <1>1
  <2>2. t >= Last(p).at
    BY <1>1, <2>1 DEF Last
  <2>3. QED
    BY <2>1, <2>2 DEF positionAt
<1>6. QED
  BY <1>2, <1>3, <1>4, <1>5

\* After its last breadcrumb, one that is alone at its time, a trail ends where the
\* server's function ends it.
LEMMA AtTheEnd ==
  ASSUME NEW p \in Seq(Point), Ordered(p), NEW t \in Nat,
         Len(p) > 1, p[1].at < t, Last(p).at <= t, p[Len(p) - 1].at < Last(p).at
  PROVE  PositionAt(p, t) = Last(p).pos
<1> DEFINE k == SegmentEnd(p, t)
<1>1. Len(p) \in Nat /\ \A j \in 1..Len(p) : p[j].at \in Nat /\ p[j] \in Point
  BY Crumbs
<1>2. /\ k \in Nat
      /\ k # Len(p) + 1 => k \in 2..Len(p) /\ t <= p[k].at
  BY FirstSegment
<1>3. p # <<>>
  BY <1>1, EmptySeq
<1> HIDE DEF k
<1>4. 1 \in 1..Len(p) /\ Len(p) # 1 /\ t > p[1].at /\ ~ (t < p[1].at) /\ t # p[1].at
  BY <1>1
<1>5. PositionAt(p, t) = IF k > Len(p) THEN Last(p).pos ELSE Between(p[k - 1], p[k], t)
  BY <1>3, <1>4 DEF PositionAt, k
<1>6. CASE k = Len(p) + 1
  BY <1>1, <1>5, <1>6
<1>7. CASE k # Len(p) + 1
  <2>1. k \in 2..Len(p) /\ t <= p[k].at
    BY <1>2, <1>7
  <2>2. k = Len(p)
    <3>1. SUFFICES ASSUME k <= Len(p) - 1 PROVE FALSE
      BY <1>1, <2>1
    <3>2. /\ k \in 1..Len(p) /\ Len(p) - 1 \in 1..Len(p) /\ Len(p) \in 1..Len(p)
      BY <1>1, <2>1, <3>1
    <3>3. p[k].at <= p[Len(p) - 1].at
      BY <3>1, <3>2 DEF Ordered
    <3>4. QED
      BY <1>1, <2>1, <3>2, <3>3 DEF Last
  <2>3. k - 1 \in 1..Len(p) /\ k \in 1..Len(p) /\ k - 1 = Len(p) - 1
    BY <1>1, <2>1, <2>2
  <2>4. p[k - 1].at < t /\ t = p[k].at
    BY <1>1, <2>1, <2>2, <2>3 DEF Last
  <2>5. Between(p[k - 1], p[k], t) = p[k].pos
    BY <1>1, <2>3, <2>4, Interpolation
  <2>6. ~ (k > Len(p))
    BY <1>1, <2>1
  <2>7. QED
    BY <1>5, <2>2, <2>5, <2>6 DEF Last
<1>8. QED
  BY <1>6, <1>7

\* What Interpolates says of an aircraft with trail p that positionAt puts at d when it is t.
InPlace(p, t, d) ==
    LET past == {k \in 1..Len(p) : p[k].at <= t}
        next == {k \in 1..Len(p) : p[k].at >= t}
        Within(j, k) == \/ p[j].pos <= d /\ d <= p[k].pos
                        \/ p[k].pos <= d /\ d <= p[j].pos
    IN /\ Len(p) > 1 => ((d = None) <=> (past = {}))
       /\ next = {} => d = Last(p).pos
       /\ past # {} /\ next # {} => \E j \in past, k \in next : k <= j + 1 /\ Within(j, k)
       /\ Len(p) > 1 /\ p[Len(p) - 1].at < Last(p).at => d = PositionAt(p, t)

\* positionAt puts an aircraft where Interpolates wants it.
LEMMA Drawn ==
  ASSUME NEW p \in Seq(Point), p # <<>>, Ordered(p), NEW t \in Nat
  PROVE  InPlace(p, t, positionAt(p, t)) /\ positionAt(p, t) \in Int
<1> DEFINE d == positionAt(p, t)
           past == {k \in 1..Len(p) : p[k].at <= t}
           next == {k \in 1..Len(p) : p[k].at >= t}
           Within(j, k) == \/ p[j].pos <= d /\ d <= p[k].pos
                           \/ p[k].pos <= d /\ d <= p[j].pos
           Near == \E j \in past, k \in next : k <= j + 1 /\ Within(j, k)
           Same == p[Len(p) - 1].at < Last(p).at => d = PositionAt(p, t)
<1>1. /\ Len(p) \in Nat
      /\ \A j \in 1..Len(p) : p[j] \in Point /\ p[j].at \in Nat /\ p[j].pos \in Nat
  BY Crumbs
<1>2. Len(p) >= 1 /\ 1 \in 1..Len(p) /\ Len(p) \in 1..Len(p)
  BY <1>1, EmptySeq
<1>3. \A j \in 1..Len(p) : p[1].at <= p[j].at /\ p[j].at <= p[Len(p)].at
  BY <1>1, <1>2 DEF Ordered
<1>4. None \notin Nat /\ None \in Int
  BY DEF None
<1>5. SUFFICES /\ Len(p) > 1 => ((d = None) <=> (past = {}))
               /\ next = {} => d = Last(p).pos
               /\ past # {} /\ next # {} => Near
               /\ Len(p) > 1 => Same
               /\ d \in Int
  BY DEF InPlace
<1>6. CASE Len(p) = 1
  <2>1. d = p[1].pos /\ Last(p) = p[1]
    BY <1>6, Outside DEF Last
  <2>2. past # {} /\ next # {} => 1 \in past /\ 1 \in next
    BY <1>6
  <2>3. Within(1, 1)
    BY <1>1, <1>2, <2>1
  <2> HIDE DEF past, next, d, Within
  <2>4. past # {} /\ next # {} => Near
    BY <2>2, <2>3
  <2>5. QED
    BY <1>1, <1>2, <1>6, <2>1, <2>4
<1>7. CASE Len(p) > 1 /\ t < p[1].at
  <2>1. d = None
    BY <1>7, Outside
  <2>2. past = {} /\ next # {}
    BY <1>1, <1>2, <1>3, <1>7
  <2>3. PositionAt(p, t) = None
    BY <1>1, <1>2, <1>7, EmptySeq DEF PositionAt
  <2> HIDE DEF past, next, d
  <2>4. QED
    BY <1>4, <2>1, <2>2, <2>3
<1>8. CASE Len(p) > 1 /\ t = p[1].at
  <2>1. d = p[1].pos /\ PositionAt(p, t) = p[1].pos
    BY <1>8, Outside
  <2>2. 1 \in past /\ 1 \in next
    BY <1>1, <1>2, <1>8
  <2>3. Within(1, 1)
    BY <1>1, <1>2, <2>1
  <2>4. d \in Nat
    BY <1>1, <1>2, <2>1
  <2> HIDE DEF past, next, d, Within
  <2>5. QED
    BY <1>4, <2>1, <2>2, <2>3, <2>4
<1>9. CASE Len(p) > 1 /\ p[1].at < t /\ Last(p).at <= t
  <2>1. d = Last(p).pos
    BY <1>9, Outside
  <2>2. d \in Nat
    BY <1>1, <1>2, <2>1 DEF Last
  <2>3. 1 \in past
    BY <1>1, <1>2, <1>9
  <2>4. next # {} => Len(p) \in past /\ Len(p) \in next
    BY <1>1, <1>2, <1>3, <1>9 DEF Last
  <2>5. Within(Len(p), Len(p))
    BY <1>1, <1>2, <2>1 DEF Last
  <2>6. Same
    BY <1>9, <2>1, AtTheEnd
  <2>7. Len(p) <= Len(p) + 1
    BY <1>1
  <2> HIDE DEF past, next, d, Within, Same
  <2>8. QED
    BY <1>4, <2>1, <2>2, <2>3, <2>4, <2>5, <2>6, <2>7
<1>10. CASE Len(p) > 1 /\ p[1].at < t /\ t < Last(p).at
  <2>1. PICK k \in 2..Len(p) : /\ p[k - 1].at < t /\ t <= p[k].at
                               /\ positionAt(p, t) = Between(p[k - 1], p[k], t)
                               /\ PositionAt(p, t) = Between(p[k - 1], p[k], t)
    BY <1>10, Inside
  <2>2. k - 1 \in 1..Len(p) /\ k \in 1..Len(p) /\ k <= (k - 1) + 1
    BY <1>1, <2>1
  <2>3. d \in Int /\ Within(k - 1, k)
    BY <1>1, <2>1, <2>2, Interpolation
  <2>4. k - 1 \in past /\ k \in next /\ 1 \in past
    BY <1>1, <1>2, <1>10, <2>1, <2>2
  <2>5. d # None
    BY <1>1, <2>2, <2>3 DEF None
  <2>6. Same
    BY <2>1
  <2> HIDE DEF past, next, d, Within, Same
  <2>7. QED
    BY <2>2, <2>3, <2>4, <2>5, <2>6
<1>11. QED
  <2>1. t < p[1].at \/ t = p[1].at \/ p[1].at < t
    BY <1>1, <1>2
  <2>2. Last(p).at <= t \/ t < Last(p).at
    BY <1>1, <1>2 DEF Last
  <2>3. Len(p) = 1 \/ Len(p) > 1
    BY <1>1, <1>2
  <2>4. QED
    BY <1>6, <1>7, <1>8, <1>9, <1>10, <2>1, <2>2, <2>3
-----------------------------------------------------------------------------
Bare == [i \in Icao |-> <<>>]

\* Every trail that there may be is a sequence of breadcrumbs in the order of their times.
LEMMA TrailsInOrder ==
  ASSUME NEW T \in Answers \cup {Bare}, NEW i \in Icao
  PROVE  T[i] \in Seq(Point) /\ Ordered(T[i])
<1>1. CASE T \in Answers
  <2>1. T[i] \in Seq(Point) /\ \A k \in 1..(Len(T[i]) - 1) : T[i][k].at <= T[i][k + 1].at
    BY <1>1, PlaybackAssumption DEF PlaybackAssumption
  <2>2. QED
    BY <2>1, Chronology
<1>2. CASE T = Bare
  <2>1. T[i] = <<>>
    BY <1>2 DEF Bare
  <2>2. <<>> \in Seq(Point) /\ Len(<<>>) = 0
    BY EmptySeq
  <2>3. QED
    BY <2>1, <2>2 DEF Ordered
<1>3. QED
  BY <1>1, <1>2

\* The range spans the times of the trails.
LEMMA Span ==
  ASSUME NEW T \in Answers \cup {Bare}
  PROVE  /\ Times(T) \subseteq 1..MaxAt
         /\ Least(Times(T)) \in 0..MaxAt
         /\ Greatest(Times(T)) \in Least(Times(T))..MaxAt
         /\ \A x \in Times(T) : x \in Least(Times(T))..Greatest(Times(T))
<1>1. MaxAt \in Nat
  BY PlaybackAssumption DEF PlaybackAssumption
<1>2. Times(T) \subseteq 1..MaxAt
  BY TrailsInOrder, Crumbs DEF Times
<1>3. CASE Times(T) = {}
  BY <1>1, <1>3 DEF Least, Greatest
<1>4. CASE Times(T) # {}
  <2>1. Least(Times(T)) \in Times(T) /\ \A y \in Times(T) : Least(Times(T)) <= y
    BY <1>2, <1>4, LeastOf
  <2>2. Greatest(Times(T)) \in Times(T) /\ \A y \in Times(T) : y <= Greatest(Times(T))
    BY <1>2, <1>4, GreatestOf
  <2>3. QED
    BY <1>1, <1>2, <2>1, <2>2
<1>5. QED
  BY <1>2, <1>3, <1>4

LEMMA Half == ASSUME NEW n \in Nat \ {0} PROVE n \div 2 + 1 \in 1..n
<1>1. n \div 2 \in Int /\ 0 <= n \div 2 /\ n \div 2 < n
  OBVIOUS
<1>2. QED
  BY <1>1

\* A mark sits in the middle of a trail.
LEMMA Middles ==
  ASSUME NEW T \in Answers
  PROVE  Marks(T) \subseteq Jump /\ \A m \in Marks(T) : m.to \in Times(T)
<1> SUFFICES ASSUME NEW i \in Icao, T[i] # <<>>
             PROVE  LET m == [icao |-> i, to |-> T[i][Len(T[i]) \div 2 + 1].at]
                    IN  m \in Jump /\ m.to \in Times(T)
  BY DEF Marks
<1>1. T[i] \in Seq(Point)
  BY TrailsInOrder
<1>2. Len(T[i]) \in Nat \ {0}
  BY <1>1, EmptySeq
<1>3. Len(T[i]) \div 2 + 1 \in 1..Len(T[i])
  BY <1>2, Half
<1>4. T[i][Len(T[i]) \div 2 + 1].at \in Times(T)
  BY <1>3 DEF Times
<1>5. Times(T) \subseteq 1..MaxAt
  BY Span
<1>6. QED
  BY <1>4, <1>5 DEF Jump

\* What an answer leaves of range and clock: within an unlocked range, both are in it.
LEMMA AnswerRange ==
  ASSUME TypeOK, NEW T \in Answers, UpdateRange(T)
  PROVE  /\ trails' \in Answers
         /\ min' \in 0..MaxAt /\ max' \in min'..MaxAt
         /\ at' \in 0..MaxAt /\ marks' \subseteq Jump
         /\ Unlocked' => /\ at' \in min'..max'
                         /\ \A m \in marks' : m.to \in min'..max'
<1> DEFINE lo == Least(Times(T))  hi == Greatest(Times(T))
           middles == Marks(T)
<1>1. MaxAt \in Nat
  BY PlaybackAssumption DEF PlaybackAssumption
<1>2. /\ lo \in 0..MaxAt /\ hi \in lo..MaxAt
      /\ \A x \in Times(T) : x \in 1..MaxAt /\ x \in lo..hi
  BY Span
<1>3. middles \subseteq Jump /\ \A m \in middles : m.to \in Times(T)
  BY Middles
<1>4. /\ trails' = T /\ min' = lo /\ max' = hi
      /\ IF lo # 0 /\ hi > lo
         THEN /\ at' = IF active /\ at \in lo..hi THEN at ELSE hi
              /\ marks' = middles
         ELSE UNCHANGED <<at, marks>>
  BY DEF UpdateRange
<1>5. at \in 0..MaxAt /\ marks \subseteq Jump
  BY DEF TypeOK
<1> HIDE DEF lo, hi, middles
<1>6. CASE lo # 0 /\ hi > lo
  <2>1. at' = (IF active /\ at \in lo..hi THEN at ELSE hi) /\ marks' = middles
    BY <1>4, <1>6
  <2>2. at' \in lo..hi /\ at' \in 0..MaxAt
    BY <1>1, <1>2, <1>5, <2>1
  <2>3. middles \subseteq Jump /\ \A m \in middles : m.to \in lo..hi
    BY <1>2, <1>3
  <2>4. QED
    BY <1>2, <1>4, <2>1, <2>2, <2>3
<1>7. CASE ~ (lo # 0 /\ hi > lo)
  <2>1. ~ Unlocked'
    BY <1>4, <1>7 DEF Unlocked
  <2>2. QED
    BY <1>1, <1>2, <1>4, <1>5, <1>7, <2>1
<1>8. QED
  BY <1>6, <1>7
-----------------------------------------------------------------------------
\* With a range to play, clock and marks are in it, in and out of playback; a link by
\* pb_to alone may have left the clock before its start.
InRange == /\ Unlocked /\ ~early => at \in min..max
           /\ early => at < min
           /\ Unlocked => \A m \in marks : m.to \in min..max

IInv == TypeOK /\ FrameIsTrue /\ InRange /\ OnePicture /\ TimerFollows

LEMMA PlaybackNumbers == /\ MaxAt \in Nat /\ Steps \subseteq Nat \ {0} /\ 0 \notin Steps
                         /\ Links \subseteq 1..MaxAt
BY PlaybackAssumption DEF PlaybackAssumption

LEMMA PlaybackInit == Init => IInv
<1> SUFFICES ASSUME Init PROVE IInv
  OBVIOUS
<1>1. TypeOK
  <2>1. 0 \in 0..MaxAt /\ 0 \in 0..0 /\ 0..MaxAt = min..MaxAt
    BY PlaybackNumbers DEF Init
  <2>2. DOMAIN ghosts \subseteq Icao
    <3>1. DOMAIN <<>> = {}
      OBVIOUS
    <3>2. QED
      BY <3>1 DEF Init
  <2>3. QED
    BY <2>1, <2>2, Zenon DEF Init, TypeOK
<1>2. FrameIsTrue /\ OnePicture
  BY DEF Init, FrameIsTrue, OnePicture
<1>3. InRange /\ TimerFollows
  BY DEF Init, InRange, Unlocked, TimerFollows
<1>4. QED
  BY <1>1, <1>2, <1>3 DEF IInv

\* The parts of the type invariant.
RangeOK == /\ trails \in Answers \cup {Bare}
           /\ min \in 0..MaxAt /\ max \in min..MaxAt /\ marks \subseteq Jump
ClockOK == /\ at \in 0..MaxAt
           /\ active \in BOOLEAN /\ playing \in BOOLEAN
           /\ early \in BOOLEAN /\ slipped \in BOOLEAN /\ relisted \in BOOLEAN
           /\ timer \in Steps \cup {0} /\ step \in Steps
LayersOK == /\ DOMAIN ghosts \subseteq Icao
            /\ onMap \subseteq live /\ live \subseteq Icao
            /\ known \subseteq Icao /\ matching \subseteq Icao
SelectionOK == /\ selected \in Icao \cup {Nobody} /\ onlySelected \in BOOLEAN
               /\ reselected \in BOOLEAN /\ link \in Link

LEMMA PlaybackTypes ==
  /\ TypeOK => RangeOK /\ ClockOK /\ LayersOK /\ SelectionOK
  /\ RangeOK' /\ ClockOK' /\ LayersOK' /\ SelectionOK' => TypeOK'
<1>1. \A S : {active, playing, early, slipped, relisted, reselected} \subseteq S
             <=> /\ active \in S /\ playing \in S /\ reselected \in S
                 /\ early \in S /\ slipped \in S /\ relisted \in S
  OBVIOUS
<1>2. \A S : {active', playing', early', slipped', relisted', reselected'} \subseteq S
             <=> /\ active' \in S /\ playing' \in S /\ reselected' \in S
                 /\ early' \in S /\ slipped' \in S /\ relisted' \in S
  OBVIOUS
<1>3. TypeOK => RangeOK /\ ClockOK /\ LayersOK /\ SelectionOK
  BY <1>1, Zenon DEF TypeOK, RangeOK, ClockOK, LayersOK, SelectionOK, Bare
<1>4. RangeOK' /\ ClockOK' /\ LayersOK' /\ SelectionOK' => TypeOK'
  BY <1>2, Zenon DEF TypeOK, RangeOK, ClockOK, LayersOK, SelectionOK, Bare
<1>5. QED
  BY <1>3, <1>4

\* A frame has only aircraft that may be shown, each at its position.
LEMMA FrameHolds == ASSUME SelectionOK, NEW T, NEW t
                    PROVE  /\ DOMAIN Frame(T, t) \subseteq Icao
                           /\ \A i \in DOMAIN Frame(T, t) :
                                /\ Frame(T, t)[i] # None
                                /\ Frame(T, t)[i] = positionAt(T[i], t)
<1>1. DOMAIN Frame(T, t) \subseteq Shown
  BY DEF Frame
<1>2. Shown \subseteq Icao
  BY DEF Shown, SelectionOK
<1>3. \A i \in DOMAIN Frame(T, t) : /\ Frame(T, t)[i] # None
                                    /\ Frame(T, t)[i] = positionAt(T[i], t)
  BY DEF Frame
<1>4. QED
  BY <1>1, <1>2, <1>3

\* A selection is flagged unless the frame on the map is still that of the selection.
LEMMA ChooseKeeps ==
  ASSUME SelectionOK, NEW i \in Icao \cup {Nobody}, NEW redrawn \in BOOLEAN,
         Choose(i, redrawn), onlySelected' = onlySelected, active' \in BOOLEAN
  PROVE  /\ selected' \in Icao \cup {Nobody} /\ reselected' \in BOOLEAN
         /\ active' /\ ~reselected' => (~reselected \/ redrawn) /\ Shown' = Shown
<1>1. selected' = i /\ reselected' = ((reselected /\ ~redrawn)
                                     \/ (active' /\ onlySelected /\ i # selected))
  BY DEF Choose
<1>2. reselected' \in BOOLEAN
  BY <1>1 DEF SelectionOK
<1>3. ASSUME active' = TRUE, reselected' = FALSE
      PROVE  (~reselected \/ redrawn) /\ Shown' = Shown
  <2>1. ~onlySelected \/ selected' = selected
    BY <1>1, <1>3 DEF SelectionOK
  <2>2. ~reselected \/ redrawn
    BY <1>1, <1>3 DEF SelectionOK
  <2>3. QED
    BY <2>1, <2>2 DEF Shown, SelectionOK
<1>4. QED
  BY <1>1, <1>2, <1>3

\* A frame that a handler draws is true, although the selection changes right after it.
LEMMA DrawnTrue ==
  ASSUME SelectionOK, active' = TRUE, ghosts' = Frame(trails', at'),
         ~reselected' => Shown' = Shown
  PROVE  FrameIsTrue'
<1>1. \A i \in DOMAIN ghosts' : ghosts'[i] # None /\ ghosts'[i] = positionAt(trails'[i], at')
  BY FrameHolds
<1>2. ASSUME ~reselected' PROVE ghosts' = Frame(trails, at)'
  BY <1>2 DEF Frame
<1>3. QED
  BY <1>1, <1>2 DEF FrameIsTrue

\* A frame that nothing redraws stays true, until another aircraft is selected.
LEMMA StaysTrue ==
  ASSUME FrameIsTrue, UNCHANGED <<active, trails, at, ghosts>>,
         active /\ ~reselected' => ~reselected /\ Shown' = Shown
  PROVE  FrameIsTrue'
<1>1. ASSUME active, ~reselected' PROVE ghosts' = Frame(trails, at)'
  BY <1>1 DEF FrameIsTrue, Frame
<1>2. QED
  BY <1>1 DEF FrameIsTrue

\* What every jump of the clock to t does, but for the time itself.
LEMMA Moved ==
  ASSUME IInv, NEW t \in 0..MaxAt, Show(t), UNCHANGED range,
         NEW i \in Icao \cup {Nobody}, Choose(i, TRUE)
  PROVE  /\ active' = TRUE /\ at' = t /\ FrameIsTrue' /\ OnePicture'
         /\ DOMAIN ghosts' \subseteq Icao
         /\ onMap' \subseteq live' /\ live' \subseteq Icao
         /\ known' \subseteq Icao /\ matching' \subseteq Icao
         /\ selected' \in Icao \cup {Nobody} /\ onlySelected' = onlySelected
         /\ relisted' \in BOOLEAN /\ reselected' \in BOOLEAN
<1>0. TypeOK /\ SelectionOK
  BY PlaybackTypes DEF IInv
<1>1. /\ active' = TRUE /\ at' = t /\ ghosts' = Frame(trails, t) /\ trails' = trails
      /\ onlySelected' = onlySelected
  BY DEF Show, range
<1>2. /\ selected' \in Icao \cup {Nobody} /\ reselected' \in BOOLEAN
      /\ ~reselected' => Shown' = Shown
  <2>1. TRUE \in BOOLEAN /\ active' \in BOOLEAN
    BY <1>1
  <2>2. QED
    BY <1>0, <1>1, <2>1, ChooseKeeps
<1>3. FrameIsTrue'
  BY <1>0, <1>1, <1>2, DrawnTrue
<1>4. OnePicture'
  BY DEF IInv, TypeOK, OnePicture, Show
<1>5. DOMAIN ghosts' \subseteq Icao
  BY <1>0, <1>1, FrameHolds
<1>6. /\ onMap' \subseteq live' /\ live' \subseteq Icao
      /\ known' \subseteq Icao /\ matching' \subseteq Icao
  BY DEF IInv, TypeOK, Show
<1>7. relisted' \in BOOLEAN
  BY DEF IInv, TypeOK, Show
<1>8. QED
  BY <1>1, <1>2, <1>3, <1>4, <1>5, <1>6, <1>7

LEMMA ApplyKeeps ==
  ASSUME IInv, NEW list \in SUBSET Icao, NEW T \in Answers, Apply(list, T)
  PROVE  IInv'
<1>1. TypeOK /\ RangeOK /\ ClockOK /\ LayersOK /\ SelectionOK
  BY PlaybackTypes DEF IInv
<1>2. /\ trails' \in Answers
      /\ min' \in 0..MaxAt /\ max' \in min'..MaxAt
      /\ at' \in 0..MaxAt /\ marks' \subseteq Jump
      /\ Unlocked' => at' \in min'..max' /\ \A m \in marks' : m.to \in min'..max'
  BY <1>1, AnswerRange DEF Apply
<1>3. trails' = T
  BY DEF Apply, UpdateRange
<1>4. RangeOK'
  BY <1>2 DEF RangeOK
<1>5. ClockOK'
  BY <1>1, <1>2 DEF ClockOK, Apply, Settle
<1>6. ASSUME active PROVE LayersOK' /\ FrameIsTrue' /\ OnePicture'
  <2>1. /\ ghosts' = Frame(T, at') /\ active' = TRUE /\ known' = {}
        /\ UNCHANGED <<live, onMap, matching, selected, onlySelected, relisted>>
    BY <1>1, <1>6 DEF Apply, ClockOK, selection
  <2>2. LayersOK'
    BY <1>1, <2>1, FrameHolds DEF LayersOK
  <2>3. Shown' = Shown
    BY <2>1 DEF Shown
  <2>4. FrameIsTrue'
    BY <1>1, <1>3, <2>1, <2>3, DrawnTrue
  <2>5. OnePicture'
    BY <1>6, <2>1 DEF IInv, OnePicture
  <2>6. QED
    BY <2>2, <2>4, <2>5
<1>7. ASSUME ~active PROVE LayersOK' /\ FrameIsTrue' /\ OnePicture'
  <2>1. /\ live' = list /\ known' = list /\ onMap' = list \cap matching
        /\ UNCHANGED <<active, ghosts, matching>>
    BY <1>7 DEF Apply
  <2>2. LayersOK'
    BY <1>1, <2>1 DEF LayersOK
  <2>3. FrameIsTrue' /\ OnePicture'
    BY <1>7, <2>1 DEF IInv, FrameIsTrue, OnePicture
  <2>4. QED
    BY <2>2, <2>3
<1>8. LayersOK' /\ FrameIsTrue' /\ OnePicture'
  BY <1>6, <1>7
<1>9. InRange'
  BY <1>2 DEF InRange, Apply, Settle
<1>10. TimerFollows'
  BY DEF IInv, TimerFollows, Apply
<1>11. SelectionOK'
  BY <1>1 DEF SelectionOK, Apply, selection
<1>12. TypeOK'
  BY <1>4, <1>5, <1>8, <1>11, PlaybackTypes
<1>13. QED
  BY <1>8, <1>9, <1>10, <1>12 DEF IInv

\* A jump of the clock to a time of the range, or to where it was.
LEMMA ShowKeeps ==
  ASSUME IInv, NEW t \in 0..MaxAt, Show(t), UNCHANGED <<range, step, link>>, Settle,
         Unlocked => t \in min..max \/ (t = at /\ early),
         NEW i \in Icao \cup {Nobody}, Choose(i, TRUE),
         playing' \in BOOLEAN, timer' \in Steps \cup {0}, slipped' \in BOOLEAN,
         TimerFollows'
  PROVE  IInv'
<1>1. TypeOK /\ RangeOK /\ ClockOK /\ LayersOK /\ SelectionOK
  BY PlaybackTypes DEF IInv
<1>2. /\ active' = TRUE /\ at' = t /\ FrameIsTrue' /\ OnePicture'
      /\ DOMAIN ghosts' \subseteq Icao
      /\ onMap' \subseteq live' /\ live' \subseteq Icao
      /\ known' \subseteq Icao /\ matching' \subseteq Icao
      /\ selected' \in Icao \cup {Nobody} /\ onlySelected' = onlySelected
      /\ relisted' \in BOOLEAN /\ reselected' \in BOOLEAN
  BY Moved
<1>3. UNCHANGED <<trails, min, max, marks, step, link>>
  BY DEF range
<1>4. RangeOK'
  BY <1>1, <1>3 DEF RangeOK
<1>5. ClockOK'
  BY <1>1, <1>2, <1>3 DEF ClockOK, Settle
<1>6. LayersOK'
  BY <1>2 DEF LayersOK
<1>7. InRange'
  <2>1. Unlocked' <=> Unlocked
    BY <1>3 DEF Unlocked
  <2>2. (Unlocked => \A m \in marks : m.to \in min..max) /\ (early => at < min)
    BY DEF IInv, InRange
  <2>3. early' => at' < min'
    BY DEF Settle
  <2>4. ASSUME Unlocked, ~early' PROVE at' \in min..max
    BY <1>2, <1>3, <2>2, <2>4 DEF Settle
  <2>5. QED
    BY <1>3, <2>1, <2>2, <2>3, <2>4 DEF InRange
<1>8. SelectionOK'
  BY <1>1, <1>2, <1>3 DEF SelectionOK
<1>9. TypeOK'
  BY <1>4, <1>5, <1>6, <1>8, PlaybackTypes
<1>10. QED
  BY <1>2, <1>7, <1>9 DEF IInv

LEMMA ToggleKeeps == ASSUME IInv, Toggle PROVE IInv'
<1>1. TypeOK /\ RangeOK /\ ClockOK /\ LayersOK /\ SelectionOK
  BY PlaybackTypes DEF IInv
<1>2. /\ playing' \in BOOLEAN /\ slipped' = FALSE
      /\ timer' = (IF playing' THEN step ELSE 0) /\ timer' \in Steps \cup {0}
      /\ UNCHANGED <<range, step, link>> /\ Settle
  BY <1>1 DEF Toggle, ClockOK
<1>3. ASSUME active' = TRUE PROVE TimerFollows'
  BY <1>1, <1>2, <1>3, PlaybackNumbers DEF TimerFollows, ClockOK
<1>4. CASE active
  <2>1. UNCHANGED <<active, at, ghosts, live, onMap, known, matching, relisted,
                    selected, onlySelected, reselected>>
    BY <1>4 DEF Toggle, layers, selection
  <2>2. UNCHANGED <<trails, min, max, marks, step, link>>
    BY <1>2 DEF range
  <2>3. TimerFollows'
    BY <1>1, <1>3, <1>4, <2>1 DEF ClockOK
  <2>4. RangeOK' /\ LayersOK' /\ SelectionOK'
    BY <1>1, <2>1, <2>2 DEF RangeOK, LayersOK, SelectionOK
  <2>5. early' = early /\ InRange'
    BY <1>1, <1>2, <2>1, <2>2 DEF IInv, InRange, Unlocked, Settle, ClockOK
  <2>6. ClockOK'
    BY <1>1, <1>2, <2>1, <2>2, <2>5 DEF ClockOK
  <2>7. FrameIsTrue' /\ OnePicture'
    <3>1. Shown' = Shown
      BY <2>1 DEF Shown
    <3>2. QED
      BY <2>1, <2>2, <3>1, StaysTrue DEF IInv, OnePicture
  <2>8. TypeOK'
    BY <2>4, <2>6, PlaybackTypes
  <2>9. QED
    BY <2>3, <2>5, <2>7, <2>8 DEF IInv
<1>5. CASE ~active
  <2> DEFINE t == IF at # 0 THEN at ELSE max
  <2>1. Show(t) /\ Choose(selected, TRUE) /\ selected \in Icao \cup {Nobody}
    BY <1>1, <1>5 DEF Toggle, SelectionOK
  <2>2. t \in 0..MaxAt
    BY <1>1, PlaybackNumbers DEF ClockOK, RangeOK
  <2>3. Unlocked => t \in min..max \/ (t = at /\ early)
    BY <1>1, PlaybackNumbers DEF IInv, InRange, ClockOK, RangeOK
  <2>4. TimerFollows'
    BY <1>3, <2>1 DEF Show
  <2>5. slipped' \in BOOLEAN
    BY <1>2
  <2> HIDE DEF t
  <2>6. QED
    BY <1>2, <2>1, <2>2, <2>3, <2>4, <2>5, ShowKeeps
<1>6. QED
  BY <1>4, <1>5

\* Marks and the scrubber stop the clock where the user puts it.
LEMMA JumpKeeps ==
  ASSUME IInv, NEW t \in 1..MaxAt, NEW i \in Icao \cup {Nobody},
         Mark([icao |-> i, to |-> t]) \/ (Scrub(t) /\ i = selected)
  PROVE  IInv'
<1>1. RangeOK
  BY PlaybackTypes DEF IInv
<1>2. Show(t) /\ Stop /\ Choose(i, TRUE) /\ UNCHANGED <<range, step, link>> /\ Settle
  BY DEF Mark, Scrub
<1>3. Unlocked => t \in min..max
  BY DEF Mark, Scrub, IInv, InRange
<1>4. t \in 0..MaxAt
  BY PlaybackNumbers
<1>5. playing' = FALSE /\ timer' = 0 /\ slipped' = FALSE
  BY <1>2 DEF Stop
<1>6. TimerFollows'
  BY <1>5 DEF TimerFollows
<1>7. QED
  BY <1>2, <1>3, <1>4, <1>5, <1>6, ShowKeeps

LEMMA TimerTickKeeps == ASSUME IInv, TimerTick PROVE IInv'
<1>1. TypeOK /\ RangeOK /\ ClockOK /\ LayersOK /\ SelectionOK
  BY PlaybackTypes DEF IInv
<1>2. /\ timer > 0 /\ at' = (IF at + timer > max THEN min ELSE at + timer)
      /\ ghosts' = Frame(trails, at') /\ Settle
      /\ UNCHANGED <<trails, min, max, marks, active, playing, timer, step,
                     live, onMap, known, matching, selected, onlySelected, link,
                     slipped, relisted>>
      /\ reselected' = FALSE
  BY DEF TimerTick, range, layers, selection
<1>3. /\ MaxAt \in Nat /\ timer \in Nat /\ at \in Nat
      /\ min \in Nat /\ max \in Nat /\ min <= max /\ max <= MaxAt
  BY <1>1, PlaybackNumbers DEF RangeOK, ClockOK
<1>4. at' \in 0..MaxAt
  BY <1>2, <1>3
<1>5. InRange'
  <2>1. Unlocked' <=> Unlocked
    BY <1>2 DEF Unlocked
  <2>2. ASSUME Unlocked, ~early' PROVE at' \in min..max
    <3>1. CASE early
      <4>1. ~ (at' < min)
        BY <1>2, <2>2, <3>1 DEF Settle
      <4>2. QED
        BY <1>2, <1>3, <4>1
    <3>2. CASE ~early
      <4>1. at \in min..max
        BY <2>2, <3>2 DEF IInv, InRange
      <4>2. QED
        BY <1>2, <1>3, <4>1
    <3>3. QED
      BY <3>1, <3>2
  <2>3. QED
    BY <1>2, <2>1, <2>2 DEF IInv, InRange, Settle
<1>6. RangeOK' /\ SelectionOK'
  BY <1>1, <1>2 DEF RangeOK, SelectionOK
<1>7. ClockOK'
  BY <1>1, <1>2, <1>4 DEF ClockOK, Settle
<1>8. LayersOK'
  BY <1>1, <1>2, FrameHolds DEF LayersOK
<1>9. active /\ active' = TRUE
  BY <1>1, <1>2 DEF IInv, TimerFollows, ClockOK
<1>10. FrameIsTrue' /\ OnePicture' /\ TimerFollows'
  <2>1. Shown' = Shown
    BY <1>2 DEF Shown
  <2>2. ghosts' = Frame(trails', at')
    BY <1>2
  <2>3. FrameIsTrue'
    BY <1>1, <1>9, <2>1, <2>2, DrawnTrue
  <2>4. OnePicture' /\ TimerFollows'
    BY <1>2, <1>9 DEF IInv, OnePicture, TimerFollows
  <2>5. QED
    BY <2>3, <2>4
<1>11. TypeOK'
  BY <1>6, <1>7, <1>8, PlaybackTypes
<1>12. QED
  BY <1>5, <1>10, <1>11 DEF IInv

LEMMA FilterKeeps == ASSUME IInv, NEW F \in SUBSET Icao, Filter(F) PROVE IInv'
<1>1. TypeOK /\ RangeOK /\ ClockOK /\ LayersOK /\ SelectionOK
  BY PlaybackTypes DEF IInv
<1>2. /\ matching' = F /\ onMap' = {i \in live : i \in known => i \in F}
      /\ relisted' = active
      /\ UNCHANGED <<trails, min, max, marks, at, active, playing, timer, step,
                     ghosts, live, known, selected, onlySelected, link,
                     early, slipped, reselected>>
  BY DEF Filter, range, clock, selection
<1>3. RangeOK' /\ SelectionOK'
  BY <1>1, <1>2 DEF RangeOK, SelectionOK
<1>4. ClockOK' /\ LayersOK'
  BY <1>1, <1>2 DEF ClockOK, LayersOK
<1>5. TypeOK'
  BY <1>3, <1>4, PlaybackTypes
<1>6. InRange'
  BY <1>2 DEF IInv, InRange, Unlocked
<1>7. FrameIsTrue' /\ OnePicture' /\ TimerFollows'
  <2>1. Shown' = Shown
    BY <1>2 DEF Shown
  <2>2. QED
    BY <1>2, <2>1, StaysTrue DEF IInv, OnePicture, TimerFollows
<1>8. QED
  BY <1>5, <1>6, <1>7 DEF IInv

LEMMA SpeedKeeps == ASSUME IInv, NEW s \in Steps, Speed(s) PROVE IInv'
<1>1. TypeOK /\ RangeOK /\ ClockOK /\ LayersOK /\ SelectionOK
  BY PlaybackTypes DEF IInv
<1>2. /\ step' = s
      /\ UNCHANGED <<trails, min, max, marks, at, active, ghosts, live, onMap, known,
                     matching, selected, onlySelected, link, early, relisted, reselected>>
  BY DEF Speed, range, layers, selection
<1>3. /\ playing' \in BOOLEAN /\ timer' \in Steps \cup {0} /\ slipped' \in BOOLEAN
      /\ TimerFollows'
  <2>1. s > 0 /\ s \in Nat
    BY PlaybackNumbers
  <2>2. CASE ~playing
    BY <1>1, <1>2, <2>2 DEF Speed, IInv, TimerFollows, ClockOK
  <2>3. CASE playing /\ Unlocked
    <3>1. timer' = s /\ playing' = TRUE /\ slipped' = slipped
      BY <1>1, <2>3 DEF Speed, ClockOK
    <3>2. timer = step /\ step > 0
      BY <1>1, <2>3, PlaybackNumbers DEF IInv, TimerFollows, ClockOK
    <3>3. active
      BY <3>2 DEF IInv, TimerFollows
    <3>4. QED
      BY <1>1, <1>2, <3>1, <3>3 DEF ClockOK, TimerFollows
  <2>4. CASE playing /\ ~Unlocked
    <3>1. playing' = FALSE /\ slipped' = TRUE /\ timer' = timer
      BY <2>4 DEF Speed
    <3>2. (timer > 0 => active) /\ timer \in Steps \cup {0}
      BY <1>1 DEF IInv, TimerFollows, ClockOK
    <3>3. QED
      BY <1>2, <3>1, <3>2 DEF TimerFollows
  <2>5. QED
    BY <2>2, <2>3, <2>4
<1>4. RangeOK' /\ LayersOK' /\ SelectionOK'
  BY <1>1, <1>2 DEF RangeOK, LayersOK, SelectionOK
<1>5. ClockOK'
  BY <1>1, <1>2, <1>3 DEF ClockOK
<1>6. TypeOK'
  BY <1>4, <1>5, PlaybackTypes
<1>7. InRange' /\ FrameIsTrue' /\ OnePicture'
  <2>1. Shown' = Shown
    BY <1>2 DEF Shown
  <2>2. QED
    BY <1>2, <2>1, StaysTrue DEF IInv, InRange, Unlocked, OnePicture
<1>8. QED
  BY <1>3, <1>6, <1>7 DEF IInv

\* showAircraftDetail and the close button of its panel.
LEMMA SelectKeeps == ASSUME IInv, NEW i \in Icao \cup {Nobody}, Select(i) PROVE IInv'
<1>1. TypeOK /\ RangeOK /\ ClockOK /\ LayersOK /\ SelectionOK
  BY PlaybackTypes DEF IInv
<1>2. /\ Choose(i, FALSE)
      /\ UNCHANGED <<trails, min, max, marks, at, active, playing, timer, step, ghosts,
                     live, onMap, known, matching, onlySelected, link, early, slipped, relisted>>
  BY DEF Select, range, clock, layers
<1>3. /\ selected' \in Icao \cup {Nobody} /\ reselected' \in BOOLEAN
      /\ active /\ ~reselected' => ~reselected /\ Shown' = Shown
  <2>1. FALSE \in BOOLEAN /\ active' \in BOOLEAN
    BY <1>1, <1>2 DEF ClockOK
  <2>2. QED
    BY <1>1, <1>2, <2>1, ChooseKeeps
<1>4. RangeOK' /\ ClockOK' /\ LayersOK' /\ SelectionOK'
  BY <1>1, <1>2, <1>3 DEF RangeOK, ClockOK, LayersOK, SelectionOK
<1>5. TypeOK'
  BY <1>4, PlaybackTypes
<1>6. FrameIsTrue'
  BY <1>2, <1>3, StaysTrue DEF IInv
<1>7. InRange' /\ OnePicture' /\ TimerFollows'
  BY <1>2 DEF IInv, InRange, Unlocked, OnePicture, TimerFollows
<1>8. QED
  BY <1>5, <1>6, <1>7 DEF IInv

\* The change handler of playbackSelected.
LEMMA OnlySelectedKeeps == ASSUME IInv, OnlySelected PROVE IInv'
<1>1. TypeOK /\ RangeOK /\ ClockOK /\ LayersOK /\ SelectionOK
  BY PlaybackTypes DEF IInv
<1>2. /\ onlySelected' = ~onlySelected /\ reselected' = FALSE
      /\ ghosts' = IF active THEN Frame(trails, at)' ELSE ghosts
      /\ UNCHANGED <<trails, min, max, marks, at, active, playing, timer, step,
                     live, onMap, known, matching, selected, link, early, slipped, relisted>>
  BY DEF OnlySelected, range, clock, layers
<1>3. RangeOK' /\ ClockOK' /\ SelectionOK'
  <2>1. onlySelected' \in BOOLEAN /\ reselected' \in BOOLEAN
    BY <1>1, <1>2 DEF SelectionOK
  <2>2. QED
    BY <1>1, <1>2, <2>1 DEF RangeOK, ClockOK, SelectionOK
<1>4. Shown' \subseteq Icao
  BY <1>3 DEF Shown, SelectionOK
<1>5. ASSUME active PROVE DOMAIN ghosts' \subseteq Icao /\ FrameIsTrue'
  <2>1. ghosts' = Frame(trails, at)'
    BY <1>2, <1>5
  <2>2. /\ DOMAIN ghosts' \subseteq Icao
        /\ \A i \in DOMAIN ghosts' :
             ghosts'[i] # None /\ ghosts'[i] = positionAt(trails'[i], at')
    BY <1>4, <2>1 DEF Frame
  <2>3. FrameIsTrue'
    BY <1>2, <1>5, <2>1, <2>2 DEF FrameIsTrue
  <2>4. QED
    BY <2>2, <2>3
<1>6. ASSUME ~active PROVE DOMAIN ghosts' \subseteq Icao /\ FrameIsTrue'
  BY <1>1, <1>2, <1>6 DEF IInv, FrameIsTrue, LayersOK
<1>7. DOMAIN ghosts' \subseteq Icao /\ FrameIsTrue'
  BY <1>5, <1>6
<1>8. LayersOK'
  BY <1>1, <1>2, <1>7 DEF LayersOK
<1>9. TypeOK'
  BY <1>3, <1>8, PlaybackTypes
<1>10. InRange' /\ OnePicture' /\ TimerFollows'
  BY <1>2 DEF IInv, InRange, Unlocked, OnePicture, TimerFollows
<1>11. QED
  BY <1>7, <1>9, <1>10 DEF IInv

\* setPlaybackMode(false).
LEMMA NowKeeps == ASSUME IInv, Now PROVE IInv'
<1>1. TypeOK /\ RangeOK /\ ClockOK /\ LayersOK /\ SelectionOK
  BY PlaybackTypes DEF IInv
<1>2. /\ active' = FALSE /\ onMap' = live /\ relisted' = FALSE /\ ghosts' = <<>>
      /\ playing' = FALSE /\ timer' = 0 /\ slipped' = FALSE
      /\ UNCHANGED <<trails, min, max, marks, at, step, live, known, matching,
                     onlySelected, link>>
      /\ Choose(selected, TRUE) /\ Settle
  BY DEF Now, Stop, range
<1>3. early' = early
  BY <1>1, <1>2 DEF Settle, IInv, InRange, ClockOK
<1>4. DOMAIN ghosts' \subseteq Icao
  <2>1. DOMAIN <<>> = {}
    OBVIOUS
  <2>2. QED
    BY <1>2, <2>1
<1>5. RangeOK' /\ LayersOK' /\ SelectionOK'
  <2>1. TRUE \in BOOLEAN /\ active' \in BOOLEAN /\ selected \in Icao \cup {Nobody}
    BY <1>1, <1>2 DEF SelectionOK
  <2>2. selected' \in Icao \cup {Nobody} /\ reselected' \in BOOLEAN
    BY <1>1, <1>2, <2>1, ChooseKeeps
  <2>3. QED
    BY <1>1, <1>2, <1>4, <2>2 DEF RangeOK, LayersOK, SelectionOK
<1>6. ClockOK'
  BY <1>1, <1>2, <1>3 DEF ClockOK
<1>7. TypeOK'
  BY <1>5, <1>6, PlaybackTypes
<1>8. InRange'
  BY <1>2, <1>3 DEF IInv, InRange, Unlocked
<1>9. FrameIsTrue' /\ OnePicture' /\ TimerFollows'
  BY <1>2 DEF FrameIsTrue, OnePicture, TimerFollows
<1>10. QED
  BY <1>7, <1>8, <1>9 DEF IInv

LEMMA OpenLinkKeeps == ASSUME IInv, OpenLink PROVE IInv'
<1>1. TypeOK /\ RangeOK /\ ClockOK /\ LayersOK /\ SelectionOK
  BY PlaybackTypes DEF IInv
<1>2. /\ link # NoLink /\ link' = NoLink
      /\ UNCHANGED <<trails, min, max, marks, playing, timer, step,
                     live, known, matching, onlySelected, slipped>>
  BY DEF OpenLink, range
<1>3. link.to \in 1..MaxAt
  <2>1. link \in [kind : {"pb_at", "pb_to"}, to : Links]
    BY <1>1, <1>2 DEF SelectionOK, Link
  <2>2. QED
    BY <2>1, PlaybackNumbers
<1>4. RangeOK' /\ link' \in Link
  BY <1>1, <1>2 DEF RangeOK, Link
<1> DEFINE followed == max >= link.to /\ (link.kind = "pb_at" => link.to >= min)
<1>a. PICK icao \in Icao \cup {selected} :
         IF followed
         THEN /\ active' = TRUE /\ at' = link.to /\ ghosts' = Frame(trails, link.to)
              /\ onMap' = {} /\ relisted' = FALSE
              /\ early' = (link.to < min)
              /\ Choose(icao, TRUE)
         ELSE /\ UNCHANGED <<active, at, ghosts, onMap, relisted, early>>
              /\ Choose(icao, FALSE)
  BY DEF OpenLink
<1>b. icao \in Icao \cup {Nobody} /\ onlySelected' = onlySelected
  BY <1>1, <1>2 DEF SelectionOK
<1>5. CASE followed
  <2>1. /\ active' = TRUE /\ at' = link.to /\ ghosts' = Frame(trails, link.to)
        /\ onMap' = {} /\ relisted' = FALSE /\ early' = (link.to < min)
        /\ Choose(icao, TRUE)
    BY <1>5, <1>a
  <2>2. MaxAt \in Nat /\ min \in Nat /\ max \in Nat
    BY <1>1, PlaybackNumbers DEF RangeOK
  <2>3. InRange'
    <3>1. (Unlocked => \A m \in marks : m.to \in min..max) /\ (Unlocked' <=> Unlocked)
      BY <1>2 DEF IInv, InRange, Unlocked
    <3>2. early' <=> link.to < min
      BY <2>1, Zenon
    <3>3. ~early' => at' \in min..max
      BY <1>3, <1>5, <2>1, <2>2, <3>2
    <3>4. early' => at' < min
      BY <2>1, <3>2
    <3>5. QED
      BY <1>2, <3>1, <3>3, <3>4 DEF InRange
  <2>4. ClockOK'
    <3>1. (link.to < min) \in BOOLEAN
      BY <1>3, <2>2
    <3>2. early' \in BOOLEAN
      BY <2>1, <3>1, Zenon
    <3>3. at' \in 0..MaxAt
      BY <1>3, <2>1, <2>2
    <3>4. active' \in BOOLEAN /\ relisted' \in BOOLEAN
      BY <2>1, Zenon
    <3>5. QED
      BY <1>1, <1>2, <3>2, <3>3, <3>4 DEF ClockOK
  <2>5. LayersOK'
    BY <1>1, <1>2, <2>1, FrameHolds DEF LayersOK
  <2>6. /\ selected' \in Icao \cup {Nobody} /\ reselected' \in BOOLEAN
        /\ ~reselected' => Shown' = Shown
    <3>1. TRUE \in BOOLEAN /\ active' \in BOOLEAN
      BY <2>1
    <3>2. QED
      BY <1>1, <1>b, <2>1, <3>1, ChooseKeeps
  <2>7. SelectionOK'
    BY <1>1, <1>2, <1>4, <2>6 DEF SelectionOK
  <2>8. FrameIsTrue'
    <3>1. ghosts' = Frame(trails', at')
      BY <1>2, <2>1
    <3>2. QED
      BY <1>1, <2>1, <2>6, <3>1, DrawnTrue
  <2>9. OnePicture' /\ TimerFollows'
    BY <1>2, <2>1 DEF IInv, OnePicture, TimerFollows
  <2>10. TypeOK'
    BY <1>4, <2>4, <2>5, <2>7, PlaybackTypes
  <2>11. QED
    BY <2>3, <2>8, <2>9, <2>10 DEF IInv
<1>6. CASE ~followed
  <2>1. UNCHANGED <<active, at, ghosts, onMap, relisted, early>> /\ Choose(icao, FALSE)
    BY <1>6, <1>a
  <2>2. ClockOK' /\ LayersOK'
    BY <1>1, <1>2, <2>1 DEF ClockOK, LayersOK
  <2>3. /\ selected' \in Icao \cup {Nobody} /\ reselected' \in BOOLEAN
        /\ active /\ ~reselected' => ~reselected /\ Shown' = Shown
    <3>1. FALSE \in BOOLEAN /\ active' \in BOOLEAN
      BY <1>1, <2>1 DEF ClockOK
    <3>2. QED
      BY <1>1, <1>b, <2>1, <3>1, ChooseKeeps
  <2>4. SelectionOK'
    BY <1>1, <1>2, <1>4, <2>3 DEF SelectionOK
  <2>5. FrameIsTrue'
    BY <1>2, <2>1, <2>3, StaysTrue DEF IInv
  <2>6. InRange' /\ OnePicture' /\ TimerFollows'
    BY <1>2, <2>1 DEF IInv, InRange, Unlocked, OnePicture, TimerFollows
  <2>7. TypeOK'
    BY <1>4, <2>2, <2>4, PlaybackTypes
  <2>8. QED
    BY <2>5, <2>6, <2>7 DEF IInv
<1>7. QED
  BY <1>5, <1>6

LEMMA PlaybackStep == IInv /\ [Next]_vars => IInv'
<1> SUFFICES ASSUME IInv, [Next]_vars PROVE IInv'
  OBVIOUS
<1>1. CASE UNCHANGED vars
  <2>1. UNCHANGED <<trails, min, max, marks, at, active, playing, timer, step, ghosts,
                    live, onMap, known, matching, selected, onlySelected, link,
                    early, slipped, relisted, reselected>>
    BY <1>1 DEF vars, range, clock, layers, selection, history
  <2>2. TypeOK /\ RangeOK /\ ClockOK /\ LayersOK /\ SelectionOK
    BY PlaybackTypes DEF IInv
  <2>3. RangeOK' /\ ClockOK' /\ LayersOK' /\ SelectionOK'
    BY <2>1, <2>2 DEF RangeOK, ClockOK, LayersOK, SelectionOK
  <2>4. TypeOK'
    BY <2>3, PlaybackTypes
  <2>5. FrameIsTrue'
    <3>1. Shown' = Shown
      BY <2>1 DEF Shown
    <3>2. QED
      BY <2>1, <3>1, StaysTrue DEF IInv
  <2>6. InRange' /\ OnePicture' /\ TimerFollows'
    BY <2>1 DEF IInv, InRange, Unlocked, OnePicture, TimerFollows
  <2>7. QED
    BY <2>4, <2>5, <2>6 DEF IInv
<1>2. ASSUME NEW t \in 1..MaxAt, Scrub(t) PROVE IInv'
  <2>1. selected \in Icao \cup {Nobody}
    BY PlaybackTypes DEF IInv, SelectionOK
  <2>2. QED
    BY <1>2, <2>1, JumpKeeps
<1>3. ASSUME NEW m \in Jump, Mark(m) PROVE IInv'
  <2>1. m.to \in 1..MaxAt /\ m.icao \in Icao \cup {Nobody} /\ m = [icao |-> m.icao, to |-> m.to]
    BY DEF Jump
  <2>2. QED
    BY <1>3, <2>1, JumpKeeps
<1>4. QED
  BY <1>1, <1>2, <1>3, ApplyKeeps, FilterKeeps, ToggleKeeps, TimerTickKeeps, NowKeeps,
     OpenLinkKeeps, SpeedKeeps, SelectKeeps, OnlySelectedKeeps DEF Next
-----------------------------------------------------------------------------
\* Whatever the answers, the speeds and the links, and in whatever order the handlers run,
\* the state of playback keeps its type.
THEOREM TypeCorrect == Spec => []TypeOK
<1>1. IInv => TypeOK
  BY DEF IInv
<1>2. QED
  BY <1>1, PlaybackInit, PlaybackStep, PTL DEF Spec

\* Whatever is selected, and whether or not that is drawn, the map never shows a ghost by
\* trails that have been replaced or at a time the clock has left, nor any outside
\* playback; and the frame is whole until somebody else is selected under "Selected only"
\* (renderPlaybackFrame, setPlaybackMode, showAircraftDetail).
THEOREM FramesAreTrue == Spec => []FrameIsTrue
<1>1. IInv => FrameIsTrue
  BY DEF IInv
<1>2. QED
  BY <1>1, PlaybackInit, PlaybackStep, PTL DEF Spec

\* However answers widen, narrow, lock and unlock the range under the clock, the clock
\* shows a time of it (updatePlaybackRange, togglePlayback and the timer).
THEOREM ClockStaysInRange == Spec => []ClockInRange
<1>1. IInv => ClockInRange
  BY DEF IInv, InRange, ClockInRange
<1>2. QED
  BY <1>1, PlaybackInit, PlaybackStep, PTL DEF Spec

\* Live markers and ghosts are never on the map together, until a change of filters, order,
\* follow or alerts during playback (setPlaybackMode, applyAircraftData, applyListFilter).
THEOREM OnePictureShown == Spec => []OnePicture
<1>1. IInv => OnePicture
  BY DEF IInv
<1>2. QED
  BY <1>1, PlaybackInit, PlaybackStep, PTL DEF Spec

\* Playing and the timer go together (togglePlayback, stopPlayback), up to a change of
\* speed while the range is locked.
THEOREM TimerIsFollowed == Spec => []TimerFollows
<1>1. IInv => TimerFollows
  BY DEF IInv
<1>2. QED
  BY <1>1, PlaybackInit, PlaybackStep, PTL DEF Spec

\* For trails of any length, an aircraft that is drawn is between the breadcrumbs around the
\* time on the clock and where cache.PositionAt puts it, and none that has one behind it
\* is missing while it may be shown (positionAt and renderPlaybackFrame in the browser).
THEOREM DrawnBetweenBreadcrumbs == Spec => []Interpolates
<1>1. IInv => Interpolates
  <2> SUFFICES ASSUME IInv, NEW i \in Icao, active /\ trails[i] # <<>>
               PROVE  LET p == trails[i]
                          past == {k \in 1..Len(p) : p[k].at <= at}
                          next == {k \in 1..Len(p) : p[k].at >= at}
                          drawn == i \in DOMAIN ghosts
                          Within(j, k) == \/ p[j].pos <= ghosts[i] /\ ghosts[i] <= p[k].pos
                                          \/ p[k].pos <= ghosts[i] /\ ghosts[i] <= p[j].pos
                      IN /\ Len(p) > 1 /\ past = {} => ~drawn
                         /\ i \in Shown /\ ~reselected /\ (past # {} \/ Len(p) = 1) => drawn
                         /\ drawn =>
                              /\ next = {} => ghosts[i] = Last(p).pos
                              /\ past # {} /\ next # {} =>
                                   \E j \in past, k \in next : k <= j + 1 /\ Within(j, k)
                              /\ Len(p) > 1 /\ p[Len(p) - 1].at < Last(p).at
                                   => ghosts[i] = PositionAt(p, at)
    BY Zenon DEF Interpolates
  <2> DEFINE p == trails[i]
             d == positionAt(p, at)
             past == {k \in 1..Len(p) : p[k].at <= at}
  <2>1. at \in Nat /\ p \in Seq(Point) /\ Ordered(p)
    BY PlaybackTypes, PlaybackNumbers, TrailsInOrder DEF IInv, RangeOK, ClockOK
  <2>2. InPlace(p, at, d)
    BY <2>1, Drawn
  <2>3. i \in DOMAIN ghosts => ghosts[i] # None /\ ghosts[i] = d
    BY DEF IInv, FrameIsTrue
  <2>4. i \in Shown /\ ~reselected => (i \in DOMAIN ghosts <=> d # None)
    BY DEF IInv, FrameIsTrue, Frame
  <2>5. past # {} \/ Len(p) = 1 => d # None
    <3>1. ASSUME Len(p) = 1 PROVE d # None
      <4>1. d = p[1].pos
        BY <2>1, <3>1, Outside
      <4>2. p[1].pos \in Nat
        BY <2>1, <3>1, Crumbs
      <4>3. QED
        BY <4>1, <4>2 DEF None
    <3>2. ASSUME Len(p) # 1 PROVE Len(p) > 1
      <4>1. Len(p) \in Nat
        BY <2>1, Crumbs
      <4>2. Len(p) # 0
        BY <2>1, EmptySeq
      <4>3. \A n \in Nat : n # 0 /\ n # 1 => n > 1
        OBVIOUS
      <4>4. QED
        BY <3>2, <4>1, <4>2, <4>3, Zenon
    <3>3. Len(p) > 1 => ((d = None) <=> (past = {}))
      BY <2>2 DEF InPlace
    <3>4. QED
      BY <3>1, <3>2, <3>3
  <2>6. Len(p) > 1 /\ past = {} => d = None
    BY <2>2 DEF InPlace
  <2>7. i \in DOMAIN ghosts => InPlace(p, at, ghosts[i])
    BY <2>2, <2>3
  <2> HIDE DEF d
  <2>8. QED
    BY <2>3, <2>4, <2>5, <2>6, <2>7, Zenon DEF InPlace
<1>2. QED
  BY <1>1, PlaybackInit, PlaybackStep, PTL DEF Spec

\* The link is dealt with, and the clock has reached the first breadcrumb.
CaughtUp == link = NoLink /\ ~early

\* From then on no answer, tick or click takes the clock out of a range that can be played
\* (applyAircraftData, togglePlayback, playbackScrub in index.html).
THEOREM CaughtUpForGood == Spec => [](CaughtUp => [](active /\ Unlocked => at \in min..max))
<1>1. CaughtUp /\ [Next]_vars => CaughtUp'
  <2> SUFFICES ASSUME CaughtUp, [Next]_vars PROVE CaughtUp'
    OBVIOUS
  <2>1. ASSUME NEW list, NEW T, Apply(list, T) PROVE CaughtUp'
    BY <2>1 DEF Apply, Settle, CaughtUp
  <2>2. CASE Toggle \/ TimerTick \/ Now
    <3>1. link' = link /\ Settle
      BY <2>2 DEF Toggle, TimerTick, Now
    <3>2. QED
      BY <3>1 DEF Settle, CaughtUp
  <2>3. ASSUME NEW t, Mark(t) \/ Scrub(t) PROVE CaughtUp'
    <3>1. link' = link /\ Settle
      BY <2>3 DEF Mark, Scrub
    <3>2. QED
      BY <3>1 DEF Settle, CaughtUp
  <2>a. ASSUME NEW i, Select(i) PROVE CaughtUp'
    BY <2>a DEF Select, CaughtUp
  <2>b. CASE OnlySelected
    BY <2>b DEF OnlySelected, CaughtUp
  <2>4. ASSUME NEW F, Filter(F) PROVE CaughtUp'
    BY <2>4 DEF Filter, CaughtUp
  <2>5. ASSUME NEW s, Speed(s) PROVE CaughtUp'
    BY <2>5 DEF Speed, CaughtUp
  <2>6. CASE OpenLink
    BY <2>6 DEF OpenLink, CaughtUp
  <2>7. CASE UNCHANGED vars
    BY <2>7 DEF vars, history, CaughtUp
  <2>8. QED
    BY <2>1, <2>2, <2>3, <2>4, <2>5, <2>6, <2>7, <2>a, <2>b DEF Next
<1>2. IInv /\ CaughtUp => (active /\ Unlocked => at \in min..max)
  BY DEF IInv, InRange, CaughtUp
<1>3. QED
  BY <1>1, <1>2, PlaybackInit, PlaybackStep, PTL DEF Spec
=============================================================================
