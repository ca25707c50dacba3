--------------------------- MODULE JmapWalkProofs -----------------------------
(***************************************************************************)
(* A JMAP pass leaves a state that what it stored answers for, for any     *)
(* number of objects and changes, every page size and limit, both orders   *)
(* and servers that count or do not: however the query moves under a walk, *)
(* with or without a state to show it, the objects that were there at the  *)
(* first page are stored, seen by the walk or by a listing that held still *)
(* or is in a fixed order.  What is left out is what slipped between the   *)
(* query and the get of the first page.                                    *)
(***************************************************************************)
EXTENDS JmapWalk, FiniteSetTheorems, SequenceTheorems, WellFoundedInduction, TLAPS

-------------------------------------------------------------------------------
(* Least and greatest *)

\* Numbers have a least one: the order of Nat is well founded.
LEMMA LeastNatural ==
  ASSUME NEW S \in SUBSET Nat, S # {}
  PROVE  \E x \in S : \A y \in S : x <= y
<1>1. PICK m \in S : \A y \in S : ~(<<y, m>> \in OpToRel(<, Nat))
  BY NatLessThanWellFounded, WFMin, Zenon
<1>2. \A y \in S : <<y, m>> \in Nat \X Nat /\ <<y, m>>[1] = y /\ <<y, m>>[2] = m
  OBVIOUS
<1>3. \A y \in S : ~(y < m)
  BY <1>1, <1>2 DEF OpToRel
<1> QED
  BY <1>3

\* Min is the least, where there is one.
LEMMA LeastOf ==
  ASSUME NEW S \in SUBSET Nat, S # {}
  PROVE  Min(S) \in S /\ \A y \in S : Min(S) <= y
BY LeastNatural DEF Min

\* Max is the greatest, where there is a bound.
LEMMA GreatestOf ==
  ASSUME NEW n \in Nat, NEW S \in SUBSET (0..n), S # {}
  PROVE  Max(S) \in S /\ \A y \in S : y <= Max(S)
<1> DEFINE T == {n - y : y \in S}
<1>0. \A y \in S : y \in Nat /\ y <= n /\ n - y \in Nat /\ n - y \in T
  OBVIOUS
<1>1. T \in SUBSET Nat /\ T # {}
  BY <1>0
<1>2. PICK t \in T : \A y \in T : t <= y
  BY <1>1, LeastNatural
<1>3. PICK x \in S : t = n - x
  OBVIOUS
<1>4. x \in Nat
  BY <1>0
<1>5. ASSUME NEW y \in S PROVE x >= y
  <2>1. n - x <= n - y /\ y \in Nat
    BY <1>0, <1>2, <1>3
  <2> QED
    BY <1>4, <2>1
<1>6. \E z \in S : \A y \in S : z >= y
  BY <1>5
<1>7. Max(S) \in S /\ \A y \in S : Max(S) >= y
  BY <1>6 DEF Max
<1> QED
  BY <1>0, <1>7

-------------------------------------------------------------------------------
(* The ranking *)

NoTwice(r) == \A i, j \in DOMAIN r : r[i] = r[j] => i = j
Precedes(r, a, b) == \A i, j \in DOMAIN r : (r[i] = a /\ r[j] = b) => i < j

Removed(r, p) == SubSeq(r, 1, p - 1) \o SubSeq(r, p + 1, Len(r))
Inserted(r, o, at) == SubSeq(r, 1, at) \o <<o>> \o SubSeq(r, at + 1, Len(r))

\* The elements of two sequences put together.
LEMMA Joined ==
  ASSUME NEW S, NEW s \in Seq(S), NEW t \in Seq(S), NEW q, q = s \o t
  PROVE  /\ q \in Seq(S) /\ Len(q) = Len(s) + Len(t)
         /\ \A i \in 1..Len(s) : q[i] = s[i]
         /\ \A i \in 1..Len(t) : q[Len(s) + i] = t[i]
<1>1. Len(s) \in Nat /\ Len(t) \in Nat
  OBVIOUS
<1>2. /\ q \in Seq(S) /\ Len(q) = Len(s) + Len(t)
      /\ \A i \in 1..(Len(s) + Len(t)) : q[i] = IF i <= Len(s) THEN s[i] ELSE t[i - Len(s)]
  BY ConcatProperties
<1>3. ASSUME NEW i \in 1..Len(s) PROVE q[i] = s[i]
  <2>1. i \in 1..(Len(s) + Len(t)) /\ i <= Len(s)
    BY <1>1
  <2> QED
    BY <1>2, <2>1
<1>4. ASSUME NEW i \in 1..Len(t) PROVE q[Len(s) + i] = t[i]
  <2>1. /\ Len(s) + i \in 1..(Len(s) + Len(t)) /\ ~(Len(s) + i <= Len(s))
        /\ (Len(s) + i) - Len(s) = i
    BY <1>1
  <2>2. q[Len(s) + i] = t[(Len(s) + i) - Len(s)]
    BY <1>2, <2>1
  <2> QED
    BY <2>1, <2>2
<1> QED
  BY <1>2, <1>3, <1>4

\* The elements of a sequence after one is taken out.
LEMMA RemovedElements ==
  ASSUME NEW S, NEW r \in Seq(S), NEW p \in 1..Len(r), NEW q, q = Removed(r, p)
  PROVE  /\ q \in Seq(S) /\ Len(q) = Len(r) - 1
         /\ \A i \in 1..(p - 1) : q[i] = r[i]
         /\ \A i \in p..(Len(r) - 1) : q[i] = r[i + 1]
<1> DEFINE front == SubSeq(r, 1, p - 1)
           back == SubSeq(r, p + 1, Len(r))
<1>0. Len(r) \in Nat /\ p \in Nat /\ p >= 1 /\ p <= Len(r)
  OBVIOUS
<1>1. front \in Seq(S) /\ Len(front) = p - 1 /\ \A i \in 1..(p - 1) : front[i] = r[i]
  BY <1>0, SubSeqProperties
<1>2. /\ back \in Seq(S) /\ Len(back) = Len(r) - p
      /\ \A i \in 1..(Len(r) - p) : back[i] = r[p + i]
  BY <1>0, SubSeqProperties
<1> HIDE DEF front, back
<1>3. q = front \o back
  BY DEF front, back, Removed
<1>4. /\ q \in Seq(S) /\ Len(q) = Len(front) + Len(back)
      /\ \A i \in 1..Len(front) : q[i] = front[i]
      /\ \A i \in 1..Len(back) : q[Len(front) + i] = back[i]
  <2>1. front \in Seq(S) /\ back \in Seq(S)
    BY <1>1, <1>2
  <2> QED
    BY <2>1, <1>3, Joined
<1>5. ASSUME NEW i \in p..(Len(r) - 1) PROVE q[i] = r[i + 1]
  <2>1. /\ i - (p - 1) \in 1..(Len(r) - p) /\ p + (i - (p - 1)) = i + 1
        /\ (p - 1) + (i - (p - 1)) = i
    BY <1>0
  <2>2. q[(p - 1) + (i - (p - 1))] = back[i - (p - 1)]
    BY <2>1, <1>1, <1>2, <1>4
  <2> QED
    BY <2>1, <2>2, <1>2
<1> QED
  BY <1>0, <1>1, <1>2, <1>4, <1>5

\* Taking one out keeps the others, each once and in their order.
LEMMA RemovedFacts ==
  ASSUME NEW S, NEW r \in Seq(S), NEW p \in 1..Len(r), NoTwice(r),
         NEW q \in Seq(S), Len(q) = Len(r) - 1,
         \A i \in 1..(p - 1) : q[i] = r[i],
         \A i \in p..(Len(r) - 1) : q[i] = r[i + 1]
  PROVE  /\ NoTwice(q)
         /\ \A x : (\E i \in DOMAIN q : q[i] = x) <=> (x # r[p] /\ \E i \in DOMAIN r : r[i] = x)
         /\ \A a, b : Precedes(r, a, b) => Precedes(q, a, b)
<1>0. p \in Nat /\ p >= 1 /\ p <= Len(r) /\ Len(r) \in Nat /\ DOMAIN r = 1..Len(r) /\ DOMAIN q = 1..Len(q)
  OBVIOUS
<1>1. ASSUME NEW i \in DOMAIN q
      PROVE  /\ i \in Nat
             /\ \/ i < p /\ i \in DOMAIN r /\ q[i] = r[i]
                \/ i >= p /\ i + 1 \in DOMAIN r /\ q[i] = r[i + 1]
  <2>1. i \in 1..(p - 1) \/ i \in p..(Len(r) - 1)
    BY <1>0
  <2> QED
    BY <2>1, <1>0
<1>3. NoTwice(q)
  <2> SUFFICES ASSUME NEW i \in DOMAIN q, NEW j \in DOMAIN q, q[i] = q[j] PROVE i = j
    BY DEF NoTwice
  <2> QED
    BY <1>0, <1>1 DEF NoTwice
<1>4. ASSUME NEW x PROVE (\E i \in DOMAIN q : q[i] = x) <=> (x # r[p] /\ \E i \in DOMAIN r : r[i] = x)
  <2>1. ASSUME NEW i \in DOMAIN q, q[i] = x PROVE x # r[p] /\ \E k \in DOMAIN r : r[k] = x
    <3>1. PICK k \in DOMAIN r : r[k] = x /\ k # p
      BY <1>0, <1>1, <2>1
    <3> QED
      BY <3>1, <1>0 DEF NoTwice
  <2>2. ASSUME x # r[p], NEW i \in DOMAIN r, r[i] = x PROVE \E k \in DOMAIN q : q[k] = x
    <3>0. i # p
      BY <2>2
    <3>1. CASE i < p
      <4>1. i \in 1..(p - 1) /\ i \in DOMAIN q
        BY <3>1, <1>0
      <4> QED
        BY <4>1, <2>2
    <3>2. CASE i > p
      <4>1. i - 1 \in p..(Len(r) - 1) /\ i - 1 \in DOMAIN q /\ (i - 1) + 1 = i
        BY <3>2, <1>0
      <4>2. q[i - 1] = r[(i - 1) + 1]
        BY <4>1
      <4> QED
        BY <4>1, <4>2, <2>2
    <3>3. i \in Nat
      BY <1>0
    <3> QED
      BY <3>0, <3>1, <3>2, <3>3, <1>0
  <2> QED
    BY <2>1, <2>2
<1>5. ASSUME NEW a, NEW b, Precedes(r, a, b) PROVE Precedes(q, a, b)
  <2> SUFFICES ASSUME NEW i \in DOMAIN q, NEW j \in DOMAIN q, q[i] = a, q[j] = b PROVE i < j
    BY DEF Precedes
  <2> QED
    BY <1>0, <1>1, <1>5 DEF Precedes
<1> QED
  BY <1>3, <1>4, <1>5

Insertion(S, r, o, at, q) ==
  /\ q \in Seq(S) /\ Len(q) = Len(r) + 1
  /\ \A i \in 1..at : q[i] = r[i]
  /\ q[at + 1] = o
  /\ \A i \in (at + 2)..(Len(r) + 1) : q[i] = r[i - 1]

\* The elements of a sequence after one is put in.
LEMMA InsertedElements ==
  ASSUME NEW S, NEW r \in Seq(S), NEW o \in S, NEW at \in 0..Len(r),
         NEW q, q = Inserted(r, o, at)
  PROVE  Insertion(S, r, o, at, q)
<1> DEFINE front == SubSeq(r, 1, at)
           back == SubSeq(r, at + 1, Len(r))
           one == <<o>>
           half == front \o one
<1>0. Len(r) \in Nat /\ at \in Nat /\ at <= Len(r)
  OBVIOUS
<1>1. front \in Seq(S) /\ Len(front) = at /\ \A i \in 1..at : front[i] = r[i]
  BY <1>0, SubSeqProperties
<1>2. /\ back \in Seq(S) /\ Len(back) = Len(r) - at
      /\ \A i \in 1..(Len(r) - at) : back[i] = r[at + i]
  BY <1>0, SubSeqProperties
<1>3. one \in Seq(S) /\ Len(one) = 1 /\ one[1] = o
  OBVIOUS
<1> HIDE DEF front, back, one
<1>4. /\ half \in Seq(S) /\ Len(half) = at + 1
      /\ \A i \in 1..at : half[i] = front[i]
      /\ half[at + 1] = o
  <2>1. /\ half \in Seq(S) /\ Len(half) = Len(front) + Len(one)
        /\ \A i \in 1..Len(front) : half[i] = front[i]
        /\ \A i \in 1..Len(one) : half[Len(front) + i] = one[i]
    <3>1. front \in Seq(S) /\ one \in Seq(S)
      BY <1>1, <1>3
    <3> QED
      BY <3>1, Joined
  <2> QED
    BY <2>1, <1>0, <1>1, <1>3
<1> HIDE DEF half
<1>5. q = half \o back
  BY DEF half, front, back, one, Inserted
<1>6. /\ q \in Seq(S) /\ Len(q) = Len(half) + Len(back)
      /\ \A i \in 1..Len(half) : q[i] = half[i]
      /\ \A i \in 1..Len(back) : q[Len(half) + i] = back[i]
  <2>1. half \in Seq(S) /\ back \in Seq(S)
    BY <1>2, <1>4
  <2> QED
    BY <2>1, <1>5, Joined
<1>7. ASSUME NEW i \in (at + 2)..(Len(r) + 1) PROVE q[i] = r[i - 1]
  <2>1. /\ i - (at + 1) \in 1..(Len(r) - at) /\ at + (i - (at + 1)) = i - 1
        /\ (at + 1) + (i - (at + 1)) = i
    BY <1>0
  <2>2. q[(at + 1) + (i - (at + 1))] = back[i - (at + 1)]
    BY <2>1, <1>2, <1>4, <1>6
  <2> QED
    BY <2>1, <2>2, <1>2
<1>8. ASSUME NEW i \in 1..at PROVE q[i] = r[i]
  <2>1. i \in 1..Len(half)
    BY <1>0, <1>4
  <2> QED
    BY <2>1, <1>1, <1>4, <1>6
<1>9. at + 1 \in 1..Len(half)
  BY <1>0, <1>4
<1> QED
  BY <1>0, <1>2, <1>4, <1>6, <1>7, <1>8, <1>9 DEF Insertion

\* What becomes of a sequence to which x is added.
Gains(r, q, x) ==
  /\ NoTwice(q)
  /\ \A o : (\E i \in DOMAIN q : q[i] = o) <=> (o = x \/ \E i \in DOMAIN r : r[i] = o)
  /\ \A a, b : (Precedes(r, a, b) /\ a # x /\ b # x) => Precedes(q, a, b)

\* Putting a new one in keeps the others, each once and in their order.
LEMMA InsertedFacts ==
  ASSUME NEW S, NEW r \in Seq(S), NEW o, NEW at \in 0..Len(r), NoTwice(r),
         \A i \in DOMAIN r : r[i] # o,
         NEW q, Insertion(S, r, o, at, q)
  PROVE  Gains(r, q, o)
<1>0. at \in Nat /\ at <= Len(r) /\ Len(r) \in Nat /\ DOMAIN r = 1..Len(r) /\ DOMAIN q = 1..Len(q)
  BY DEF Insertion
<1> USE DEF Insertion
<1>1. ASSUME NEW i \in DOMAIN q
      PROVE  /\ i \in Nat
             /\ \/ i <= at /\ i \in DOMAIN r /\ q[i] = r[i]
                \/ i = at + 1 /\ q[i] = o
                \/ i >= at + 2 /\ i - 1 \in DOMAIN r /\ q[i] = r[i - 1]
  <2>1. i \in 1..at \/ i = at + 1 \/ i \in (at + 2)..(Len(r) + 1)
    BY <1>0
  <2> QED
    BY <2>1, <1>0
<1>5. NoTwice(q)
  <2> SUFFICES ASSUME NEW i \in DOMAIN q, NEW j \in DOMAIN q, q[i] = q[j] PROVE i = j
    BY DEF NoTwice
  <2> QED
    BY <1>0, <1>1 DEF NoTwice
<1>6. ASSUME NEW x PROVE (\E i \in DOMAIN q : q[i] = x) <=> (x = o \/ \E i \in DOMAIN r : r[i] = x)
  <2>1. ASSUME NEW i \in DOMAIN q, q[i] = x PROVE x = o \/ \E k \in DOMAIN r : r[k] = x
    BY <1>1, <2>1
  <2>2. o = q[at + 1] /\ at + 1 \in DOMAIN q
    BY <1>0
  <2>3. ASSUME NEW i \in DOMAIN r, r[i] = x PROVE \E k \in DOMAIN q : q[k] = x
    <3>1. CASE i <= at
      <4>1. i \in 1..at /\ i \in DOMAIN q
        BY <3>1, <1>0
      <4> QED
        BY <4>1, <2>3
    <3>2. CASE i > at
      <4>1. i + 1 \in (at + 2)..(Len(r) + 1) /\ i + 1 \in DOMAIN q /\ (i + 1) - 1 = i
        BY <3>2, <1>0
      <4>2. q[i + 1] = r[(i + 1) - 1]
        BY <4>1
      <4> QED
        BY <4>1, <4>2, <2>3
    <3>3. i \in Nat
      BY <1>0
    <3> QED
      BY <3>1, <3>2, <3>3, <1>0
  <2> QED
    BY <2>1, <2>2, <2>3
<1>7. ASSUME NEW a, NEW b, Precedes(r, a, b), a # o, b # o PROVE Precedes(q, a, b)
  <2> SUFFICES ASSUME NEW i \in DOMAIN q, NEW j \in DOMAIN q, q[i] = a, q[j] = b PROVE i < j
    BY DEF Precedes
  <2>1. PICK m \in DOMAIN r : m \in Nat /\ r[m] = a /\ ((m <= at /\ i = m) \/ (m > at /\ i = m + 1))
    <3>1. CASE i <= at /\ i \in DOMAIN r /\ q[i] = r[i]
      BY <1>1, <3>1
    <3>2. CASE i >= at + 2 /\ i - 1 \in DOMAIN r /\ q[i] = r[i - 1]
      <4>1. i - 1 \in Nat /\ i - 1 > at /\ i = (i - 1) + 1
        BY <1>0, <1>1, <3>2
      <4>2. r[i - 1] = a
        BY <3>2
      <4> QED
        BY <3>2, <4>1, <4>2
    <3> QED
      BY <1>1, <1>7, <3>1, <3>2
  <2>2. PICK n \in DOMAIN r : n \in Nat /\ r[n] = b /\ ((n <= at /\ j = n) \/ (n > at /\ j = n + 1))
    <3>1. CASE j <= at /\ j \in DOMAIN r /\ q[j] = r[j]
      BY <1>1, <3>1
    <3>2. CASE j >= at + 2 /\ j - 1 \in DOMAIN r /\ q[j] = r[j - 1]
      <4>1. j - 1 \in Nat /\ j - 1 > at /\ j = (j - 1) + 1
        BY <1>0, <1>1, <3>2
      <4>2. r[j - 1] = b
        BY <3>2
      <4> QED
        BY <3>2, <4>1, <4>2
    <3> QED
      BY <1>1, <1>7, <3>1, <3>2
  <2>3. m < n
    BY <1>7, <2>1, <2>2 DEF Precedes
  <2> HIDE DEF Insertion
  <2> QED
    BY <1>0, <2>1, <2>2, <2>3
<1> QED
  BY <1>5, <1>6, <1>7 DEF Gains

-------------------------------------------------------------------------------
(* Where a page begins, and what is on it *)

Walks == [trail : Seq(Objects), seen : SUBSET Objects, queryState : Seq(Objects),
          steady : BOOLEAN, pages : Nat, done : BOOLEAN, idle : Nat, reread : Nat,
          restarts : Nat, lost : BOOLEAN]

Ranked == ranking \in Seq(Objects) /\ NoTwice(ranking)

\* The query lists what is there.
LEMMA Ranks ==
  ASSUME Ranked
  PROVE  /\ Len(ranking) \in Nat /\ DOMAIN ranking = 1..Len(ranking)
         /\ \A i \in 1..Len(ranking) : ranking[i] \in Objects /\ ranking[i] \in There
         /\ \A o \in There : \E i \in 1..Len(ranking) : ranking[i] = o
         /\ There \subseteq Objects
<1>1. ranking \in Seq(Objects)
  BY DEF Ranked
<1>2. /\ Len(ranking) \in Nat /\ DOMAIN ranking = 1..Len(ranking)
      /\ \A i \in 1..Len(ranking) : ranking[i] \in Objects
  BY <1>1
<1> QED
  BY <1>2 DEF There

\* An object that is there has a place in the query.
LEMMA PlaceFacts ==
  ASSUME Ranked, NEW o \in There
  PROVE  Place(o) \in 1..Len(ranking) /\ ranking[Place(o)] = o
BY Ranks DEF Place

\* A page begins after an id the walk has had, the last one when it is still there.
LEMMA PositionFacts ==
  ASSUME Ranked, NEW w \in Walks
  PROVE  /\ Position(w) \in 0..Len(ranking)
         /\ w.trail = <<>> => Position(w) = 0
         /\ Position(w) > 0 => \E k \in DOMAIN w.trail : w.trail[k] = ranking[Position(w)]
         /\ (w.trail # <<>> /\ w.trail[Len(w.trail)] \in There) =>
              Position(w) > 0 /\ ranking[Position(w)] = w.trail[Len(w.trail)]
         /\ (w.trail # <<>> /\ Found(w) # {}) => Min(Found(w)) \in Nat
<1>1. Len(ranking) \in Nat
  BY Ranks
<1>2. w.trail \in Seq(Objects)
  BY DEF Walks
<1>3. Len(w.trail) \in Nat /\ DOMAIN w.trail = 1..Len(w.trail)
  BY <1>2
<1>4. CASE w.trail = <<>>
  BY <1>1, <1>4 DEF Position
<1>5. CASE w.trail # <<>>
  <2>0. Len(w.trail) > 0
    BY <1>2, <1>3, <1>5
  <2>1. Found(w) \in SUBSET (0..(Len(w.trail) - 1))
    BY DEF Found, Anchors
  <2>2. CASE Found(w) = {}
    <3>1. 0 \in Anchors(Len(w.trail))
      BY <2>0, <1>3 DEF Anchors, LastFew
    <3>2. Anchor(w, 0) = w.trail[Len(w.trail)]
      BY <1>3 DEF Anchor
    <3>3. w.trail[Len(w.trail)] \notin There
      BY <2>2, <3>1, <3>2 DEF Found
    <3>4. Position(w) = 0
      BY <2>2 DEF Position
    <3> QED
      BY <3>3, <3>4, <1>1, <1>5, <2>2
  <2>3. CASE Found(w) # {}
    <3> DEFINE b == Min(Found(w))
    <3>1. \A y \in Found(w) : y \in Nat
      BY <2>1, <1>3
    <3>2. b \in Found(w) /\ \A y \in Found(w) : b <= y
      BY <3>1, <2>3, LeastOf
    <3>3. b \in 0..(Len(w.trail) - 1) /\ Anchor(w, b) \in There
      BY <2>1, <3>2 DEF Found
    <3>4. Position(w) = Place(Anchor(w, b))
      BY <1>5, <2>3 DEF Position
    <3> HIDE DEF b
    <3>5. Position(w) \in 1..Len(ranking) /\ ranking[Position(w)] = Anchor(w, b)
      BY <3>3, <3>4, PlaceFacts
    <3>6. Len(w.trail) - b \in DOMAIN w.trail /\ Anchor(w, b) = w.trail[Len(w.trail) - b]
      BY <3>3, <1>3 DEF Anchor
    <3>7. ASSUME w.trail[Len(w.trail)] \in There PROVE b = 0
      <4>1. 0 \in Anchors(Len(w.trail))
        BY <2>0, <1>3 DEF Anchors, LastFew
      <4>2. Anchor(w, 0) = w.trail[Len(w.trail)]
        BY <1>3 DEF Anchor
      <4>3. 0 \in Found(w)
        BY <4>1, <4>2, <3>7 DEF Found
      <4> QED
        BY <4>3, <3>1, <3>2
    <3>8. b \in Nat
      BY <3>3, <1>3
    <3>9. ASSUME w.trail[Len(w.trail)] \in There PROVE Anchor(w, b) = w.trail[Len(w.trail)]
      BY <3>6, <3>7, <3>9, <1>3
    <3>10. Position(w) > 0
      BY <3>5, <1>1
    <3>11. Position(w) \in 0..Len(ranking)
      BY <3>5, <1>1
    <3> QED
      BY <3>5, <3>6, <3>8, <3>9, <3>10, <3>11, <1>5 DEF b
  <2> QED
    BY <2>2, <2>3
<1> QED
  BY <1>4, <1>5

\* The ids of a page are those that follow its place, up to the end when it is done.
\* A page of up to `limit` ids that begins after the first p of the query.
PageOf(limit, ids, p) ==
  /\ p \in 0..Len(ranking) /\ ids \in Seq(Objects) /\ Len(ids) \in Nat
  /\ p + Len(ids) <= Len(ranking)
  /\ \A k \in 1..Len(ids) : ids[k] = ranking[p + k]
  /\ \A i \in 1..Len(ranking) :
       (i > p /\ i <= p + Len(ids)) => \E k \in 1..Len(ids) : ids[k] = ranking[i]
  /\ (ids = <<>> \/ p + Len(ids) >= Len(ranking) \/ Len(ids) < limit) => p + Len(ids) = Len(ranking)

\* PageIds is such a page.
LEMMA PageFacts ==
  ASSUME Ranked, NEW w \in Walks, NEW limit \in Nat \ {0}, NEW ids, ids = PageIds(w, limit),
         NEW p, p = Position(w)
  PROVE  PageOf(limit, ids, p)
<1>1. p \in 0..Len(ranking) /\ Len(ranking) \in Nat /\ p \in Nat /\ limit \in Nat /\ limit >= 1
  BY PositionFacts, Ranks
<1> DEFINE top == Min({p + limit, Len(ranking)})
<1>2. {p + limit, Len(ranking)} \in SUBSET Nat /\ {p + limit, Len(ranking)} # {}
  BY <1>1
<1>3. top \in {p + limit, Len(ranking)} /\ top <= p + limit /\ top <= Len(ranking)
  BY <1>2, LeastOf
<1>4. top \in Nat /\ top >= p /\ (top < p + limit => top = Len(ranking))
  BY <1>1, <1>3
<1> HIDE DEF top
<1>5. ids = SubSeq(ranking, p + 1, top)
  BY DEF PageIds, top
<1>6. \A i \in (p + 1)..top : ranking[i] \in Objects
  <2>1. \A i \in (p + 1)..top : i \in 1..Len(ranking)
    BY <1>1, <1>3, <1>4
  <2> QED
    BY <2>1, Ranks
<1>7. /\ SubSeq(ranking, p + 1, top) \in Seq(Objects)
      /\ Len(SubSeq(ranking, p + 1, top)) = IF p + 1 <= top THEN top - (p + 1) + 1 ELSE 0
      /\ \A i \in 1..(top - (p + 1) + 1) : SubSeq(ranking, p + 1, top)[i] = ranking[(p + 1) + i - 1]
  <2>1. p + 1 \in Int /\ top \in Int
    BY <1>1, <1>4
  <2> QED
    BY <1>6, <2>1, SubSeqProperties
<1>8. ids \in Seq(Objects) /\ Len(ids) = top - p
  BY <1>1, <1>4, <1>5, <1>7
<1>9. ASSUME NEW k \in 1..Len(ids) PROVE ids[k] = ranking[p + k]
  <2>1. k \in 1..(top - (p + 1) + 1) /\ (p + 1) + k - 1 = p + k
    BY <1>1, <1>4, <1>8
  <2>2. ids[k] = ranking[(p + 1) + k - 1]
    BY <2>1, <1>5, <1>7
  <2> QED
    BY <2>1, <2>2
<1>10. ASSUME NEW i \in 1..Len(ranking), i > p, i <= p + Len(ids)
       PROVE  \E k \in 1..Len(ids) : ids[k] = ranking[i]
  <2>1. i - p \in 1..Len(ids) /\ p + (i - p) = i
    BY <1>1, <1>4, <1>8, <1>10
  <2>2. ids[i - p] = ranking[p + (i - p)]
    BY <2>1, <1>9
  <2> QED
    BY <2>1, <2>2
<1>11. p + Len(ids) = top
  BY <1>1, <1>4, <1>8
<1>12. ASSUME ids = <<>> \/ p + Len(ids) >= Len(ranking) \/ Len(ids) < limit
       PROVE  p + Len(ids) = Len(ranking)
  <2>1. ids = <<>> => Len(ids) = 0
    OBVIOUS
  <2>2. CASE p + Len(ids) >= Len(ranking)
    BY <1>1, <1>3, <1>4, <1>11, <2>2
  <2>3. CASE Len(ids) < limit
    BY <1>1, <1>3, <1>4, <1>8, <1>11, <2>3
  <2>4. CASE ids = <<>>
    BY <2>1, <2>4, <2>3, <1>1
  <2> QED
    BY <1>12, <2>2, <2>3, <2>4
<1>13. p + Len(ids) <= Len(ranking) /\ Len(ids) \in Nat
  BY <1>1, <1>3, <1>4, <1>8
<1> QED
  BY <1>1, <1>8, <1>9, <1>10, <1>12, <1>13 DEF PageOf

-------------------------------------------------------------------------------
(* A walk after a page *)

\* What a walk reads again is counted in whole pages.
LEMMA RereadNatural ==
  ASSUME Ranked, NEW w \in Walks, NEW limit \in Nat \ {0}
  PROVE  Reread(w, limit) \in Nat
<1>1. Len(w.trail) \in Nat
  BY DEF Walks
<1>2. \A n \in Nat : n \div limit \in Nat
  OBVIOUS
<1>3. CASE w.trail = <<>>
  BY <1>3 DEF Reread, Placeless
<1>4. CASE Placeless(w)
  BY <1>1, <1>2, <1>4 DEF Reread, Placeless
<1>5. CASE w.trail # <<>> /\ ~Placeless(w)
  <2>1. Min(Found(w)) \in Nat
    BY <1>5, PositionFacts DEF Placeless
  <2> QED
    BY <1>2, <1>5, <2>1 DEF Reread
<1> QED
  BY <1>3, <1>4, <1>5

\* What a page adds to a walk.
PageAdds(w, q, ids) ==
  /\ q \in Walks
  /\ q.trail = w.trail \o ids
  /\ \A o : o \in q.seen <=> (o \in w.seen \/ \E k \in 1..Len(ids) : ids[k] = o)
  /\ q.pages = w.pages + 1
  /\ q.done => Position(w) + Len(ids) = Len(ranking)
  /\ w.pages = 0 => q.queryState = ranking /\ (q.steady <=> w.steady)
  /\ w.pages # 0 => /\ q.queryState = w.queryState
                    /\ q.steady <=> (w.steady /\ w.queryState = ranking)

\* PageIds and Paged are that page and that walk.
LEMMA PagedFacts ==
  ASSUME Ranked, counts \in BOOLEAN, NEW w \in Walks, NEW limit \in Nat \ {0},
         NEW q, q = Paged(w, limit), NEW ids, ids = PageIds(w, limit)
  PROVE  PageAdds(w, q, ids)
<1> DEFINE p == Position(w)
<1> DEFINE fresh == {ids[i] : i \in DOMAIN ids} \ w.seen
<1> DEFINE done == ids = <<>> \/ IF counts THEN p + Len(ids) >= Len(ranking) ELSE Len(ids) < limit
<1> DEFINE stuck == fresh = {} /\ ~done
<1> DEFINE reread == w.reread + Reread(w, limit)
<1>1. q = [trail |-> w.trail \o ids,
       seen |-> w.seen \cup fresh,
       queryState |-> IF w.pages = 0 THEN ranking ELSE w.queryState,
       steady |-> w.steady /\ (w.pages = 0 \/ w.queryState = ranking),
       pages |-> w.pages + 1,
       done |-> done,
       idle |-> IF stuck THEN w.idle + 1 ELSE 0,
       reread |-> IF stuck THEN reread ELSE 0,
       restarts |-> IF Placeless(w) THEN w.restarts + 1 ELSE w.restarts,
       lost |-> \/ Placeless(w) /\ w.restarts >= Restarts
                \/ stuck /\ w.idle + 1 > reread + IdlePages]
  BY DEF Paged
<1>2. /\ ids \in Seq(Objects) /\ Len(ids) \in Nat /\ p \in 0..Len(ranking)
      /\ (ids = <<>> \/ p + Len(ids) >= Len(ranking) \/ Len(ids) < limit) => p + Len(ids) = Len(ranking)
  <2>1. PICK at : at = p
    OBVIOUS
  <2>2. PageOf(limit, ids, at)
    BY <2>1, PageFacts
  <2> QED
    BY <2>1, <2>2 DEF PageOf
<1>3. reread \in Nat
  BY RereadNatural DEF Walks
<1>4. /\ w.trail \in Seq(Objects) /\ w.seen \subseteq Objects /\ w.queryState \in Seq(Objects)
      /\ w.steady \in BOOLEAN /\ w.pages \in Nat /\ w.idle \in Nat /\ w.restarts \in Nat
  BY DEF Walks
<1>5. ranking \in Seq(Objects)
  BY DEF Ranked
<1>6. DOMAIN ids = 1..Len(ids) /\ \A i \in 1..Len(ids) : ids[i] \in Objects
  BY <1>2
<1>7. \A o : o \in w.seen \cup fresh <=> (o \in w.seen \/ \E k \in 1..Len(ids) : ids[k] = o)
  BY <1>6
<1>8. w.seen \cup fresh \in SUBSET Objects
  BY <1>4, <1>6
<1>9. done => p + Len(ids) = Len(ranking)
  BY <1>2
<1>10. w.trail \o ids \in Seq(Objects)
  BY <1>2, <1>4
<1>11. done \in BOOLEAN /\ stuck \in BOOLEAN
  OBVIOUS
<1> HIDE DEF reread, fresh, done, stuck, p
<1>12. /\ (IF w.pages = 0 THEN ranking ELSE w.queryState) \in Seq(Objects)
       /\ (w.steady /\ (w.pages = 0 \/ w.queryState = ranking)) \in BOOLEAN
       /\ w.pages + 1 \in Nat
       /\ (IF stuck THEN w.idle + 1 ELSE 0) \in Nat
       /\ (IF stuck THEN reread ELSE 0) \in Nat
       /\ (IF Placeless(w) THEN w.restarts + 1 ELSE w.restarts) \in Nat
       /\ (\/ Placeless(w) /\ w.restarts >= Restarts
           \/ stuck /\ w.idle + 1 > reread + IdlePages) \in BOOLEAN
  BY <1>3, <1>4, <1>5
<1>13. q \in Walks
  BY <1>1, <1>8, <1>10, <1>11, <1>12 DEF Walks
<1>14. q.trail = w.trail \o ids /\ q.seen = w.seen \cup fresh /\ q.pages = w.pages + 1
       /\ (q.done <=> done)
  BY <1>1
<1>15. q.queryState = (IF w.pages = 0 THEN ranking ELSE w.queryState)
  BY <1>1
<1>16. q.steady = (w.steady /\ (w.pages = 0 \/ w.queryState = ranking))
  BY <1>1
<1>17. q.steady <=> (w.steady /\ (w.pages = 0 \/ w.queryState = ranking))
  BY <1>16
<1> QED
  BY <1>7, <1>9, <1>13, <1>14, <1>15, <1>17 DEF p, PageAdds

-------------------------------------------------------------------------------
(* The inductive invariant *)

Whats == {"created", "updated", "destroyed"}
Entries == [obj : Objects, what : Whats]

Passes == [stage : JmapStages, since : Nat, first : BOOLEAN, cursor : Nat, got : Versions,
           walk : Walks, asked : SUBSET Objects, queried : Nat, slipped : SUBSET Objects,
           listing : Walks, tries : Nat]

JmapTypeOK ==
  /\ order \in {"Fixed", "Server"} /\ counts \in BOOLEAN
  /\ ranking \in Seq(Objects) /\ late \in SUBSET Objects /\ changes \in Seq(Entries)
  /\ jmapCursor \in Nat /\ held \in [Objects -> Nat] /\ slipped \in SUBSET Objects
  /\ pass \in Passes /\ jmapFaults \in Nat

\* Objects are numbered as they are made; making one is its first change and
\* destroying it its last; the query lists those that are there, each once.
LogSound ==
  /\ \E n \in 0..MaxObjects : Made(Len(changes)) = 1..n
  /\ \A o \in Objects : \A i \in ChangesOf(o) :
       \E j \in ChangesOf(o) : j <= i /\ changes[j].what = "created"
  /\ \A o \in Objects : \A i, j \in ChangesOf(o) : changes[i].what = "destroyed" => j <= i
  /\ \A o \in Objects :
       o \in There <=> /\ o \in Made(Len(changes))
                       /\ \A i \in ChangesOf(o) : changes[i].what # "destroyed"
  /\ NoTwice(ranking)

\* `v` is right about every object but those of `gone` as far as state s goes.
Vouches(v, s, gone) ==
  \A o \in Objects \ gone :
    /\ (\A i \in ChangesOf(o) : i <= s) => v[o] = Current(o)
    /\ o \in Made(s) \cap There => v[o] > 0

\* What the store would hold if the pass ended now.
Passing == Over(pass.got, held)

StatesPast ==
  jmapCursor <= Len(changes) /\ pass.since <= Len(changes) /\ pass.cursor <= Len(changes)

CursorHolds == jmapCursor > 0 => Vouches(held, jmapCursor, slipped)

DeltaHolds ==
  pass.stage = "delta" =>
    /\ 0 < jmapCursor /\ jmapCursor <= pass.since
    /\ Vouches(Passing, pass.since, slipped)

\* The objects the walk has fetched are stored as they were at its state or later, and an
\* object listed last that it has yet to see comes after all it has seen.
WalkHolds ==
  /\ pass.walk.pages = 0 => pass.walk.trail = <<>> /\ pass.walk.seen = {}
  /\ \A k \in DOMAIN pass.walk.trail : pass.walk.trail[k] \in pass.walk.seen
  /\ \A o \in pass.walk.seen : o \in Made(Len(changes))
  /\ \A o \in pass.walk.seen \ pass.asked :
       /\ o \in There => Passing[o] > 0
       /\ (o \notin pass.slipped /\ \A i \in ChangesOf(o) : i <= pass.cursor) =>
            Passing[o] = Current(o)
  /\ order = "Fixed" =>
       \A o \in late \ pass.walk.seen :
         \A k \in DOMAIN pass.walk.trail : Precedes(ranking, pass.walk.trail[k], o)

\* An older object that the walk has not seen at its end has been sorted into place.
NoneLate ==
  (order = "Fixed" /\ pass.walk.pages # 1) =>
    \A o \in (Made(pass.cursor) \cap There) \ pass.walk.seen : o \notin late

\* The objects asked for are there or were destroyed since the query was answered, and
\* the query of the only page listed all that was there.
PageHolds ==
  /\ pass.queried <= Len(changes) /\ pass.walk.pages > 0
  /\ pass.asked \subseteq pass.walk.seen
  /\ pass.walk.pages = 1 => pass.asked = pass.walk.seen
  /\ pass.walk.pages # 1 => pass.cursor <= pass.queried
  /\ \A o \in pass.asked :
       o \in There \/ \E i \in ChangesOf(o) : i > pass.queried /\ changes[i].what = "destroyed"
  /\ (pass.walk.done /\ pass.walk.pages = 1) =>
       Made(pass.queried) \cap There \subseteq pass.walk.seen
  /\ pass.walk.done => NoneLate

\* A listing under which the query held still has seen the first of its objects; in a
\* fixed order an older object that neither has seen comes after all it has listed.
ListingHolds ==
  /\ pass.stage \in {"walk", "page"} => pass.listing = NewWalk
  /\ pass.listing.pages = 0 => pass.listing.trail = <<>>
  /\ \A k \in DOMAIN pass.listing.trail : pass.listing.trail[k] \in pass.listing.seen
  /\ \A o \in pass.listing.seen : o \in Made(Len(changes))
  /\ pass.listing.steady =>
       /\ Len(pass.listing.trail) <= Len(pass.listing.queryState)
       /\ \A k \in DOMAIN pass.listing.trail :
            pass.listing.trail[k] = pass.listing.queryState[k]
  /\ (order = "Fixed" /\ pass.walk.pages # 1) =>
       \A o \in (Made(pass.cursor) \cap There) \ (pass.walk.seen \cup pass.listing.seen) :
         \A k \in DOMAIN pass.listing.trail : Precedes(ranking, pass.listing.trail[k], o)

\* What is left to fetch before the pass may leave its cursor.
SettleHolds ==
  /\ pass.stage \in {"settle", "get"} =>
       /\ pass.walk.pages > 0 /\ NoneLate
       /\ pass.walk.pages = 1 =>
            Made(pass.cursor) \cap There \subseteq pass.walk.seen \cup pass.slipped
  /\ pass.stage = "get" =>
       Made(pass.cursor) \cap There \subseteq pass.walk.seen \cup pass.listing.seen

JmapInv ==
  /\ JmapTypeOK /\ LogSound /\ late \subseteq There /\ StatesPast /\ CursorHolds /\ DeltaHolds
  /\ (order = "Fixed" /\ pass.stage \notin {"settle", "get"}) => pass.got = Unsaid
  /\ pass.stage # "page" => pass.asked = {}
  /\ pass.stage \in {"walk", "page", "settle", "get"} => WalkHolds
  /\ pass.stage = "page" => PageHolds
  /\ pass.stage \in {"walk", "page", "settle"} => ListingHolds
  /\ SettleHolds

-------------------------------------------------------------------------------

\* What the log says, index by index.
LEMMA ChangeFacts ==
  ASSUME JmapTypeOK
  PROVE  /\ Len(changes) \in Nat /\ DOMAIN changes = 1..Len(changes)
         /\ \A i \in 1..Len(changes) : changes[i].obj \in Objects /\ changes[i].what \in Whats
         /\ \A o : \A i : i \in ChangesOf(o) <=> (i \in 1..Len(changes) /\ changes[i].obj = o)
         /\ \A s, o : o \in Made(s) <=>
              (o \in Objects /\ \E i \in ChangesOf(o) : changes[i].what = "created" /\ i <= s)
<1>1. Len(changes) \in Nat /\ DOMAIN changes = 1..Len(changes)
  BY DEF JmapTypeOK
<1>2. \A i \in 1..Len(changes) : changes[i] \in Entries
  BY DEF JmapTypeOK
<1>3. \A i \in 1..Len(changes) : changes[i].obj \in Objects /\ changes[i].what \in Whats
  BY <1>2 DEF Entries
<1> QED
  BY <1>1, <1>3 DEF ChangesOf, Made

\* A new change is the last of the log, and the log up to it stays as it was.
LEMMA NewChange ==
  ASSUME JmapTypeOK, NEW x \in Objects, NEW what \in Whats, Change(x, what)
  PROVE  /\ changes' \in Seq(Entries) /\ Len(changes') = Len(changes) + 1
         /\ \A o, i : i \in ChangesOf(o)' <=>
              (i \in ChangesOf(o) \/ (o = x /\ i = Len(changes) + 1))
         /\ \A i \in 1..Len(changes) : changes'[i] = changes[i]
         /\ changes'[Len(changes) + 1].what = what
         /\ \A s \in Nat : s <= Len(changes) => \A o : o \in Made(s)' <=> o \in Made(s)
         /\ \A o : o \in Made(Len(changes))' <=> o \in Made(Len(changes)) \/ (what = "created" /\ o = x)
<1>0. Len(changes) \in Nat /\ DOMAIN changes = 1..Len(changes) /\ changes \in Seq(Entries)
  BY ChangeFacts DEF JmapTypeOK
<1> DEFINE e == [obj |-> x, what |-> what]
<1>1. e \in Entries /\ e.obj = x /\ e.what = what
  BY DEF Entries
<1>2. changes' = Append(changes, e)
  BY DEF Change
<1> HIDE DEF e
<1>3. /\ changes' \in Seq(Entries) /\ Len(changes') = Len(changes) + 1
      /\ \A i \in 1..Len(changes) : changes'[i] = changes[i]
      /\ changes'[Len(changes) + 1] = e
  BY <1>0, <1>1, <1>2, AppendProperties
<1>4. DOMAIN changes' = 1..(Len(changes) + 1)
  BY <1>3
<1>5. ASSUME NEW o, NEW i
      PROVE i \in ChangesOf(o)' <=> (i \in ChangesOf(o) \/ (o = x /\ i = Len(changes) + 1))
  <2>1. i \in ChangesOf(o)' <=> (i \in 1..(Len(changes) + 1) /\ changes'[i].obj = o)
    BY <1>4 DEF ChangesOf
  <2>2. i \in ChangesOf(o) <=> (i \in 1..Len(changes) /\ changes[i].obj = o)
    BY <1>0 DEF ChangesOf
  <2>3. i \in 1..(Len(changes) + 1) <=> i \in 1..Len(changes) \/ i = Len(changes) + 1
    BY <1>0
  <2>4. Len(changes) + 1 \notin 1..Len(changes)
    BY <1>0
  <2> QED
    BY <2>1, <2>2, <2>3, <2>4, <1>1, <1>3
<1>6. \A o, i : i \in ChangesOf(o) => i \in 1..Len(changes) /\ i <= Len(changes) /\ i \in Nat
  BY <1>0 DEF ChangesOf
<1>7. ASSUME NEW s \in Nat, s <= Len(changes), NEW o PROVE o \in Made(s)' <=> o \in Made(s)
  <2>1. o \in Made(s)' <=> (o \in Objects /\ \E i \in ChangesOf(o)' : changes'[i].what = "created" /\ i <= s)
    BY DEF Made, Objects
  <2>2. o \in Made(s) <=> (o \in Objects /\ \E i \in ChangesOf(o) : changes[i].what = "created" /\ i <= s)
    BY DEF Made
  <2>3. ~(Len(changes) + 1 <= s)
    BY <1>0, <1>7
  <2> QED
    BY <2>1, <2>2, <2>3, <1>3, <1>5, <1>6
<1>8. ASSUME NEW o
      PROVE o \in Made(Len(changes))' <=> o \in Made(Len(changes)) \/ (what = "created" /\ o = x)
  <2>1. o \in Made(Len(changes))' <=>
          (o \in Objects /\ \E i \in ChangesOf(o)' : changes'[i].what = "created" /\ i <= Len(changes'))
    BY DEF Made, Objects
  <2>2. o \in Made(Len(changes)) <=>
          (o \in Objects /\ \E i \in ChangesOf(o) : changes[i].what = "created" /\ i <= Len(changes))
    BY DEF Made
  <2>3. Len(changes) + 1 <= Len(changes') /\ \A i \in 1..Len(changes) : i <= Len(changes')
    BY <1>0, <1>3
  <2> QED
    BY <2>1, <2>2, <2>3, <1>1, <1>3, <1>5, <1>6
<1> QED
  BY <1>1, <1>3, <1>5, <1>7, <1>8

-------------------------------------------------------------------------------
(* A change of the server *)

\* An object that is there has a version: its last change.
LEMMA CurrentPositive ==
  ASSUME JmapTypeOK, LogSound, NEW o \in There
  PROVE  Current(o) \in Nat /\ Current(o) > 0 /\ Current(o) \in ChangesOf(o)
<1>0. Ranked
  BY DEF Ranked, JmapTypeOK, LogSound
<1>1. o \in Objects /\ o \in Made(Len(changes))
  BY <1>0, Ranks DEF LogSound
<1>2. ChangesOf(o) # {}
  BY <1>1, ChangeFacts
<1>3. Len(changes) \in Nat /\ \A i \in 1..Len(changes) : i \in 0..Len(changes) /\ i \in Nat /\ i > 0
  BY ChangeFacts
<1>4. ChangesOf(o) \in SUBSET (0..Len(changes))
  BY <1>3, ChangeFacts
<1>5. Max(ChangesOf(o)) \in ChangesOf(o)
  BY <1>2, <1>3, <1>4, GreatestOf
<1> QED
  BY <1>3, <1>5, ChangeFacts DEF Current

\* What a step of the server leaves as it was: what it destroys has a change to say so,
\* what it moves was listed last and no longer is, and what it lists last is new.
ServerKept ==
  /\ Len(changes) <= Len(changes')
  /\ \A s \in Nat : s <= Len(changes) => \A o : o \in Made(s)' <=> o \in Made(s)
  /\ \A o \in Made(Len(changes)) : o \in Made(Len(changes))'
  /\ \A o \in Made(Len(changes)) : o \in There' => o \in There
  /\ \A o \in There : o \in There' \/
       \E i \in ChangesOf(o)' : i > Len(changes) /\ changes'[i].what = "destroyed"
  /\ \A o : \A i \in ChangesOf(o) : i \in ChangesOf(o)' /\ changes'[i] = changes[i]
  /\ \A s \in Nat : s <= Len(changes) =>
       \A o \in Objects : (\A i \in ChangesOf(o)' : i <= s) =>
         /\ \A i \in ChangesOf(o) : i <= s
         /\ Current(o)' = Current(o)
  /\ order = "Fixed" =>
       \A a, b \in Made(Len(changes)) :
         Precedes(ranking, a, b) => Precedes(ranking', a, b) \/ (b \in late /\ b \notin late')
  /\ \A o \in Made(Len(changes)) : o \in late' => o \in late
  /\ \A o \in late' : o \in Made(Len(changes)) \/
       \A a \in Made(Len(changes)) : Precedes(ranking', a, o)

\* The same from what happened to one object.
LEMMA OneChange ==
  ASSUME JmapTypeOK, LogSound, NEW x \in Objects, NEW what \in Whats, Change(x, what),
         ranking' \in Seq(Objects), NoTwice(ranking'),
         \A o \in Objects : o # x => (o \in There' <=> o \in There),
         x \in There' <=> what # "destroyed",
         what = "created" => x \notin Made(Len(changes)),
         what = "created" => \E n \in 0..MaxObjects : Made(Len(changes)) = 1..(n - 1) /\ x = n /\ n > 0,
         what # "created" => x \in There,
         order = "Fixed" =>
           \A a, b \in Made(Len(changes)) : Precedes(ranking, a, b) => Precedes(ranking', a, b),
         late \subseteq There,
         \A o \in late' : o \in late \/ (o = x /\ what = "created" /\ \A a : a # x => Precedes(ranking', a, x))
  PROVE  ServerKept /\ LogSound' /\ changes' \in Seq(Entries)
<1> DEFINE n == Len(changes)
<1>0. n \in Nat
  BY ChangeFacts
<1>1. /\ changes' \in Seq(Entries) /\ Len(changes') = n + 1
      /\ \A o, i : i \in ChangesOf(o)' <=> (i \in ChangesOf(o) \/ (o = x /\ i = n + 1))
      /\ \A i \in 1..n : changes'[i] = changes[i]
      /\ changes'[n + 1].what = what
  BY NewChange
<1>2. \A s \in Nat : s <= n => \A o : o \in Made(s)' <=> o \in Made(s)
  BY NewChange
<1>3. \A o : o \in Made(n)' <=> o \in Made(n) \/ (what = "created" /\ o = x)
  BY NewChange
<1>4. \A o, i : i \in ChangesOf(o) => i \in 1..n /\ i \in Nat /\ i <= n
  BY <1>0, ChangeFacts
<1>5. /\ \E k \in 0..MaxObjects : Made(n) = 1..k
      /\ \A o \in Objects : \A i \in ChangesOf(o) : \E j \in ChangesOf(o) : j <= i /\ changes[j].what = "created"
      /\ \A o \in Objects : \A i, j \in ChangesOf(o) : changes[i].what = "destroyed" => j <= i
      /\ \A o \in Objects : o \in There <=>
            (o \in Made(n) /\ \A i \in ChangesOf(o) : changes[i].what # "destroyed")
  BY DEF LogSound
<1> HIDE DEF n
<1>6. \A o \in Made(n) : o \in There' => o \in There
  <2> SUFFICES ASSUME NEW o \in Made(n), o \in There' PROVE o \in There
    OBVIOUS
  <2>1. o \in Objects
    BY DEF Made
  <2> QED
    BY <2>1 DEF n
<1>7. ASSUME NEW s \in Nat, s <= n, NEW o \in Objects, \A i \in ChangesOf(o)' : i <= s
      PROVE  (\A i \in ChangesOf(o) : i <= s) /\ Current(o)' = Current(o)
  <2>1. o # x
    BY <1>0, <1>1, <1>7
  <2>2. ChangesOf(o)' = ChangesOf(o)
    <3>1. \A i : i \in ChangesOf(o)' <=> i \in ChangesOf(o)
      BY <1>1, <2>1
    <3> QED
      BY <3>1, Zenon
  <2>3. o \in There' <=> o \in There
    BY <2>1
  <2> QED
    BY <1>7, <2>2, <2>3 DEF Current
<1>a. ASSUME NEW o \in There, o \notin There'
      PROVE  \E i \in ChangesOf(o)' : i > n /\ changes'[i].what = "destroyed"
  <2>1. o \in Objects
    BY Ranks DEF Ranked, JmapTypeOK, LogSound
  <2>2. o = x /\ what = "destroyed"
    BY <2>1, <1>a
  <2>3. n + 1 \in ChangesOf(o)' /\ n + 1 > n
    BY <1>0, <1>1, <2>2
  <2> QED
    BY <1>1, <2>2, <2>3
<1>b. \A o : \A i \in ChangesOf(o) : i \in ChangesOf(o)' /\ changes'[i] = changes[i]
  BY <1>1, <1>4
<1>c. /\ \A o \in Made(n) : o \in late' => o \in late
      /\ \A o \in late' : o \in Made(n) \/ \A a \in Made(n) : Precedes(ranking', a, o)
  <2>1. what = "created" => x \notin Made(n)
    BY DEF n
  <2>2. \A o \in late : o \in Made(n)
    <3>1. \A o \in late : o \in Objects
      BY DEF JmapTypeOK
    <3> QED
      BY <3>1, <1>5
  <2> QED
    BY <2>1, <2>2
<1>d. order = "Fixed" =>
        \A a, b \in Made(n) :
          Precedes(ranking, a, b) => Precedes(ranking', a, b) \/ (b \in late /\ b \notin late')
  BY DEF n
<1>e. Len(changes) <= Len(changes')
  BY <1>0, <1>1 DEF n
<1>8. ServerKept
  BY <1>2, <1>3, <1>6, <1>7, <1>a, <1>b, <1>c, <1>d, <1>e DEF ServerKept, n
<1>9. \E k \in 0..MaxObjects : Made(n)' = 1..k
  <2>1. CASE what = "created"
    <3>1. PICK k \in 0..MaxObjects : Made(n) = 1..(k - 1) /\ x = k /\ k > 0
      BY <2>1 DEF n
    <3>2. k \in Nat
      OBVIOUS
    <3>3. \A o : o \in 1..k <=> o \in 1..(k - 1) \/ o = k
      BY <3>1, <3>2
    <3>4. \A o : o \in Made(n)' <=> o \in 1..k
      <4>1. \A o : o \in Made(n)' <=> o \in Made(n) \/ o = k
        BY <1>3, <2>1, <3>1
      <4> QED
        BY <3>1, <3>3, <4>1
    <3>5. Made(n)' = 1..k
      BY <3>4, Zenon
    <3> QED
      BY <3>5
  <2>2. CASE what # "created"
    <3>1. Made(n)' = Made(n)
      BY <1>3, <2>2
    <3> QED
      BY <3>1, <1>5
  <2> QED
    BY <2>1, <2>2
<1>10. ASSUME NEW o \in Objects, NEW i \in ChangesOf(o)'
       PROVE  \E j \in ChangesOf(o)' : j <= i /\ changes'[j].what = "created"
  <2>1. CASE i \in ChangesOf(o)
    <3>1. PICK j \in ChangesOf(o) : j <= i /\ changes[j].what = "created"
      BY <1>5, <2>1
    <3> QED
      BY <3>1, <1>1, <1>4
  <2>2. CASE o = x /\ i = n + 1 /\ what = "created"
    BY <1>0, <1>1, <2>2
  <2>3. CASE o = x /\ i = n + 1 /\ what # "created"
    <3>1. x \in Made(n)
      BY <1>5, <2>3
    <3>2. PICK j \in ChangesOf(x) : changes[j].what = "created"
      BY <3>1 DEF Made
    <3>3. j <= n + 1
      BY <1>0, <1>4
    <3> QED
      BY <3>2, <3>3, <1>1, <1>4, <2>3
  <2> QED
    BY <2>1, <2>2, <2>3, <1>1
<1>11. ASSUME NEW o \in Objects, NEW i \in ChangesOf(o)', NEW j \in ChangesOf(o)',
              changes'[i].what = "destroyed"
       PROVE  j <= i
  <2>1. CASE i = n + 1
    BY <2>1, <1>0, <1>1, <1>4
  <2>2. CASE i \in ChangesOf(o) /\ j \in ChangesOf(o)
    BY <2>2, <1>1, <1>4, <1>5, <1>11
  <2>3. CASE i \in ChangesOf(o) /\ o = x /\ j = n + 1
    <3>1. changes[i].what = "destroyed"
      BY <2>3, <1>1, <1>4, <1>11
    <3>2. x \notin There
      BY <3>1, <2>3, <1>5
    <3>3. what = "created"
      BY <3>2
    <3>4. x \in Made(n)
      BY <2>3, <1>4, <1>5 DEF Made
    <3> QED
      BY <3>3, <3>4 DEF n
  <2> QED
    BY <2>1, <2>2, <2>3, <1>1
<1>12. ASSUME NEW o \in Objects
       PROVE  o \in There' <=> /\ o \in Made(n)'
                               /\ \A i \in ChangesOf(o)' : changes'[i].what # "destroyed"
  <2>1. CASE o # x
    <3>1. o \in There' <=> o \in There
      BY <2>1
    <3>2. o \in Made(n)' <=> o \in Made(n)
      BY <1>3, <2>1
    <3>4. ChangesOf(o)' = ChangesOf(o)
      <4>1. \A i : i \in ChangesOf(o)' <=> i \in ChangesOf(o)
        BY <1>1, <2>1
      <4> QED
        BY <4>1, Zenon
    <3>3. \A i \in ChangesOf(o) : changes'[i] = changes[i]
      BY <1>1, <1>4
    <3> QED
      BY <3>1, <3>2, <3>3, <3>4, <1>5
  <2>2. CASE o = x /\ what = "destroyed"
    BY <2>2, <1>1
  <2>3. CASE o = x /\ what # "destroyed"
    <3>1. \A i \in ChangesOf(x) : changes[i].what # "destroyed"
      <4>1. CASE what = "created"
        <5>1. x \notin Made(n)
          BY <4>1 DEF n
        <5>2. ChangesOf(x) = {}
          BY <5>1, <1>4, <1>5 DEF Made
        <5> QED
          BY <5>2
      <4>2. CASE what # "created"
        BY <4>2, <1>5
      <4> QED
        BY <4>1, <4>2
    <3>2. x \in Made(n)'
      BY <1>3, <1>5
    <3> QED
      BY <2>3, <3>1, <3>2, <1>1, <1>4
  <2> QED
    BY <2>1, <2>2, <2>3
<1>13. LogSound'
  BY <1>9, <1>10, <1>11, <1>12 DEF LogSound, n, Objects
<1> QED
  BY <1>1, <1>8, <1>13

\* What becomes of a sequence from which x is taken.
Loses(r, q, x) ==
  /\ q \in Seq(Objects) /\ Len(q) = Len(r) - 1 /\ NoTwice(q)
  /\ \A o : (\E i \in DOMAIN q : q[i] = o) <=> (o # x /\ \E i \in DOMAIN r : r[i] = o)
  /\ \A a, b : Precedes(r, a, b) => Precedes(q, a, b)

\* Taking the p-th one out is that.
LEMMA Removing ==
  ASSUME NEW r, NEW p, r \in Seq(Objects), NoTwice(r), p \in 1..Len(r)
  PROVE  Loses(r, Removed(r, p), r[p])
<1> DEFINE q == Removed(r, p)
<1>1. /\ q \in Seq(Objects) /\ Len(q) = Len(r) - 1
      /\ \A i \in 1..(p - 1) : q[i] = r[i]
      /\ \A i \in p..(Len(r) - 1) : q[i] = r[i + 1]
  BY RemovedElements
<1> HIDE DEF q
<1>2. /\ NoTwice(q)
      /\ \A x : (\E i \in DOMAIN q : q[i] = x) <=> (x # r[p] /\ \E i \in DOMAIN r : r[i] = x)
      /\ \A a, b : Precedes(r, a, b) => Precedes(q, a, b)
  BY <1>1, RemovedFacts
<1> QED
  BY <1>1, <1>2 DEF q, Loses

\* Putting a new one in adds it and nothing else.
LEMMA Inserting ==
  ASSUME NEW r, NEW o, NEW at, r \in Seq(Objects), NoTwice(r), o \in Objects, at \in 0..Len(r),
         \A i \in DOMAIN r : r[i] # o
  PROVE  Inserted(r, o, at) \in Seq(Objects) /\ Gains(r, Inserted(r, o, at), o)
<1> DEFINE q == Inserted(r, o, at)
<1>1. Insertion(Objects, r, o, at, q)
  BY InsertedElements
<1> HIDE DEF q
<1>2. Gains(r, q, o)
  BY <1>1, InsertedFacts
<1>3. q \in Seq(Objects)
  BY <1>1 DEF Insertion
<1> QED
  BY <1>2, <1>3 DEF q

\* What is put in last comes after all the others.
LEMMA InsertedLast ==
  ASSUME NEW r, NEW o, r \in Seq(Objects), NoTwice(r), o \in Objects, \A i \in DOMAIN r : r[i] # o
  PROVE  \A a : a # o => Precedes(Inserted(r, o, Len(r)), a, o)
<1>0. Len(r) \in Nat /\ Len(r) \in 0..Len(r)
  OBVIOUS
<1>1. PICK at, q : at = Len(r) /\ q = Inserted(r, o, at)
  OBVIOUS
<1>2. Insertion(Objects, r, o, at, q)
  BY <1>0, <1>1, InsertedElements
<1>3. NoTwice(q)
  BY <1>0, <1>1, <1>2, InsertedFacts DEF Gains
<1>4. q \in Seq(Objects) /\ Len(q) = Len(r) + 1 /\ q[Len(r) + 1] = o
  BY <1>1, <1>2 DEF Insertion
<1>5. DOMAIN q = 1..(Len(r) + 1)
  BY <1>4
<1>6. ASSUME NEW a, a # o, NEW i \in DOMAIN q, NEW j \in DOMAIN q, q[i] = a, q[j] = o
      PROVE  i < j
  <2>1. j = Len(r) + 1
    BY <1>0, <1>3, <1>4, <1>5, <1>6 DEF NoTwice
  <2>2. i # Len(r) + 1
    BY <1>4, <1>6
  <2> QED
    BY <1>0, <1>5, <1>6, <2>1, <2>2
<1>7. \A a : a # o => Precedes(q, a, o)
  BY <1>6 DEF Precedes
<1> QED
  BY <1>1, <1>7

\* What becomes of a sequence in which x moves up.
Sorts(r, q, x) ==
  /\ q \in Seq(Objects) /\ NoTwice(q)
  /\ \A o : (\E i \in DOMAIN q : q[i] = o) <=> \E i \in DOMAIN r : r[i] = o
  /\ \A a, b : (Precedes(r, a, b) /\ b # x) => Precedes(q, a, b)

\* One that moves up leaves what preceded another one before it still.
LEMMA MovedUp ==
  ASSUME NEW r, NEW p, NEW at, r \in Seq(Objects), NoTwice(r), p \in 1..Len(r), at \in 0..(p - 1)
  PROVE  Sorts(r, Inserted(Removed(r, p), r[p], at), r[p])
<1>0. p \in Nat /\ Len(r) \in Nat /\ at \in Nat /\ at < p /\ p <= Len(r) /\ DOMAIN r = 1..Len(r)
      /\ p \in DOMAIN r
  OBVIOUS
<1>1. PICK x, rest, q : x = r[p] /\ rest = Removed(r, p) /\ q = Inserted(rest, x, at)
  OBVIOUS
<1>2. x \in Objects
  BY <1>1
<1>3. Loses(r, rest, x)
  BY <1>1, Removing
<1>4. /\ rest \in Seq(Objects) /\ Len(rest) = Len(r) - 1 /\ NoTwice(rest)
      /\ \A o : (\E i \in DOMAIN rest : rest[i] = o) <=> (o # x /\ \E i \in DOMAIN r : r[i] = o)
      /\ \A a, b : Precedes(r, a, b) => Precedes(rest, a, b)
  BY <1>3 DEF Loses
<1>5. \A i \in 1..(p - 1) : rest[i] = r[i]
  BY <1>1, RemovedElements
<1>6. at \in 0..Len(rest) /\ \A i \in DOMAIN rest : rest[i] # x
  <2>1. at \in 0..Len(rest)
    <3>1. PICK n \in Nat : n = Len(r)
      BY <1>0
    <3>2. at \in 0..(n - 1)
      BY <1>0, <3>1
    <3> QED
      BY <1>4, <3>1, <3>2
  <2>2. \A i \in DOMAIN rest : rest[i] # x
    BY <1>4
  <2> QED
    BY <2>1, <2>2
<1>7. q \in Seq(Objects) /\ Gains(rest, q, x)
  BY <1>1, <1>2, <1>4, <1>6, Inserting
<1>8. Insertion(Objects, rest, x, at, q)
  BY <1>1, <1>2, <1>4, <1>6, InsertedElements
<1>9. /\ NoTwice(q)
      /\ \A o : (\E i \in DOMAIN q : q[i] = o) <=> (o = x \/ \E i \in DOMAIN rest : rest[i] = o)
      /\ \A a, b : (Precedes(rest, a, b) /\ a # x /\ b # x) => Precedes(q, a, b)
  BY <1>7 DEF Gains
<1>10. \A o : (\E i \in DOMAIN q : q[i] = o) <=> \E i \in DOMAIN r : r[i] = o
  BY <1>0, <1>1, <1>4, <1>9
<1>11. ASSUME NEW b, b # x, Precedes(r, x, b) PROVE Precedes(q, x, b)
  <2> SUFFICES ASSUME NEW i \in DOMAIN q, NEW j \in DOMAIN q, q[i] = x, q[j] = b PROVE i < j
    BY DEF Precedes
  <2>1. Len(q) = Len(r) /\ q[at + 1] = x /\ \A k \in 1..at : q[k] = rest[k]
    BY <1>0, <1>4, <1>8 DEF Insertion
  <2>2. DOMAIN q = 1..Len(r)
    BY <1>7, <2>1
  <2>3. i = at + 1
    <3>1. at + 1 \in DOMAIN q
      BY <1>0, <2>2
    <3> QED
      BY <1>9, <2>1, <3>1 DEF NoTwice
  <2>4. ~(j <= at)
    <3> SUFFICES ASSUME j <= at PROVE FALSE
      OBVIOUS
    <3>1. j \in 1..at /\ j \in 1..(p - 1) /\ j \in DOMAIN r /\ j < p
      BY <1>0, <2>2
    <3>2. r[j] = b
      BY <1>5, <2>1, <3>1
    <3>3. p < j
      BY <1>0, <1>1, <1>11, <3>1, <3>2 DEF Precedes
    <3> QED
      BY <1>0, <3>1, <3>3
  <2>5. j # at + 1
    BY <1>11, <2>1
  <2> QED
    BY <1>0, <2>2, <2>3, <2>4, <2>5
<1>12. \A a, b : (Precedes(r, a, b) /\ b # x) => Precedes(q, a, b)
  BY <1>4, <1>9, <1>11
<1> QED
  BY <1>1, <1>7, <1>9, <1>10, <1>12 DEF Sorts

\* What is there is what the query lists.
LEMMA ThereIs ==
  ASSUME NEW o
  PROVE  /\ o \in There <=> \E i \in DOMAIN ranking : ranking[i] = o
         /\ o \in There' <=> \E i \in DOMAIN ranking' : ranking'[i] = o
BY DEF There

\* Creating, updating, moving and destroying keep the log sound and older states as they were.
LEMMA ServerChangesKeeps ==
  ASSUME JmapTypeOK, LogSound, late \subseteq There, ServerChanges
  PROVE  /\ ServerKept /\ LogSound' /\ changes' \in Seq(Entries) /\ ranking' \in Seq(Objects)
         /\ late' \subseteq There'
         /\ UNCHANGED <<order, counts, jmapCursor, held, slipped, pass, jmapFaults>>
<1>0. ranking \in Seq(Objects) /\ NoTwice(ranking) /\ Ranked
  BY DEF JmapTypeOK, LogSound, Ranked
<1>1. Len(ranking) \in Nat /\ DOMAIN ranking = 1..Len(ranking)
  BY <1>0, Ranks
<1>2. UNCHANGED <<order, counts, jmapCursor, held, slipped, pass, jmapFaults>>
  BY DEF ServerChanges
<1>3. CASE LET o == Cardinality(Made(Len(changes))) + 1
           IN  /\ o \in Objects /\ Change(o, "created")
               /\ \/ UNCHANGED late /\ \E at \in 0..Len(ranking) : ranking' = Placed(o, ranking, at)
                  \/ /\ order = "Fixed"
                     /\ late' = late \cup {o} /\ ranking' = Placed(o, ranking, Len(ranking))
  <2>1. PICK k \in 0..MaxObjects : Made(Len(changes)) = 1..k
    BY DEF LogSound
  <2>2. k \in Nat /\ Cardinality(1..k) = k
    BY FS_Interval
  <2> DEFINE x == k + 1
  <2>a. /\ x \in Objects /\ Change(x, "created")
        /\ \/ UNCHANGED late /\ \E at \in 0..Len(ranking) : ranking' = Placed(x, ranking, at)
           \/ late' = late \cup {x} /\ ranking' = Placed(x, ranking, Len(ranking))
    BY <1>3, <2>1, <2>2
  <2>3. PICK at \in 0..Len(ranking) :
          /\ x \in Objects /\ Change(x, "created") /\ ranking' = Placed(x, ranking, at)
          /\ late' = late \/ (late' = late \cup {x} /\ at = Len(ranking))
    <3>1. Len(ranking) \in 0..Len(ranking)
      BY <1>1
    <3> HIDE DEF x
    <3> QED
      BY <2>a, <3>1
  <2>4. x \in 0..MaxObjects /\ x > 0 /\ 1..k = 1..(x - 1) /\ x \notin 1..k
    BY <2>2, <2>3 DEF Objects
  <2> HIDE DEF x
  <2>5. x \notin There
    BY <2>1, <2>3, <2>4 DEF LogSound
  <2>6. ranking' = Inserted(ranking, x, at)
    BY <2>3 DEF Placed, Inserted
  <2>8. \A i \in DOMAIN ranking : ranking[i] # x
    BY <2>5 DEF There
  <2>9. /\ ranking' \in Seq(Objects) /\ NoTwice(ranking')
        /\ \A o : (\E i \in DOMAIN ranking' : ranking'[i] = o) <=> (o = x \/ \E i \in DOMAIN ranking : ranking[i] = o)
        /\ \A a, b : (Precedes(ranking, a, b) /\ a # x /\ b # x) => Precedes(ranking', a, b)
    <3>1. Inserted(ranking, x, at) \in Seq(Objects) /\ Gains(ranking, Inserted(ranking, x, at), x)
      BY <1>0, <2>3, <2>8, Inserting
    <3> QED
      BY <2>6, <3>1 DEF Gains
  <2>10. \A o : o \in There' <=> (o = x \/ o \in There)
    BY <2>9, ThereIs
  <2>11. \A a, b \in Made(Len(changes)) : Precedes(ranking, a, b) => Precedes(ranking', a, b)
    BY <2>1, <2>4, <2>9
  <2>12. \E n \in 0..MaxObjects : Made(Len(changes)) = 1..(n - 1) /\ x = n /\ n > 0
    BY <2>1, <2>4
  <2>13. x \notin Made(Len(changes))
    BY <2>1, <2>4
  <2>15. \A o \in late' : o \in late \/ (o = x /\ \A a : a # x => Precedes(ranking', a, x))
    <3>1. \A a : a # x => Precedes(Inserted(ranking, x, Len(ranking)), a, x)
      BY <1>0, <2>3, <2>8, InsertedLast
    <3> QED
      BY <2>3, <2>6, <3>1
  <2>16. late' \subseteq There'
    BY <2>10, <2>15
  <2>14. ServerKept /\ LogSound' /\ changes' \in Seq(Entries)
    <3>1. "created" \in Whats
      BY DEF Whats
    <3> QED
      BY <3>1, <2>3, <2>15, <2>9, <2>10, <2>11, <2>12, <2>13, OneChange
  <2> QED
    BY <2>9, <2>14, <2>16, <1>2
<1>4. CASE \E o \in There :
             /\ Change(o, "updated") /\ UNCHANGED late
             /\ \/ UNCHANGED ranking
                \/ /\ order = "Server"
                   /\ \E at \in 0..(Len(ranking) - 1) : ranking' = Placed(o, Without(o), at)
  <2>1. PICK x \in There :
             /\ Change(x, "updated") /\ UNCHANGED late
             /\ \/ UNCHANGED ranking
                \/ /\ order = "Server"
                   /\ \E at \in 0..(Len(ranking) - 1) : ranking' = Placed(x, Without(x), at)
    BY <1>4
  <2>2. x \in Objects /\ "updated" \in Whats
    BY <1>0, Ranks DEF Whats
  <2>3. CASE UNCHANGED ranking
    <3>1. \A o : o \in There' <=> o \in There
      BY <2>3, ThereIs
    <3>2. /\ ranking' \in Seq(Objects) /\ NoTwice(ranking')
          /\ \A a, b \in Made(Len(changes)) : Precedes(ranking, a, b) => Precedes(ranking', a, b)
      BY <1>0, <2>3
    <3> QED
      BY <2>1, <2>2, <3>1, <3>2, <1>2, OneChange
  <2>4. CASE order = "Server" /\ \E at \in 0..(Len(ranking) - 1) : ranking' = Placed(x, Without(x), at)
    <3>1. PICK at \in 0..(Len(ranking) - 1) : ranking' = Placed(x, Without(x), at)
      BY <2>4
    <3> DEFINE rest == Without(x)
    <3>2. Place(x) \in 1..Len(ranking) /\ ranking[Place(x)] = x
      BY <1>0, PlaceFacts
    <3>3. rest = Removed(ranking, Place(x))
      BY DEF Without, Removed
    <3> HIDE DEF rest
    <3>5. /\ rest \in Seq(Objects) /\ Len(rest) = Len(ranking) - 1 /\ NoTwice(rest)
          /\ \A o : (\E i \in DOMAIN rest : rest[i] = o) <=> (o # x /\ \E i \in DOMAIN ranking : ranking[i] = o)
      <4>1. Loses(ranking, Removed(ranking, Place(x)), ranking[Place(x)])
        BY <1>0, <3>2, Removing
      <4>2. Loses(ranking, rest, x)
        BY <4>1, <3>2, <3>3
      <4> QED
        BY <4>2 DEF Loses
    <3>6. ranking' = Inserted(rest, x, at)
      BY <3>1 DEF Placed, Inserted, rest
    <3>7. at \in 0..Len(rest)
      BY <3>5
    <3>9. \A i \in DOMAIN rest : rest[i] # x
      BY <3>5
    <3>10. /\ ranking' \in Seq(Objects) /\ NoTwice(ranking')
           /\ \A o : (\E i \in DOMAIN ranking' : ranking'[i] = o) <=> (o = x \/ \E i \in DOMAIN rest : rest[i] = o)
      <4>1. Inserted(rest, x, at) \in Seq(Objects) /\ Gains(rest, Inserted(rest, x, at), x)
        BY <2>2, <3>5, <3>7, <3>9, Inserting
      <4> QED
        BY <3>6, <4>1 DEF Gains
    <3>11. \A o : o \in There' <=> o \in There
      BY <3>5, <3>10, ThereIs
    <3>12. order # "Fixed"
      BY <2>4
    <3> QED
      BY <2>1, <2>2, <3>10, <3>11, <3>12, <1>2, OneChange
  <2> QED
    BY <2>1, <2>3, <2>4
<1>5. CASE \E o \in There :
             Change(o, "destroyed") /\ ranking' = Without(o) /\ late' = late \ {o}
  <2>1. PICK x \in There : Change(x, "destroyed") /\ ranking' = Without(x) /\ late' = late \ {x}
    BY <1>5
  <2>2. x \in Objects /\ "destroyed" \in Whats
    BY <1>0, Ranks DEF Whats
  <2>3. Place(x) \in 1..Len(ranking) /\ ranking[Place(x)] = x
    BY <1>0, PlaceFacts
  <2>4. ranking' = Removed(ranking, Place(x))
    BY <2>1 DEF Without, Removed
  <2>6. /\ ranking' \in Seq(Objects) /\ NoTwice(ranking')
        /\ \A o : (\E i \in DOMAIN ranking' : ranking'[i] = o) <=> (o # x /\ \E i \in DOMAIN ranking : ranking[i] = o)
        /\ \A a, b : Precedes(ranking, a, b) => Precedes(ranking', a, b)
    <3>1. Loses(ranking, Removed(ranking, Place(x)), ranking[Place(x)])
      BY <1>0, <2>3, Removing
    <3>2. Loses(ranking, ranking', x)
      BY <2>3, <2>4, <3>1
    <3> QED
      BY <3>2 DEF Loses
  <2>7. \A o : o \in There' <=> (o # x /\ o \in There)
    BY <2>6, ThereIs
  <2> QED
    BY <2>1, <2>2, <2>6, <2>7, <1>2, OneChange
<1> QED
  BY <1>3, <1>4, <1>5 DEF ServerChanges

\* Sorting a message into place moves it up, and changes nothing else.
LEMMA ServerSortsKeeps ==
  ASSUME JmapTypeOK, LogSound, late \subseteq There, ServerSorts
  PROVE  /\ ServerKept /\ LogSound' /\ changes' \in Seq(Entries) /\ ranking' \in Seq(Objects)
         /\ late' \subseteq There'
         /\ UNCHANGED <<order, counts, jmapCursor, held, slipped, pass, jmapFaults>>
<1>0. ranking \in Seq(Objects) /\ NoTwice(ranking) /\ Ranked /\ changes \in Seq(Entries)
  BY DEF JmapTypeOK, LogSound, Ranked
<1>1. UNCHANGED <<order, changes, counts, jmapCursor, held, slipped, pass, jmapFaults>>
  BY DEF ServerSorts
<1>a. PICK x \in late : \E at \in 0..(Place(x) - 1) :
        ranking' = Placed(x, Without(x), at) /\ late' = late \ {x}
  BY DEF ServerSorts
<1>2. PICK at \in 0..(Place(x) - 1) :
        ranking' = Placed(x, Without(x), at) /\ late' = late \ {x}
  BY <1>a
<1>3. Place(x) \in 1..Len(ranking) /\ ranking[Place(x)] = x
  BY <1>0, PlaceFacts
<1>4. ranking' = Inserted(Removed(ranking, Place(x)), ranking[Place(x)], at)
  BY <1>2, <1>3 DEF Placed, Without, Inserted, Removed
<1>5. /\ ranking' \in Seq(Objects) /\ NoTwice(ranking')
      /\ \A o : (\E i \in DOMAIN ranking' : ranking'[i] = o) <=> \E i \in DOMAIN ranking : ranking[i] = o
      /\ \A a, b : (Precedes(ranking, a, b) /\ b # x) => Precedes(ranking', a, b)
  <2>1. PICK r, p, q : r = ranking /\ p = Place(x) /\ q = ranking'
    OBVIOUS
  <2>2. q = Inserted(Removed(r, p), r[p], at) /\ r[p] = x /\ p \in 1..Len(r) /\ at \in 0..(p - 1)
        /\ r \in Seq(Objects) /\ NoTwice(r)
    BY <1>0, <1>2, <1>3, <1>4, <2>1
  <2>3. Sorts(r, Inserted(Removed(r, p), r[p], at), r[p])
    BY <2>2, MovedUp
  <2>4. Sorts(r, q, x)
    BY <2>2, <2>3
  <2> QED
    BY <2>1, <2>4 DEF Sorts
<1>6. \A o : o \in There' <=> o \in There
  BY <1>5, ThereIs
<1>7. \A o : ChangesOf(o)' = ChangesOf(o)
  BY <1>1 DEF ChangesOf
<1>8. \A o : Current(o)' = Current(o)
  BY <1>6, <1>7 DEF Current
<1>9. \A s : Made(s)' = Made(s)
  BY <1>1, <1>7 DEF Made, Objects
<1>10. Made(Len(changes))' = Made(Len(changes))
  BY <1>1, <1>7 DEF Made, Objects
<1>11. Len(changes) \in Nat
  BY ChangeFacts
<1>12. \A o \in late' : o \in Made(Len(changes)) /\ o \in late /\ o \in There'
  <2>1. \A o \in late : o \in Objects /\ o \in There
    BY DEF JmapTypeOK
  <2> QED
    BY <1>2, <1>6, <2>1 DEF LogSound
<1>13. ServerKept
  BY <1>1, <1>2, <1>5, <1>6, <1>7, <1>8, <1>9, <1>10, <1>11, <1>12 DEF ServerKept
<1>14. LogSound'
  BY <1>1, <1>5, <1>6, <1>7, <1>10 DEF LogSound, Objects
<1> QED
  BY <1>0, <1>1, <1>5, <1>12, <1>13, <1>14

\* A step of the server leaves the invariant, while the pass waits for an answer.
LEMMA ServerHolds ==
  ASSUME JmapInv, ServerKept, LogSound', changes' \in Seq(Entries), ranking' \in Seq(Objects),
         late' \subseteq There',
         UNCHANGED <<order, counts, jmapCursor, held, slipped, pass, jmapFaults>>
  PROVE  JmapInv'
<1>1. /\ JmapTypeOK /\ LogSound /\ late \subseteq There /\ StatesPast /\ CursorHolds /\ DeltaHolds
      /\ (order = "Fixed" /\ pass.stage \notin {"settle", "get"}) => pass.got = Unsaid
      /\ pass.stage # "page" => pass.asked = {}
      /\ pass.stage \in {"walk", "page", "settle", "get"} => WalkHolds
      /\ pass.stage = "page" => PageHolds
      /\ pass.stage \in {"walk", "page", "settle"} => ListingHolds
      /\ SettleHolds
  BY DEF JmapInv
<1>2. UNCHANGED <<order, counts, jmapCursor, held, slipped, pass, jmapFaults>>
  OBVIOUS
<1>3. JmapTypeOK'
  <2>1. Ranked'
    BY DEF Ranked, LogSound
  <2>2. \A o \in late' : o \in Objects
    <3>1. \A i \in DOMAIN ranking' : ranking'[i] \in Objects
      OBVIOUS
    <3> QED
      BY <3>1, ThereIs
  <2> QED
    BY <1>1, <1>2, <2>2 DEF JmapTypeOK, Passes, Walks, Versions, Objects, Entries, Whats
<1>4. /\ jmapCursor \in Nat /\ pass.since \in Nat /\ pass.cursor \in Nat /\ pass.queried \in Nat
      /\ Len(changes) \in Nat /\ Len(changes') \in Nat
  BY <1>1, ChangeFacts DEF JmapTypeOK, Passes
<1>5. StatesPast'
  BY <1>1, <1>2, <1>4 DEF StatesPast, ServerKept
<1>6. ASSUME NEW v, NEW s \in Nat, NEW gone, s <= Len(changes), Vouches(v, s, gone)
      PROVE  \A o \in Objects \ gone :
               /\ (\A i \in ChangesOf(o)' : i <= s) => v[o] = Current(o)'
               /\ o \in Made(s)' /\ o \in There' => v[o] > 0
  <2>1. ASSUME NEW o \in Objects \ gone, \A i \in ChangesOf(o)' : i <= s PROVE v[o] = Current(o)'
    BY <1>6, <2>1 DEF ServerKept, Vouches
  <2>2. ASSUME NEW o \in Objects \ gone, o \in Made(s)', o \in There' PROVE v[o] > 0
    <3>1. o \in Made(s)
      BY <1>6, <2>2 DEF ServerKept
    <3>2. o \in Made(Len(changes))
      BY <3>1, <1>1, <1>4, <1>6, ChangeFacts
    <3>3. o \in There
      BY <2>2, <3>2 DEF ServerKept
    <3> QED
      BY <1>6, <3>1, <3>3 DEF Vouches
  <2> QED
    BY <2>1, <2>2
<1>7. CursorHolds'
  <2> SUFFICES ASSUME jmapCursor > 0 PROVE Vouches(held, jmapCursor, slipped)'
    BY <1>2 DEF CursorHolds
  <2>1. Vouches(held, jmapCursor, slipped) /\ jmapCursor <= Len(changes)
    BY <1>1 DEF CursorHolds, StatesPast
  <2>2. PICK s \in Nat : s = jmapCursor
    BY <1>4
  <2>3. PICK v, gone : v = held /\ gone = slipped
    OBVIOUS
  <2>4. Vouches(v, s, gone) /\ s <= Len(changes)
    BY <2>1, <2>2, <2>3
  <2>5. \A o \in Objects \ gone :
          /\ (\A i \in ChangesOf(o)' : i <= s) => v[o] = Current(o)'
          /\ o \in Made(s)' /\ o \in There' => v[o] > 0
    BY <1>6, <2>4
  <2>6. s = jmapCursor' /\ v = held' /\ gone = slipped'
    BY <2>2, <2>3, <1>2
  <2> QED
    BY <2>5, <2>6 DEF Vouches, Objects
<1>8. Passing' = Passing
  BY <1>2 DEF Passing, Over, Objects
<1>9. DeltaHolds'
  <2> SUFFICES ASSUME pass.stage = "delta"
               PROVE  (0 < jmapCursor /\ jmapCursor <= pass.since)' /\ Vouches(Passing, pass.since, slipped)'
    BY <1>2 DEF DeltaHolds
  <2>1. Vouches(Passing, pass.since, slipped) /\ pass.since <= Len(changes)
    BY <1>1 DEF DeltaHolds, StatesPast
  <2>2. PICK s \in Nat : s = pass.since
    BY <1>4
  <2>3. PICK v, gone : v = Passing /\ gone = slipped
    OBVIOUS
  <2>4. Vouches(v, s, gone) /\ s <= Len(changes)
    BY <2>1, <2>2, <2>3
  <2>5. \A o \in Objects \ gone :
          /\ (\A i \in ChangesOf(o)' : i <= s) => v[o] = Current(o)'
          /\ o \in Made(s)' /\ o \in There' => v[o] > 0
    BY <1>6, <2>4
  <2>6. s = pass.since' /\ v = Passing' /\ gone = slipped'
    BY <2>2, <2>3, <1>2, <1>8
  <2>7. Vouches(Passing, pass.since, slipped)'
    BY <2>5, <2>6 DEF Vouches, Objects
  <2> QED
    BY <2>7, <1>1, <1>2 DEF DeltaHolds
<1>10. PICK c \in Nat : c = pass.cursor /\ c <= Len(changes)
  BY <1>1, <1>4 DEF StatesPast
<1>11. ASSUME NEW s \in Nat, s <= Len(changes), NEW o
       PROVE  /\ o \in Made(s) => o \in Made(Len(changes))
              /\ o \in Made(s)' <=> o \in Made(s)
              /\ (o \in Made(s) /\ o \in There') => o \in There
  <2>1. o \in Made(s) => o \in Made(Len(changes))
    BY <1>1, <1>4, <1>11, ChangeFacts
  <2> QED
    BY <1>11, <2>1 DEF ServerKept
<1>14. c = pass.cursor' /\ pass' = pass /\ order' = order
  BY <1>2, <1>10
<1>n. NoneLate => NoneLate'
  <2> SUFFICES ASSUME NoneLate, order = "Fixed", pass.walk.pages # 1,
                      NEW o \in (Made(c)' \cap There') \ pass.walk.seen
               PROVE  o \notin late'
    BY <1>14 DEF NoneLate
  <2>1. o \in (Made(c) \cap There) \ pass.walk.seen /\ o \in Made(Len(changes))
    BY <1>10, <1>11
  <2>2. o \notin late
    BY <1>10, <2>1 DEF NoneLate
  <2> QED
    BY <2>1, <2>2 DEF ServerKept
<1>15. ASSUME WalkHolds PROVE WalkHolds'
  <2>0. \A o \in pass.walk.seen : o \in Objects /\ o \in Made(Len(changes))
    BY <1>1, <1>15 DEF JmapTypeOK, Passes, Walks, WalkHolds
  <2>2. ASSUME NEW o \in pass.walk.seen \ pass.asked
        PROVE  /\ o \in There' => Passing'[o] > 0
               /\ (o \notin pass.slipped /\ \A i \in ChangesOf(o)' : i <= c) => Passing'[o] = Current(o)'
    <3>1. o \in There' => o \in There
      BY <2>0 DEF ServerKept
    <3>2. (\A i \in ChangesOf(o)' : i <= c) => (\A i \in ChangesOf(o) : i <= c) /\ Current(o)' = Current(o)
      BY <2>0, <1>10 DEF ServerKept
    <3> QED
      BY <3>1, <3>2, <1>8, <1>10, <1>15 DEF WalkHolds
  <2>3. \A o \in pass.walk.seen : o \in Made(Len(changes))'
    BY <2>0 DEF ServerKept
  <2>4. ASSUME order = "Fixed", NEW o \in late' \ pass.walk.seen, NEW k \in DOMAIN pass.walk.trail
        PROVE  Precedes(ranking', pass.walk.trail[k], o)
    <3>1. pass.walk.trail[k] \in Made(Len(changes))
      BY <1>15, <2>0 DEF WalkHolds
    <3>2. CASE o \in Made(Len(changes))
      <4>1. o \in late
        BY <3>2, <2>4 DEF ServerKept
      <4>2. Precedes(ranking, pass.walk.trail[k], o)
        BY <1>15, <2>4, <4>1 DEF WalkHolds
      <4> QED
        BY <2>4, <3>1, <3>2, <4>2 DEF ServerKept
    <3>3. CASE o \notin Made(Len(changes))
      BY <2>4, <3>1, <3>3 DEF ServerKept
    <3> QED
      BY <3>2, <3>3
  <2>5. /\ pass.walk.pages = 0 => pass.walk.trail = <<>> /\ pass.walk.seen = {}
        /\ \A k \in DOMAIN pass.walk.trail : pass.walk.trail[k] \in pass.walk.seen
    BY <1>15 DEF WalkHolds
  <2> QED
    BY <2>2, <2>3, <2>4, <2>5, <1>14 DEF WalkHolds, Precedes
<1>16. ASSUME PageHolds PROVE PageHolds'
  <2>1. PICK q \in Nat : q = pass.queried /\ q <= Len(changes)
    BY <1>4, <1>16 DEF PageHolds
  <2>2. q <= Len(changes')
    BY <1>4, <2>1 DEF ServerKept
  <2>3. ASSUME NEW o \in pass.asked
        PROVE  o \in There' \/ \E i \in ChangesOf(o)' : i > q /\ changes'[i].what = "destroyed"
    <3>1. CASE o \in There
      <4>1. o \in There' \/ \E i \in ChangesOf(o)' : i > Len(changes) /\ changes'[i].what = "destroyed"
        BY <3>1 DEF ServerKept
      <4>2. \A i \in ChangesOf(o)' : i \in Nat
        BY <1>3 DEF JmapTypeOK, ChangesOf
      <4> QED
        BY <1>4, <2>1, <4>1, <4>2
    <3>2. CASE \E i \in ChangesOf(o) : i > q /\ changes[i].what = "destroyed"
      BY <3>2 DEF ServerKept
    <3> QED
      BY <1>16, <2>1, <3>1, <3>2 DEF PageHolds
  <2>4. ASSUME pass.walk.done, pass.walk.pages = 1, NEW o \in Made(q)' \cap There'
        PROVE  o \in pass.walk.seen
    <3>1. o \in Made(q) \cap There
      BY <1>11, <2>1
    <3> QED
      BY <1>16, <2>1, <2>4, <3>1 DEF PageHolds
  <2>5. /\ pass.walk.pages > 0 /\ pass.asked \subseteq pass.walk.seen
        /\ pass.walk.pages = 1 => pass.asked = pass.walk.seen
        /\ pass.walk.pages # 1 => pass.cursor <= pass.queried
        /\ pass.walk.done => NoneLate
    BY <1>16 DEF PageHolds
  <2>6. q = pass'.queried
    BY <1>14, <2>1
  <2> QED
    BY <1>14, <1>n, <2>2, <2>3, <2>4, <2>5, <2>6 DEF PageHolds
<1>17. ASSUME ListingHolds, pass.stage \in {"walk", "page"} \/ NoneLate PROVE ListingHolds'
  <2>1. /\ pass.stage \in {"walk", "page"} => pass.listing = NewWalk
        /\ pass.listing.pages = 0 => pass.listing.trail = <<>>
        /\ \A k \in DOMAIN pass.listing.trail : pass.listing.trail[k] \in pass.listing.seen
        /\ \A o \in pass.listing.seen : o \in Made(Len(changes))
        /\ pass.listing.steady =>
             /\ Len(pass.listing.trail) <= Len(pass.listing.queryState)
             /\ \A k \in DOMAIN pass.listing.trail :
                  pass.listing.trail[k] = pass.listing.queryState[k]
    BY <1>17 DEF ListingHolds
  <2>2. \A o \in pass.listing.seen : o \in Made(Len(changes))'
    BY <2>1 DEF ServerKept
  <2>3. ASSUME order = "Fixed", pass.walk.pages # 1,
               NEW o \in (Made(c)' \cap There') \ (pass.walk.seen \cup pass.listing.seen),
               NEW k \in DOMAIN pass.listing.trail
        PROVE  Precedes(ranking', pass.listing.trail[k], o)
    <3>1. o \in (Made(c) \cap There) \ (pass.walk.seen \cup pass.listing.seen) /\ o \in Made(Len(changes))
      BY <1>10, <1>11
    <3>2. pass.stage \notin {"walk", "page"}
      <4> SUFFICES ASSUME pass.stage \in {"walk", "page"} PROVE FALSE
        OBVIOUS
      <4>1. pass.listing.trail = <<>>
        BY <2>1 DEF NewWalk
      <4> QED
        BY <4>1
    <3>3. o \notin late
      BY <1>10, <1>17, <2>3, <3>1, <3>2 DEF NoneLate
    <3>4. Precedes(ranking, pass.listing.trail[k], o)
      BY <1>10, <1>17, <2>3, <3>1 DEF ListingHolds
    <3>5. pass.listing.trail[k] \in Made(Len(changes))
      BY <2>1
    <3> QED
      BY <2>3, <3>1, <3>3, <3>4, <3>5 DEF ServerKept
  <2> QED
    BY <1>14, <2>1, <2>2, <2>3 DEF ListingHolds, Precedes, NewWalk
<1>18. SettleHolds'
  <2>1. \A o : (o \in Made(c)' /\ o \in There') => (o \in Made(c) /\ o \in There)
    BY <1>10, <1>11
  <2> QED
    BY <1>1, <1>10, <1>14, <1>n, <2>1 DEF SettleHolds
<1>19. pass.stage \in {"walk", "page", "settle"} => ListingHolds'
  <2>1. pass.stage = "settle" => NoneLate
    BY <1>1 DEF SettleHolds
  <2> QED
    BY <1>1, <1>17, <2>1
<1> QED
  BY <1>1, <1>2, <1>3, <1>5, <1>7, <1>9, <1>15, <1>16, <1>18, <1>19 DEF JmapInv, Unsaid, Objects

\* Objects come, change and go, and mail is sorted into place.
LEMMA ServerStepHolds ==
  ASSUME JmapInv, ServerChanges \/ ServerSorts
  PROVE  JmapInv'
<1>1. JmapTypeOK /\ LogSound /\ late \subseteq There
  BY DEF JmapInv
<1>2. /\ ServerKept /\ LogSound' /\ changes' \in Seq(Entries) /\ ranking' \in Seq(Objects)
      /\ late' \subseteq There'
      /\ UNCHANGED <<order, counts, jmapCursor, held, slipped, pass, jmapFaults>>
  BY <1>1, ServerChangesKeeps, ServerSortsKeeps
<1> QED
  BY <1>2, ServerHolds

-------------------------------------------------------------------------------
(* The parts of a pass *)

\* The parts of the invariant, and the types of the fields it speaks of.
LEMMA InvParts ==
  ASSUME JmapInv
  PROVE  /\ JmapTypeOK /\ LogSound /\ StatesPast /\ CursorHolds /\ DeltaHolds /\ Ranked
         /\ late \subseteq There /\ late \in SUBSET Objects /\ slipped \in SUBSET Objects
         /\ (order = "Fixed" /\ pass.stage \notin {"settle", "get"}) => pass.got = Unsaid
         /\ pass.stage # "page" => pass.asked = {}
         /\ pass.stage \in {"walk", "page", "settle", "get"} => WalkHolds
         /\ pass.stage = "page" => PageHolds
         /\ pass.stage \in {"walk", "page", "settle"} => ListingHolds
         /\ SettleHolds
         /\ jmapCursor \in Nat /\ pass.since \in Nat /\ pass.cursor \in Nat /\ Len(changes) \in Nat
         /\ jmapCursor <= Len(changes) /\ pass.since <= Len(changes) /\ pass.cursor <= Len(changes)
         /\ order \in {"Fixed", "Server"} /\ counts \in BOOLEAN /\ jmapFaults \in Nat
         /\ held \in [Objects -> Nat] /\ pass \in Passes
<1>1. /\ JmapTypeOK /\ LogSound /\ late \subseteq There /\ StatesPast /\ CursorHolds /\ DeltaHolds
      /\ (order = "Fixed" /\ pass.stage \notin {"settle", "get"}) => pass.got = Unsaid
      /\ pass.stage # "page" => pass.asked = {}
      /\ pass.stage \in {"walk", "page", "settle", "get"} => WalkHolds
      /\ pass.stage = "page" => PageHolds
      /\ pass.stage \in {"walk", "page", "settle"} => ListingHolds
      /\ SettleHolds
  BY DEF JmapInv
<1>2. Len(changes) \in Nat
  BY <1>1, ChangeFacts
<1> QED
  BY <1>1, <1>2 DEF JmapTypeOK, LogSound, StatesPast, Passes, Ranked

\* The fields of a pass.
LEMMA PassFields ==
  ASSUME NEW p \in Passes
  PROVE  /\ p.stage \in JmapStages /\ p.since \in Nat /\ p.first \in BOOLEAN /\ p.cursor \in Nat
         /\ p.got \in Versions /\ p.walk \in Walks /\ p.listing \in Walks /\ p.tries \in Nat
         /\ p.asked \subseteq Objects /\ p.queried \in Nat /\ p.slipped \subseteq Objects
BY DEF Passes

\* A new walk is a walk.
LEMMA NewWalkType == NewWalk \in Walks
BY DEF NewWalk, Walks

\* No pass is a pass that has read nothing.
LEMMA IdleFacts ==
  /\ JmapIdle \in Passes /\ JmapIdle.stage = "idle" /\ JmapIdle.since = 0 /\ JmapIdle.cursor = 0
  /\ JmapIdle.got = Unsaid /\ JmapIdle.walk = NewWalk /\ JmapIdle.listing = NewWalk
  /\ JmapIdle.asked = {} /\ JmapIdle.queried = 0 /\ JmapIdle.slipped = {}
  /\ Unsaid \in Versions
<1>1. Unsaid \in Versions
  BY DEF Unsaid, Versions
<1> QED
  BY <1>1, NewWalkType DEF JmapIdle, Passes, JmapStages

\* News over what is known: its values and its types.
LEMMA OverFacts ==
  ASSUME NEW new, NEW old
  PROVE  /\ \A o \in Objects : Over(new, old)[o] = IF new[o] = -1 THEN old[o] ELSE new[o]
         /\ (new \in Versions /\ old \in [Objects -> Nat]) => Over(new, old) \in [Objects -> Nat]
         /\ (new \in Versions /\ old \in Versions) => Over(new, old) \in Versions
<1>1. \A o \in Objects : Over(new, old)[o] = IF new[o] = -1 THEN old[o] ELSE new[o]
  BY DEF Over
<1>2. ASSUME new \in Versions, old \in [Objects -> Nat] PROVE Over(new, old) \in [Objects -> Nat]
  <2>1. \A o \in Objects : new[o] \in Nat \cup {-1} /\ old[o] \in Nat
    BY <1>2 DEF Versions
  <2>2. \A o \in Objects : (IF new[o] = -1 THEN old[o] ELSE new[o]) \in Nat
    BY <2>1
  <2> QED
    BY <2>2 DEF Over
<1>3. ASSUME new \in Versions, old \in Versions PROVE Over(new, old) \in Versions
  <2>1. \A o \in Objects : new[o] \in Nat \cup {-1} /\ old[o] \in Nat \cup {-1}
    BY <1>3 DEF Versions
  <2>2. \A o \in Objects : (IF new[o] = -1 THEN old[o] ELSE new[o]) \in Nat \cup {-1}
    BY <2>1
  <2> QED
    BY <2>2 DEF Over, Versions
<1> QED
  BY <1>1, <1>2, <1>3

\* What would be stored, object by object; a delta of mail keeps nothing back.
LEMMA PassingFacts ==
  ASSUME JmapInv
  PROVE  /\ Passing \in [Objects -> Nat]
         /\ \A o \in Objects : Passing[o] = IF pass.got[o] = -1 THEN held[o] ELSE pass.got[o]
         /\ (order = "Fixed" /\ pass.stage = "delta") => \A o \in Objects : Passing[o] = held[o]
<1>1. /\ pass.got \in Versions /\ held \in [Objects -> Nat]
      /\ (order = "Fixed" /\ pass.stage = "delta") => pass.got = Unsaid
  BY InvParts, PassFields
<1>2. \A o \in Objects : Unsaid[o] = -1
  BY DEF Unsaid
<1> QED
  BY <1>1, <1>2, OverFacts DEF Passing

\* What holds of the server holds of it still when it has not changed.
LEMMA ServerSame ==
  ASSUME UNCHANGED <<ranking, changes>>
  PROVE  /\ There' = There /\ \A o : ChangesOf(o)' = ChangesOf(o) /\ Current(o)' = Current(o)
         /\ \A s : Made(s)' = Made(s)
         /\ LogSound => LogSound'
         /\ \A v, s, g : Vouches(v, s, g) => Vouches(v, s, g)'
<1>1. There' = There
  BY DEF There
<1>2. \A o : ChangesOf(o)' = ChangesOf(o)
  BY DEF ChangesOf
<1>3. \A o : Current(o)' = Current(o)
  BY <1>1, <1>2 DEF Current
<1>4. \A s : Made(s)' = Made(s)
  BY <1>2 DEF Made, Objects
<1>5. LogSound => LogSound'
  <2>1. Made(Len(changes))' = Made(Len(changes))
    BY <1>2 DEF Made, Objects
  <2> QED
    BY <1>1, <1>2, <2>1 DEF LogSound, NoTwice, Objects
<1>6. ASSUME NEW v, NEW s, NEW g, Vouches(v, s, g) PROVE Vouches(v, s, g)'
  BY <1>1, <1>2, <1>3, <1>4, <1>6 DEF Vouches, Objects
<1> QED
  BY <1>1, <1>2, <1>3, <1>4, <1>5, <1>6

\* The pass is over, or has not begun: only the stored cursor is left to answer for.
LEMMA IdleHolds ==
  ASSUME JmapInv, pass' = JmapIdle, UNCHANGED <<order, ranking, late, changes, counts>>,
         jmapFaults' \in Nat, held' \in [Objects -> Nat], slipped' \in SUBSET Objects,
         jmapCursor' \in Nat, jmapCursor' <= Len(changes),
         jmapCursor' > 0 => Vouches(held', jmapCursor', slipped')
  PROVE  JmapInv'
<1>1. JmapTypeOK'
  BY InvParts, IdleFacts DEF JmapTypeOK
<1>2. LogSound'
  BY InvParts, ServerSame
<1>3. StatesPast'
  BY InvParts, IdleFacts DEF StatesPast
<1>4. CursorHolds'
  <2> SUFFICES ASSUME jmapCursor' > 0 PROVE Vouches(held, jmapCursor, slipped)'
    BY DEF CursorHolds
  <2>1. PICK v, s, g : v = held' /\ s = jmapCursor' /\ g = slipped'
    OBVIOUS
  <2>2. Vouches(v, s, g)'
    BY <2>1, ServerSame
  <2> QED
    BY <2>1, <2>2 DEF Vouches, Objects
<1>5. pass'.stage = "idle"
  BY IdleFacts
<1>6. DeltaHolds' /\ SettleHolds'
  BY <1>5 DEF DeltaHolds, SettleHolds
<1>7. pass'.got = Unsaid' /\ pass'.asked = {}
  BY IdleFacts DEF Unsaid, Objects
<1>8. late' \subseteq There'
  BY InvParts, ServerSame
<1> QED
  BY <1>1, <1>2, <1>3, <1>4, <1>5, <1>6, <1>7, <1>8 DEF JmapInv

\* What is said of objects is what they are now.
Truthful(said) == \A o \in Objects : said[o] # -1 => said[o] = Current(o)

\* Truthful news over what vouches for a state vouches for it still.
LEMMA TruthKept ==
  ASSUME JmapInv, NEW said \in Versions, Truthful(said), NEW v, NEW s, NEW g, Vouches(v, s, g)
  PROVE  Vouches(Over(said, v), s, g)
<1>0. JmapTypeOK /\ LogSound
  BY InvParts
<1> SUFFICES ASSUME NEW o \in Objects \ g
             PROVE  /\ (\A i \in ChangesOf(o) : i <= s) => Over(said, v)[o] = Current(o)
                    /\ o \in Made(s) \cap There => Over(said, v)[o] > 0
  BY DEF Vouches
<1>1. Over(said, v)[o] = IF said[o] = -1 THEN v[o] ELSE said[o]
  BY OverFacts
<1>2. CASE said[o] = -1
  BY <1>1, <1>2 DEF Vouches
<1>3. CASE said[o] # -1
  <2>1. Over(said, v)[o] = Current(o)
    BY <1>1, <1>3 DEF Truthful
  <2>2. o \in There => Current(o) > 0
    BY <1>0, CurrentPositive
  <2> QED
    BY <2>1, <2>2
<1> QED
  BY <1>2, <1>3

\* What is fetched is truthful.
LEMMA FetchTruthful ==
  ASSUME JmapInv, NEW S
  PROVE  /\ Fetch(S) \in Versions /\ Truthful(Fetch(S))
         /\ \A o \in Objects : Fetch(S)[o] = IF o \in S /\ o \in There THEN Current(o) ELSE -1
<1>0. JmapTypeOK /\ LogSound
  BY InvParts
<1>1. \A o \in Objects : (IF o \in S /\ o \in There THEN Current(o) ELSE -1) \in Nat \cup {-1}
  BY <1>0, CurrentPositive
<1>2. Fetch(S) \in Versions
  BY <1>1 DEF Fetch, Versions
<1>3. \A o \in Objects : Fetch(S)[o] = IF o \in S /\ o \in There THEN Current(o) ELSE -1
  BY DEF Fetch
<1> QED
  BY <1>2, <1>3 DEF Truthful

\* A page of truthful news is handed over, or kept.
LEMMA Handed ==
  ASSUME JmapInv, NEW said \in Versions, Truthful(said), NEW p \in Passes, p.got = pass.got,
         pass.stage \in {"delta", "page"}, Hand(said, p)
  PROVE  /\ pass' \in Passes /\ held' \in [Objects -> Nat]
         /\ pass'.stage = p.stage /\ pass'.since = p.since /\ pass'.cursor = p.cursor
         /\ pass'.walk = p.walk /\ pass'.listing = p.listing
         /\ pass'.asked = p.asked /\ pass'.queried = p.queried /\ pass'.slipped = p.slipped
         /\ (order = "Fixed" /\ p.stage # "settle") => pass'.got = Unsaid
         /\ \A o \in Objects : Passing'[o] = IF said[o] = -1 THEN Passing[o] ELSE said[o]
         /\ \A s, g : Vouches(held, s, g) => Vouches(held', s, g)
         /\ \A s, g : Vouches(Passing, s, g) => Vouches(Passing', s, g)
<1>0. /\ pass.got \in Versions /\ held \in [Objects -> Nat] /\ order \in {"Fixed", "Server"}
      /\ order = "Fixed" => pass.got = Unsaid
  BY InvParts, PassFields
<1>1. \A o \in Objects : Unsaid[o] = -1
  BY DEF Unsaid
<1>2. \A o \in Objects : Passing[o] = IF pass.got[o] = -1 THEN held[o] ELSE pass.got[o]
  BY PassingFacts
<1>3. \A o \in Objects : Passing'[o] = IF pass'.got[o] = -1 THEN held'[o] ELSE pass'.got[o]
  BY DEF Passing, Over, Objects
<1>9. ASSUME \A o \in Objects : Passing'[o] = IF said[o] = -1 THEN Passing[o] ELSE said[o],
             NEW s, NEW g, Vouches(Passing, s, g)
      PROVE  Vouches(Passing', s, g)
  <2>1. Vouches(Over(said, Passing), s, g)
    BY <1>9, TruthKept
  <2>2. \A o \in Objects : Passing'[o] = Over(said, Passing)[o]
    BY <1>9, OverFacts
  <2> QED
    BY <2>1, <2>2 DEF Vouches
<1>4. CASE order = "Fixed" /\ p.stage # "settle"
  <2>1. held' = Over(said, held) /\ pass' = p
    BY <1>4 DEF Hand
  <2>2. held' \in [Objects -> Nat]
    BY <1>0, <2>1, OverFacts
  <2>3. pass'.got = Unsaid
    BY <1>0, <1>4, <2>1
  <2>4. \A o \in Objects : held'[o] = IF said[o] = -1 THEN held[o] ELSE said[o]
    BY <2>1, OverFacts
  <2>5. \A o \in Objects : Passing'[o] = IF said[o] = -1 THEN Passing[o] ELSE said[o]
    BY <1>0, <1>1, <1>2, <1>3, <1>4, <2>3, <2>4
  <2>6. ASSUME NEW s, NEW g, Vouches(held, s, g) PROVE Vouches(held', s, g)
    BY <2>1, <2>6, TruthKept
  <2> QED
    BY <2>1, <2>2, <2>3, <2>5, <2>6, <1>9
<1>5. CASE ~(order = "Fixed" /\ p.stage # "settle")
  <2>1. held' = held /\ pass' = [p EXCEPT !.got = Over(said, p.got)]
    BY <1>5 DEF Hand
  <2>2. Over(said, p.got) \in Versions
    BY <1>0, OverFacts
  <2>3. /\ pass' \in Passes /\ pass'.got = Over(said, p.got)
        /\ pass'.stage = p.stage /\ pass'.since = p.since /\ pass'.cursor = p.cursor
        /\ pass'.walk = p.walk /\ pass'.listing = p.listing
        /\ pass'.asked = p.asked /\ pass'.queried = p.queried /\ pass'.slipped = p.slipped
    BY <2>1, <2>2 DEF Passes
  <2>4. \A o \in Objects : pass'.got[o] = IF said[o] = -1 THEN pass.got[o] ELSE said[o]
    BY <2>3, OverFacts
  <2>5. \A o \in Objects : Passing'[o] = IF said[o] = -1 THEN Passing[o] ELSE said[o]
    BY <1>2, <1>3, <2>1, <2>4
  <2> QED
    BY <1>5, <2>1, <2>3, <2>5, <1>0, <1>9
<1> QED
  BY <1>4, <1>5

-------------------------------------------------------------------------------
(* A pass begins, stops and ends *)

\* A request fails or the process ends: what is stored stands as it is.
LEMMA JmapStopsHolds ==
  ASSUME JmapInv, JmapStops
  PROVE  JmapInv'
<1>1. /\ pass' = JmapIdle /\ UNCHANGED <<order, ranking, late, changes, counts, jmapCursor, held, slipped>>
      /\ jmapFaults' = jmapFaults + 1
  BY DEF JmapStops, JmapFault
<1>2. jmapCursor > 0 => Vouches(held, jmapCursor, slipped)
  BY InvParts DEF CursorHolds
<1>3. jmapFaults' \in Nat /\ held' \in [Objects -> Nat] /\ slipped' \in SUBSET Objects /\ jmapCursor' \in Nat /\ jmapCursor' <= Len(changes)
  BY <1>1, InvParts
<1> QED
  BY <1>1, <1>2, <1>3, IdleHolds

\* A pass that has only just begun to walk, or to read what changed.
LEMMA BeginsHolds ==
  ASSUME JmapInv, NEW stage, NEW since \in Nat,
         pass' \in Passes, pass'.stage = stage, pass'.since = since, pass'.cursor = 0,
         pass'.got = Unsaid, pass'.walk = NewWalk, pass'.listing = NewWalk, pass'.asked = {},
         \/ stage = "walk"
         \/ stage = "delta" /\ since = jmapCursor /\ jmapCursor > 0,
         since <= Len(changes),
         UNCHANGED <<order, ranking, late, changes, counts, jmapCursor, held, slipped>>,
         jmapFaults' \in Nat
  PROVE  JmapInv'
<1>1. /\ pass' \in Passes /\ pass'.stage = stage /\ pass'.since = since /\ pass'.cursor = 0
      /\ pass'.got = Unsaid /\ pass'.walk = NewWalk /\ pass'.listing = NewWalk
      /\ pass'.asked = {}
  OBVIOUS
<1>2. JmapTypeOK'
  BY <1>1, InvParts DEF JmapTypeOK
<1>3. LogSound'
  BY InvParts, ServerSame
<1>4. StatesPast'
  BY <1>1, InvParts DEF StatesPast
<1>5. jmapCursor > 0 => Vouches(held, jmapCursor, slipped)'
  <2>1. PICK v, s, g : v = held /\ s = jmapCursor /\ g = slipped
    OBVIOUS
  <2>2. jmapCursor > 0 => Vouches(v, s, g)'
    BY <2>1, InvParts, ServerSame DEF CursorHolds
  <2>3. v = held' /\ s = jmapCursor' /\ g = slipped'
    BY <2>1
  <2> QED
    BY <2>2, <2>3 DEF Vouches, Objects
<1>6. CursorHolds'
  BY <1>5 DEF CursorHolds
<1>7. DeltaHolds'
  <2> SUFFICES ASSUME stage = "delta"
               PROVE  (0 < jmapCursor /\ jmapCursor <= pass.since)' /\ Vouches(Passing, pass.since, slipped)'
    BY <1>1 DEF DeltaHolds
  <2>1. since = jmapCursor /\ jmapCursor > 0
    OBVIOUS
  <2>2. \A o \in Objects : Passing'[o] = held'[o]
    <3>1. \A o \in Objects : Unsaid[o] = -1
      BY DEF Unsaid
    <3> QED
      BY <1>1, <3>1 DEF Passing, Over, Objects
  <2>3. pass'.since = jmapCursor'
    BY <1>1, <2>1
  <2>4. Vouches(Passing, pass.since, slipped)'
    BY <1>5, <2>1, <2>2, <2>3 DEF Vouches, Objects
  <2> QED
    BY <2>1, <2>3, <2>4, InvParts
<1>8. WalkHolds'
  <2>1. NewWalk.trail = <<>> /\ NewWalk.seen = {}
    BY DEF NewWalk
  <2> QED
    BY <1>1, <2>1 DEF WalkHolds
<1>12. ListingHolds'
  <2>1. NewWalk.trail = <<>> /\ NewWalk.queryState = <<>> /\ NewWalk.seen = {}
    BY DEF NewWalk
  <2> QED
    BY <1>1, <2>1 DEF ListingHolds, NewWalk
<1>9. stage \notin {"settle", "get"}
  OBVIOUS
<1>10. SettleHolds'
  BY <1>1, <1>9 DEF SettleHolds
<1>11. pass'.got = Unsaid'
  BY <1>1 DEF Unsaid, Objects
<1>13. late' \subseteq There'
  BY InvParts, ServerSame
<1>14. stage # "page"
  OBVIOUS
<1> QED
  BY <1>13, <1>14, <1>1, <1>2, <1>3, <1>4, <1>6, <1>7, <1>8, <1>9, <1>10, <1>11, <1>12 DEF JmapInv

\* A pass starts from the stored state, or walks when there is none.
LEMMA StartJmapHolds ==
  ASSUME JmapInv, StartJmap
  PROVE  JmapInv'
<1>0. jmapCursor \in Nat /\ jmapCursor <= Len(changes) /\ jmapFaults \in Nat
  BY InvParts
<1>1. /\ UNCHANGED <<order, ranking, late, changes, counts, jmapFaults, jmapCursor, held, slipped>>
      /\ pass' = [JmapIdle EXCEPT !.stage = IF jmapCursor = 0 THEN "walk" ELSE "delta",
                                  !.since = jmapCursor]
  BY DEF StartJmap, Resting
<1>2. PICK stage : stage = IF jmapCursor = 0 THEN "walk" ELSE "delta"
  OBVIOUS
<1>3. stage = "walk" \/ (stage = "delta" /\ jmapCursor > 0)
  BY <1>0, <1>2
<1>4. pass' = [JmapIdle EXCEPT !.stage = stage, !.since = jmapCursor] /\ stage \in JmapStages
  BY <1>1, <1>2, <1>3 DEF JmapStages
<1>5. /\ pass' \in Passes /\ pass'.stage = stage /\ pass'.since = jmapCursor /\ pass'.cursor = 0
      /\ pass'.got = Unsaid /\ pass'.walk = NewWalk /\ pass'.listing = NewWalk /\ pass'.asked = {}
  BY <1>0, <1>4, IdleFacts DEF Passes
<1> QED
  BY <1>0, <1>1, <1>3, <1>5, BeginsHolds

\* The pass ends with a cursor that what it kept vouches for.
LEMMA EndHolds ==
  ASSUME JmapInv, NEW said \in Versions, NEW cursor \in Nat, cursor <= Len(changes),
         End(said, cursor), slipped' \in SUBSET Objects,
         Vouches(Over(said, Passing), cursor, slipped'),
         UNCHANGED <<order, ranking, late, changes, counts>>, jmapFaults' \in Nat
  PROVE  JmapInv'
<1>1. held' = Over(said, Passing) /\ jmapCursor' = cursor /\ pass' = JmapIdle
  BY DEF End, Passing
<1>2. held' \in [Objects -> Nat]
  BY <1>1, PassingFacts, OverFacts
<1> QED
  BY <1>1, <1>2, IdleHolds

\* The server cannot say what changed: the pass stops where it is, or walks.
LEMMA CannotCalculateHolds ==
  ASSUME JmapInv, CannotCalculate
  PROVE  JmapInv'
<1>0. /\ pass.stage = "delta" /\ UNCHANGED <<order, ranking, late, changes, counts, slipped>>
      /\ jmapFaults' \in Nat
  BY InvParts DEF CannotCalculate, JmapFault
<1>1. Vouches(Passing, pass.since, slipped)
  BY <1>0, InvParts DEF DeltaHolds
<1>2. CASE order = "Fixed" /\ ~pass.first
  <2>1. End(Unsaid, pass.since)
    BY <1>2 DEF CannotCalculate
  <2>2. Unsaid \in Versions /\ Truthful(Unsaid)
    BY IdleFacts DEF Truthful, Unsaid
  <2>3. Vouches(Over(Unsaid, Passing), pass.since, slipped)
    BY <1>1, <2>2, TruthKept
  <2> QED
    BY <1>0, <2>1, <2>2, <2>3, EndHolds, InvParts
<1>3. CASE ~(order = "Fixed" /\ ~pass.first)
  <2>1. pass' = [JmapIdle EXCEPT !.stage = "walk"] /\ UNCHANGED <<jmapCursor, held>>
    BY <1>3 DEF CannotCalculate
  <2>2. PICK zero \in Nat : zero = 0
    OBVIOUS
  <2>3. PICK stage : stage = "walk"
    OBVIOUS
  <2>4. /\ pass' \in Passes /\ pass'.stage = stage /\ pass'.since = zero /\ pass'.cursor = 0
        /\ pass'.got = Unsaid /\ pass'.walk = NewWalk /\ pass'.listing = NewWalk /\ pass'.asked = {}
    BY <2>1, <2>2, <2>3, IdleFacts DEF Passes, JmapStages
  <2>5. zero <= Len(changes)
    BY <2>2, InvParts
  <2> QED
    BY <1>0, <2>1, <2>3, <2>4, <2>5, BeginsHolds
<1> QED
  BY <1>2, <1>3

-------------------------------------------------------------------------------
(* A page of what changed *)

\* The log has a change of this kind to o between two states.
Between(what, o, a, b) == \E j \in (a + 1)..b : changes[j].what = what /\ changes[j].obj = o

\* A page of the changes up to `upto`, and what it says of the objects in it.
PageSays(upto, created, updated, destroyed, patched, said) ==
  /\ \A o : o \in created <=> Between("created", o, pass.since, upto)
  /\ \A o : o \in updated <=> Between("updated", o, pass.since, upto)
  /\ \A o : o \in destroyed <=> Between("destroyed", o, pass.since, upto)
  /\ \A o \in updated : o \notin patched => order = "Fixed" /\ ~(held[o] > 0)
  /\ \A o \in Objects : said[o] = IF o \in destroyed THEN 0 ELSE Fetch(created \cup patched)[o]

\* A page of changes over what was right before it is right up to the page's end.
LEMMA DeltaVouches ==
  ASSUME JmapInv, pass.stage = "delta", NEW upto \in Nat, pass.since <= upto, upto <= Len(changes),
         NEW created, NEW updated, NEW destroyed, NEW patched, NEW said,
         PageSays(upto, created, updated, destroyed, patched, said)
  PROVE  Truthful(said) /\ Vouches(Over(said, Passing), upto, slipped)
<1>a. /\ \A o : o \in created <=> Between("created", o, pass.since, upto)
      /\ \A o : o \in updated <=> Between("updated", o, pass.since, upto)
      /\ \A o : o \in destroyed <=> Between("destroyed", o, pass.since, upto)
      /\ \A o \in updated : o \notin patched => order = "Fixed" /\ ~(held[o] > 0)
      /\ \A o \in Objects : said[o] = IF o \in destroyed THEN 0 ELSE Fetch(created \cup patched)[o]
  BY DEF PageSays
<1> DEFINE since == pass.since
<1>0. JmapTypeOK /\ LogSound /\ Vouches(Passing, since, slipped) /\ since \in Nat /\ Len(changes) \in Nat
  BY InvParts DEF DeltaHolds
<1>1. \A o, i : i \in ChangesOf(o) <=> (i \in 1..Len(changes) /\ changes[i].obj = o)
  BY <1>0, ChangeFacts
<1>2. \A s, o : o \in Made(s) <=>
         (o \in Objects /\ \E i \in ChangesOf(o) : changes[i].what = "created" /\ i <= s)
  BY <1>0, ChangeFacts
<1>3. \A i \in 1..Len(changes) : changes[i].what \in Whats
  BY <1>0, ChangeFacts
<1>4. \A o, i : i \in ChangesOf(o) => i \in Nat /\ i <= Len(changes)
  BY <1>0, <1>1
<1>5. \A what, o : Between(what, o, since, upto) <=>
         \E i \in ChangesOf(o) : since < i /\ i <= upto /\ changes[i].what = what
  <2>1. \A i : i \in (since + 1)..upto => i \in 1..Len(changes) /\ since < i /\ i <= upto
    BY <1>0
  <2>2. \A i : (i \in 1..Len(changes) /\ since < i /\ i <= upto) => i \in (since + 1)..upto
    BY <1>0
  <2> QED
    BY <1>1, <2>1, <2>2 DEF Between
<1> HIDE DEF since
<1>6. /\ \A o \in Objects : \A i \in ChangesOf(o) : \E j \in ChangesOf(o) : j <= i /\ changes[j].what = "created"
      /\ \A o \in Objects : \A i, j \in ChangesOf(o) : changes[i].what = "destroyed" => j <= i
      /\ \A o \in Objects : o \in There <=>
           (o \in Made(Len(changes)) /\ \A i \in ChangesOf(o) : changes[i].what # "destroyed")
  BY <1>0 DEF LogSound
<1>7. \A o \in Objects : o \in destroyed => o \notin There
  BY <1>a, <1>5, <1>6 DEF since
<1>8. \A o : o \notin There => Current(o) = 0
  BY DEF Current
<1>9. \A o \in There : Current(o) > 0
  BY <1>0, CurrentPositive
<1>10. \A o \in Objects :
         Fetch(created \cup patched)[o] = IF o \in created \cup patched /\ o \in There THEN Current(o) ELSE -1
  BY FetchTruthful
<1>11. Truthful(said)
  BY <1>a, <1>7, <1>8, <1>10 DEF Truthful
<1>12. ASSUME NEW o \in Objects \ slipped
       PROVE  /\ (\A i \in ChangesOf(o) : i <= upto) => Over(said, Passing)[o] = Current(o)
              /\ o \in Made(upto) \cap There => Over(said, Passing)[o] > 0
  <2>0. Over(said, Passing)[o] = IF said[o] = -1 THEN Passing[o] ELSE said[o]
    BY OverFacts
  <2>1. CASE o \in destroyed
    BY <1>a, <2>0, <2>1, <1>7, <1>8
  <2>2. CASE o \notin destroyed /\ o \in created \cup patched /\ o \in There
    <3>1. said[o] = Current(o) /\ Current(o) \in Nat
      BY <1>a, <2>2, <1>10, <1>0, CurrentPositive
    <3> QED
      BY <2>0, <2>2, <3>1, <1>9
  <2>3. CASE o \notin destroyed /\ ~(o \in created \cup patched /\ o \in There)
    <3>1. Over(said, Passing)[o] = Passing[o]
      BY <1>a, <2>0, <2>3, <1>10
    <3>2. ASSUME \A i \in ChangesOf(o) : i <= upto, ~(\A i \in ChangesOf(o) : i <= since) PROVE FALSE
      <4>1. PICK i \in ChangesOf(o) : ~(i <= since)
        BY <3>2
      <4>2. i \in Nat /\ since < i /\ i <= upto /\ since \in Nat
        BY <3>2, <4>1, <1>4, <1>0 DEF since
      <4>3. changes[i].what \in {"created", "updated"}
        <5>1. changes[i].what \in Whats
          BY <1>1, <1>3
        <5>2. changes[i].what # "destroyed"
          BY <1>a, <2>3, <4>2, <1>5 DEF since
        <5> QED
          BY <5>1, <5>2 DEF Whats
      <4>4. PICK j \in ChangesOf(o) : j <= i /\ changes[j].what = "created"
        BY <1>6
      <4>5. j \in Nat /\ j <= Len(changes)
        BY <1>4
      <4>6. CASE o \in There
        <5>1. o \notin created /\ o \notin patched
          BY <2>3, <4>6
        <5>2. o \in updated
          BY <1>a, <4>2, <4>3, <5>1, <1>5 DEF since
        <5>3. order = "Fixed" /\ ~(held[o] > 0)
          BY <1>a, <5>1, <5>2
        <5>4. ~(since < j)
          BY <1>a, <5>1, <4>2, <4>4, <4>5, <1>5, <3>2 DEF since
        <5>5. o \in Made(since)
          BY <5>4, <4>2, <4>4, <4>5, <1>2
        <5>6. Passing[o] > 0
          BY <5>5, <4>6, <1>0 DEF Vouches, since
        <5> QED
          BY <5>3, <5>6, PassingFacts
      <4>7. CASE o \notin There
        <5>1. o \in Made(Len(changes))
          BY <4>4, <4>5, <1>2
        <5>2. PICK d \in ChangesOf(o) : changes[d].what = "destroyed"
          BY <5>1, <4>7, <1>6
        <5>3. i <= d /\ d \in Nat /\ d <= upto
          BY <5>2, <1>4, <1>6, <3>2
        <5>4. since < d
          BY <4>2, <5>3
        <5> QED
          BY <1>a, <5>2, <5>3, <5>4, <2>3, <1>5 DEF since
      <4> QED
        BY <4>6, <4>7
    <3>3. ASSUME o \in Made(upto), o \in There PROVE Passing[o] > 0
      <4>1. PICK j \in ChangesOf(o) : changes[j].what = "created" /\ j <= upto
        BY <3>3, <1>2
      <4>2. ~(since < j)
        BY <1>a, <2>3, <3>3, <4>1, <1>5 DEF since
      <4>3. j \in Nat /\ since \in Nat
        BY <1>0, <1>4 DEF since
      <4>4. o \in Made(since)
        BY <4>1, <4>2, <4>3, <1>2
      <4> QED
        BY <4>4, <3>3, <1>0 DEF Vouches, since
    <3> QED
      BY <3>1, <3>2, <3>3, <1>0 DEF Vouches, since
  <2> QED
    BY <2>1, <2>2, <2>3
<1> QED
  BY <1>11, <1>12 DEF Vouches

\* A page of changes is stored or kept, and the last one leaves its state.
LEMMA ChangesPageHolds ==
  ASSUME JmapInv, NEW len \in pass.since..Len(changes), ChangesPage(len)
  PROVE  JmapInv'
<1> DEFINE since == pass.since
           upto == Min({since + WalkLimit, len})
           did(what) == {changes[i].obj : i \in {j \in (since + 1)..upto : changes[j].what = what}}
           patched == IF order = "Fixed" THEN {o \in did("updated") : held[o] > 0} ELSE did("updated")
           said == [o \in Objects |-> IF o \in did("destroyed") THEN 0
                                      ELSE Fetch(did("created") \cup patched)[o]]
<1>1. /\ pass.stage = "delta"
      /\ IF upto = len THEN End(said, upto)
         ELSE Hand(said, [pass EXCEPT !.since = upto, !.first = FALSE]) /\ UNCHANGED jmapCursor
      /\ UNCHANGED <<order, ranking, late, changes, counts, slipped, jmapFaults>>
  BY DEF ChangesPage, Resting
<1>2. /\ since \in Nat /\ Len(changes) \in Nat /\ WalkLimit \in Nat
      /\ len \in Nat /\ since <= len /\ len <= Len(changes)
  BY InvParts, JmapWalkAssumption
<1>3. upto \in Nat /\ since <= upto /\ upto <= Len(changes)
  <2>1. {since + WalkLimit, len} \in SUBSET Nat /\ {since + WalkLimit, len} # {}
    BY <1>2
  <2>2. upto \in {since + WalkLimit, len} /\ upto <= len
    BY <2>1, LeastOf
  <2> QED
    BY <1>2, <2>2
<1> HIDE DEF upto
<1>4. \A what, o : o \in did(what) <=> Between(what, o, since, upto)
  BY DEF Between
<1>5. \A o \in did("updated") : o \notin patched => order = "Fixed" /\ ~(held[o] > 0)
  OBVIOUS
<1>6. \A o \in Objects : said[o] = IF o \in did("destroyed") THEN 0 ELSE Fetch(did("created") \cup patched)[o]
  OBVIOUS
<1>7. said \in Versions
  <2>1. \A o \in Objects : Fetch(did("created") \cup patched)[o] \in Nat \cup {-1}
    <3> HIDE DEF did, patched
    <3>1. Fetch(did("created") \cup patched) \in Versions
      BY FetchTruthful
    <3> QED
      BY <3>1 DEF Versions
  <2>2. \A o \in Objects : (IF o \in did("destroyed") THEN 0 ELSE Fetch(did("created") \cup patched)[o]) \in Nat \cup {-1}
    BY <2>1
  <2> QED
    BY <2>2 DEF Versions
<1> HIDE DEF said, patched, did
<1>8. Truthful(said) /\ Vouches(Over(said, Passing), upto, slipped)
  <2>1. PICK c, u, d, pt, sd : c = did("created") /\ u = did("updated") /\ d = did("destroyed")
                               /\ pt = patched /\ sd = said
    OBVIOUS
  <2>2. /\ \A o : o \in c <=> Between("created", o, pass.since, upto)
        /\ \A o : o \in u <=> Between("updated", o, pass.since, upto)
        /\ \A o : o \in d <=> Between("destroyed", o, pass.since, upto)
    BY <1>4, <2>1
  <2>3. \A o \in u : o \notin pt => order = "Fixed" /\ ~(held[o] > 0)
    BY <1>5, <2>1
  <2>4. \A o \in Objects : sd[o] = IF o \in d THEN 0 ELSE Fetch(c \cup pt)[o]
    BY <1>6, <2>1
  <2>6. PageSays(upto, c, u, d, pt, sd)
    BY <2>2, <2>3, <2>4 DEF PageSays
  <2>5. Truthful(sd) /\ Vouches(Over(sd, Passing), upto, slipped)
    BY <1>1, <1>3, <2>6, DeltaVouches
  <2> QED
    BY <2>1, <2>5
<1>9. jmapFaults' \in Nat
  BY <1>1, InvParts
<1>10. CASE upto = len
  <2>1. End(said, upto)
    BY <1>1, <1>10
  <2> QED
    BY <1>1, <1>3, <1>7, <1>8, <1>9, <2>1, EndHolds, InvParts
<1>11. CASE upto # len
  <2> DEFINE p == [pass EXCEPT !.since = upto, !.first = FALSE]
  <2>0. pass \in Passes
    BY InvParts
  <2>1. p \in Passes /\ p.got = pass.got /\ p.stage = "delta" /\ p.since = upto /\ p.cursor = pass.cursor
        /\ p.walk = pass.walk /\ p.listing = pass.listing /\ p.asked = pass.asked
    BY <1>1, <1>3, <2>0 DEF Passes
  <2>2. Hand(said, p) /\ jmapCursor' = jmapCursor
    BY <1>1, <1>11
  <2> HIDE DEF p
  <2>3. /\ pass' \in Passes /\ held' \in [Objects -> Nat]
        /\ pass'.stage = p.stage /\ pass'.since = p.since /\ pass'.cursor = p.cursor
        /\ order = "Fixed" => pass'.got = Unsaid
        /\ pass'.asked = {}
        /\ \A o \in Objects : Passing'[o] = IF said[o] = -1 THEN Passing[o] ELSE said[o]
        /\ \A s, g : Vouches(held, s, g) => Vouches(held', s, g)
    BY <1>1, <1>7, <1>8, <2>1, <2>2, Handed, InvParts
  <2>4. JmapTypeOK'
    BY <1>1, <2>2, <2>3, InvParts DEF JmapTypeOK
  <2>5. LogSound'
    BY <1>1, InvParts, ServerSame
  <2>6. StatesPast'
    BY <1>1, <1>3, <2>1, <2>2, <2>3, InvParts DEF StatesPast
  <2>7. CursorHolds'
    <3> SUFFICES ASSUME jmapCursor' > 0 PROVE Vouches(held, jmapCursor, slipped)'
      BY DEF CursorHolds
    <3>1. Vouches(held', jmapCursor, slipped)
      BY <2>2, <2>3, InvParts DEF CursorHolds
    <3>2. PICK v, s, g : v = held' /\ s = jmapCursor /\ g = slipped
      OBVIOUS
    <3>3. Vouches(v, s, g)'
      BY <1>1, <3>1, <3>2, ServerSame
    <3> QED
      BY <1>1, <2>2, <3>2, <3>3 DEF Vouches, Objects
  <2>8. DeltaHolds'
    <3>1. PICK v, s, g : v = Over(said, Passing) /\ s = upto /\ g = slipped
      OBVIOUS
    <3>2. Vouches(v, s, g)'
      BY <1>1, <1>8, <3>1, ServerSame
    <3>3. \A o \in Objects : Passing'[o] = v[o]
      BY <2>3, <3>1, OverFacts
    <3>4. s = pass'.since /\ g = slipped'
      BY <1>1, <2>1, <2>3, <3>1
    <3>5. Vouches(Passing, pass.since, slipped)'
      BY <3>2, <3>3, <3>4 DEF Vouches, Objects
    <3>6. 0 < jmapCursor /\ jmapCursor <= pass.since /\ jmapCursor \in Nat
      BY <1>1, InvParts DEF DeltaHolds
    <3> QED
      BY <1>2, <1>3, <2>1, <2>2, <2>3, <3>5, <3>6 DEF DeltaHolds
  <2>9. pass'.stage = "delta"
    BY <2>1, <2>3
  <2>10. SettleHolds'
    BY <2>9 DEF SettleHolds
  <2>11. late' \subseteq There'
    BY <1>1, InvParts, ServerSame
  <2> QED
    BY <1>1, <2>3, <2>4, <2>5, <2>6, <2>7, <2>8, <2>9, <2>10, <2>11 DEF JmapInv, Unsaid, Objects
<1> QED
  BY <1>10, <1>11

-------------------------------------------------------------------------------
(* A page of the walk *)

\* What is there has been made.
LEMMA MadeThere ==
  ASSUME JmapInv, NEW o \in There
  PROVE  o \in Objects /\ o \in Made(Len(changes))
BY InvParts, Ranks DEF LogSound

\* What a page adds to a walk is there.
LEMMA PageGrows ==
  ASSUME Ranked, counts \in BOOLEAN, NEW w \in Walks, NEW limit \in Nat \ {0},
         NEW q, q = Paged(w, limit)
  PROVE  /\ q \in Walks /\ q.pages = w.pages + 1 /\ w.seen \subseteq q.seen
         /\ \A o \in q.seen : o \in w.seen \/ o \in There
         /\ (\A k \in DOMAIN w.trail : w.trail[k] \in w.seen) =>
              \A k \in DOMAIN q.trail : q.trail[k] \in q.seen
<1>1. PICK ids, t, at : ids = PageIds(w, limit) /\ t = w.trail /\ at = Position(w)
  OBVIOUS
<1>2. PageAdds(w, q, ids)
  BY <1>1, PagedFacts
<1>3. /\ at \in 0..Len(ranking) /\ ids \in Seq(Objects) /\ Len(ids) \in Nat
      /\ at + Len(ids) <= Len(ranking)
      /\ \A k \in 1..Len(ids) : ids[k] = ranking[at + k]
  <2>1. PageOf(limit, ids, at)
    BY <1>1, PageFacts
  <2> QED
    BY <2>1 DEF PageOf
<1>4. /\ q \in Walks /\ q.trail = t \o ids /\ q.pages = w.pages + 1
      /\ \A o : o \in q.seen <=> (o \in w.seen \/ \E k \in 1..Len(ids) : ids[k] = o)
  BY <1>1, <1>2 DEF PageAdds
<1>5. \A k \in 1..Len(ids) : ids[k] \in There
  <2>1. \A k \in 1..Len(ids) : at + k \in 1..Len(ranking)
    BY <1>3, Ranks
  <2> QED
    BY <1>3, <2>1, Ranks
<1>6. t \in Seq(Objects) /\ Len(t) \in Nat /\ DOMAIN t = 1..Len(t)
  BY <1>1 DEF Walks
<1>7. /\ Len(q.trail) = Len(t) + Len(ids) /\ q.trail \in Seq(Objects)
      /\ \A i \in 1..Len(t) : q.trail[i] = t[i]
      /\ \A i \in 1..Len(ids) : q.trail[Len(t) + i] = ids[i]
  BY <1>3, <1>4, <1>6, Joined
<1>8. ASSUME NEW k \in DOMAIN q.trail
      PROVE  (k \in DOMAIN t /\ q.trail[k] = t[k]) \/ \E m \in 1..Len(ids) : q.trail[k] = ids[m]
  <2>1. PICK n, m : n = Len(t) /\ m = Len(ids)
    OBVIOUS
  <2>2. n \in Nat /\ m \in Nat /\ k \in 1..(n + m)
    BY <1>3, <1>6, <1>7, <2>1
  <2>3. k \in 1..n \/ (k - n \in 1..m /\ n + (k - n) = k)
    BY <2>2
  <2>4. ASSUME k - n \in 1..m, n + (k - n) = k PROVE q.trail[k] = ids[k - n]
    <3>1. q.trail[n + (k - n)] = ids[k - n]
      BY <1>7, <2>1, <2>4
    <3> QED
      BY <2>4, <3>1
  <2> QED
    BY <1>6, <1>7, <2>1, <2>3, <2>4
<1>9. ASSUME \A k \in DOMAIN w.trail : w.trail[k] \in w.seen, NEW k \in DOMAIN q.trail
      PROVE  q.trail[k] \in q.seen
  BY <1>1, <1>4, <1>8, <1>9
<1> QED
  BY <1>4, <1>5, <1>9

\* An object that comes after all a walk has listed, and is not on its page, comes after
\* the page: there is none when the page was the last.
LEMMA PageFollows ==
  ASSUME Ranked, counts \in BOOLEAN, NEW w \in Walks, NEW limit \in Nat \ {0},
         NEW q, q = Paged(w, limit), NEW o, o \notin q.seen,
         \A k \in DOMAIN w.trail : Precedes(ranking, w.trail[k], o)
  PROVE  /\ \A k \in DOMAIN q.trail : Precedes(ranking, q.trail[k], o)
         /\ q.done => o \notin There
<1>1. PICK ids, t, at : ids = PageIds(w, limit) /\ t = w.trail /\ at = Position(w)
  OBVIOUS
<1>2. PageAdds(w, q, ids)
  BY <1>1, PagedFacts
<1>3. /\ at \in 0..Len(ranking) /\ ids \in Seq(Objects) /\ Len(ids) \in Nat
      /\ at + Len(ids) <= Len(ranking)
      /\ \A k \in 1..Len(ids) : ids[k] = ranking[at + k]
      /\ \A i \in 1..Len(ranking) :
           (i > at /\ i <= at + Len(ids)) => \E k \in 1..Len(ids) : ids[k] = ranking[i]
  <2>1. PageOf(limit, ids, at)
    BY <1>1, PageFacts
  <2> QED
    BY <2>1 DEF PageOf
<1>4. /\ q.trail = t \o ids
      /\ \A x : x \in q.seen <=> (x \in w.seen \/ \E k \in 1..Len(ids) : ids[k] = x)
      /\ q.done => at + Len(ids) = Len(ranking)
  BY <1>1, <1>2 DEF PageAdds
<1>5. Len(ranking) \in Nat /\ DOMAIN ranking = 1..Len(ranking) /\ NoTwice(ranking)
  BY Ranks DEF Ranked
<1>6. ASSUME NEW j \in 1..Len(ranking), ranking[j] = o PROVE j > at + Len(ids)
  <2>1. j > at
    <3>1. CASE at = 0
      BY <3>1
    <3>2. CASE at > 0
      <4>1. PICK k \in DOMAIN t : t[k] = ranking[at]
        BY <1>1, <3>2, PositionFacts
      <4>2. Precedes(ranking, t[k], o)
        BY <1>1, <4>1
      <4>3. at \in 1..Len(ranking)
        BY <1>3, <1>5, <3>2
      <4> QED
        BY <1>5, <1>6, <4>1, <4>2, <4>3 DEF Precedes
    <3> QED
      BY <1>3, <1>5, <3>1, <3>2
  <2>2. ~(j <= at + Len(ids))
    BY <1>3, <1>4, <1>6, <2>1
  <2> QED
    BY <1>3, <1>5, <2>2
<1>7. t \in Seq(Objects) /\ Len(t) \in Nat /\ DOMAIN t = 1..Len(t)
  BY <1>1 DEF Walks
<1>8. /\ Len(q.trail) = Len(t) + Len(ids) /\ q.trail \in Seq(Objects)
      /\ \A i \in 1..Len(t) : q.trail[i] = t[i]
      /\ \A i \in 1..Len(ids) : q.trail[Len(t) + i] = ids[i]
  BY <1>3, <1>4, <1>7, Joined
<1>9. ASSUME NEW m \in 1..Len(ids) PROVE Precedes(ranking, ids[m], o)
  <2>1. ids[m] = ranking[at + m] /\ at + m \in 1..Len(ranking) /\ m <= Len(ids) /\ m \in Nat
    BY <1>3, <1>5
  <2> SUFFICES ASSUME NEW i \in DOMAIN ranking, NEW j \in DOMAIN ranking,
                      ranking[i] = ids[m], ranking[j] = o
               PROVE  i < j
    BY DEF Precedes
  <2>2. i = at + m
    BY <1>5, <2>1 DEF NoTwice
  <2>3. j > at + Len(ids)
    BY <1>5, <1>6
  <2> QED
    BY <1>3, <1>5, <2>1, <2>2, <2>3
<1>10. ASSUME NEW k \in DOMAIN q.trail PROVE Precedes(ranking, q.trail[k], o)
  <2>1. PICK n, m : n = Len(t) /\ m = Len(ids)
    OBVIOUS
  <2>2. n \in Nat /\ m \in Nat /\ k \in 1..(n + m)
    BY <1>3, <1>7, <1>8, <2>1
  <2>3. k \in 1..n \/ (k - n \in 1..m /\ n + (k - n) = k)
    BY <2>2
  <2>4. CASE k \in 1..n
    BY <1>1, <1>7, <1>8, <2>1, <2>4
  <2>5. CASE k - n \in 1..m /\ n + (k - n) = k
    <3>1. q.trail[n + (k - n)] = ids[k - n]
      BY <1>8, <2>1, <2>5
    <3>2. q.trail[k] = ids[k - n]
      BY <2>5, <3>1
    <3> QED
      BY <1>9, <2>1, <2>5, <3>2
  <2> QED
    BY <2>3, <2>4, <2>5
<1>11. ASSUME q.done, o \in There PROVE FALSE
  <2>1. PICK j \in 1..Len(ranking) : ranking[j] = o
    BY <1>11, Ranks
  <2>2. j > at + Len(ids)
    BY <1>6, <2>1
  <2> QED
    BY <1>4, <1>5, <1>11, <2>2
<1> QED
  BY <1>10, <1>11

\* What is stored answers for the cursor through a step of the pass.
LEMMA RestKept ==
  ASSUME JmapInv, pass' \in Passes, held' \in [Objects -> Nat],
         UNCHANGED <<order, ranking, late, changes, counts, jmapCursor, slipped, jmapFaults>>,
         \A s, g : Vouches(held, s, g) => Vouches(held', s, g),
         pass'.since <= Len(changes), pass'.cursor <= Len(changes)
  PROVE  /\ JmapTypeOK' /\ LogSound' /\ late' \subseteq There' /\ StatesPast' /\ CursorHolds'
         /\ There' = There /\ Made(Len(changes))' = Made(Len(changes))
         /\ \A s : Made(s)' = Made(s)
         /\ \A o : ChangesOf(o)' = ChangesOf(o) /\ Current(o)' = Current(o)
<1>1. /\ There' = There /\ \A o : ChangesOf(o)' = ChangesOf(o) /\ Current(o)' = Current(o)
      /\ \A s : Made(s)' = Made(s)
  BY ServerSame
<1>2. Made(Len(changes))' = Made(Len(changes))
  <2>1. PICK n : n = Len(changes)
    OBVIOUS
  <2>2. Len(changes') = n
    BY <2>1
  <2> QED
    BY <2>1, <2>2, <1>1 DEF Made, Objects
<1>3. JmapTypeOK'
  BY InvParts DEF JmapTypeOK
<1>4. LogSound'
  BY InvParts, ServerSame
<1>5. late' \subseteq There'
  BY <1>1, InvParts
<1>6. StatesPast'
  BY InvParts DEF StatesPast
<1>7. CursorHolds'
  <2> SUFFICES ASSUME jmapCursor' > 0 PROVE Vouches(held, jmapCursor, slipped)'
    BY DEF CursorHolds
  <2>1. Vouches(held', jmapCursor, slipped)
    BY InvParts DEF CursorHolds
  <2>2. PICK v, s, g : v = held' /\ s = jmapCursor /\ g = slipped
    OBVIOUS
  <2>3. Vouches(v, s, g)'
    BY <2>1, <2>2, ServerSame
  <2>4. v = held' /\ s = jmapCursor' /\ g = slipped'
    BY <2>2
  <2> QED
    BY <2>3, <2>4 DEF Vouches, Objects
<1> QED
  BY <1>1, <1>2, <1>3, <1>4, <1>5, <1>6, <1>7

\* The query of a page is answered: what it lists anew is asked for.
LEMMA WalkQueryHolds ==
  ASSUME JmapInv, WalkQuery
  PROVE  JmapInv'
<1>1. PICK w, fresh, n : w = Paged(pass.walk, WalkLimit) /\ fresh = w.seen \ pass.walk.seen
                         /\ n = Len(changes)
  OBVIOUS
<1>2. /\ pass.stage = "walk"
      /\ pass' = IF w.lost THEN JmapIdle
                 ELSE [pass EXCEPT !.stage = "page", !.walk = w, !.asked = fresh, !.queried = n]
      /\ UNCHANGED <<order, ranking, late, changes, counts, jmapCursor, held, slipped, jmapFaults>>
  BY <1>1 DEF WalkQuery, Resting
<1>3. /\ Ranked /\ pass.walk \in Walks /\ WalkLimit \in Nat \ {0} /\ pass \in Passes
      /\ counts \in BOOLEAN /\ late \subseteq There /\ n \in Nat /\ pass.cursor <= n
      /\ WalkHolds /\ ListingHolds /\ pass.asked = {} /\ (order = "Fixed" => pass.got = Unsaid)
  BY <1>1, <1>2, InvParts, PassFields, JmapWalkAssumption
<1>4. /\ w \in Walks /\ w.pages = pass.walk.pages + 1 /\ pass.walk.seen \subseteq w.seen
      /\ \A o \in w.seen : o \in pass.walk.seen \/ o \in There
      /\ \A k \in DOMAIN w.trail : w.trail[k] \in w.seen
  BY <1>1, <1>3, PageGrows DEF WalkHolds
<1>5. ASSUME NEW o, o \notin w.seen, \A k \in DOMAIN pass.walk.trail : Precedes(ranking, pass.walk.trail[k], o)
      PROVE  /\ \A k \in DOMAIN w.trail : Precedes(ranking, w.trail[k], o)
             /\ w.done => o \notin There
  BY <1>1, <1>3, <1>5, PageFollows
<1>6. CASE w.lost
  <2>1. pass' = JmapIdle
    BY <1>2, <1>6
  <2>2. jmapCursor > 0 => Vouches(held, jmapCursor, slipped)
    BY InvParts DEF CursorHolds
  <2>3. /\ jmapFaults' \in Nat /\ held' \in [Objects -> Nat] /\ jmapCursor' \in Nat
        /\ jmapCursor' <= Len(changes) /\ slipped' \in SUBSET Objects
    BY <1>2, InvParts
  <2> QED
    BY <1>2, <2>1, <2>2, <2>3, IdleHolds
<1>7. CASE ~w.lost
  <2>1. pass' = [pass EXCEPT !.stage = "page", !.walk = w, !.asked = fresh, !.queried = n]
    BY <1>2, <1>7
  <2>2. fresh \subseteq Objects /\ fresh \subseteq w.seen
    BY <1>1, <1>4 DEF Walks
  <2>3. /\ pass' \in Passes /\ pass'.stage = "page" /\ pass'.walk = w /\ pass'.asked = fresh
        /\ pass'.queried = n /\ pass'.since = pass.since /\ pass'.cursor = pass.cursor
        /\ pass'.got = pass.got /\ pass'.slipped = pass.slipped /\ pass'.listing = pass.listing
    BY <1>3, <1>4, <2>1, <2>2 DEF Passes, JmapStages
  <2>4. held' \in [Objects -> Nat] /\ pass'.since <= Len(changes) /\ pass'.cursor <= Len(changes)
    BY <1>2, <2>3, InvParts
  <2>5. /\ JmapTypeOK' /\ LogSound' /\ late' \subseteq There' /\ StatesPast' /\ CursorHolds'
        /\ There' = There /\ Made(Len(changes))' = Made(Len(changes))
        /\ \A s : Made(s)' = Made(s)
        /\ \A o : ChangesOf(o)' = ChangesOf(o) /\ Current(o)' = Current(o)
    BY <1>2, <2>3, <2>4, RestKept
  <2>6. Passing' = Passing
    BY <1>2, <2>3 DEF Passing, Over, Objects
  <2>7. w.pages # 0 /\ w.pages \in Nat /\ (w.pages = 1 => pass.walk.pages = 0)
    BY <1>3, <1>4 DEF Walks
  <2>8. w.pages = 1 => pass.walk.trail = <<>> /\ pass.walk.seen = {}
    BY <1>3, <2>7 DEF WalkHolds
  <2>9. WalkHolds'
    <3>1. \A o \in w.seen : o \in Made(Len(changes))
      BY <1>3, <1>4, MadeThere DEF WalkHolds
    <3>2. \A o \in w.seen \ fresh : o \in pass.walk.seen \ pass.asked
      BY <1>1, <1>3
    <3>3. \A o \in w.seen \ fresh :
            /\ o \in There => Passing[o] > 0
            /\ (o \notin pass.slipped /\ \A i \in ChangesOf(o) : i <= pass.cursor) => Passing[o] = Current(o)
      BY <1>3, <3>2 DEF WalkHolds
    <3>4. ASSUME order = "Fixed", NEW o \in late \ w.seen, NEW k \in DOMAIN w.trail
          PROVE  Precedes(ranking, w.trail[k], o)
      <4>1. o \in late \ pass.walk.seen
        BY <1>4
      <4>2. \A i \in DOMAIN pass.walk.trail : Precedes(ranking, pass.walk.trail[i], o)
        BY <1>3, <3>4, <4>1 DEF WalkHolds
      <4> QED
        BY <1>5, <4>2
    <3>5. \A o \in pass'.walk.seen \ pass'.asked :
            /\ o \in There' => Passing'[o] > 0
            /\ (o \notin pass'.slipped /\ \A i \in ChangesOf(o)' : i <= pass'.cursor) => Passing'[o] = Current(o)'
      BY <2>3, <2>5, <2>6, <3>3
    <3>6. order' = "Fixed" =>
            \A o \in late' \ pass'.walk.seen :
              \A k \in DOMAIN pass'.walk.trail : Precedes(ranking', pass'.walk.trail[k], o)
      BY <1>2, <2>3, <3>4
    <3>7. \A o \in pass'.walk.seen : o \in Made(Len(changes))'
      BY <2>3, <2>5, <3>1
    <3> QED
      BY <1>4, <2>3, <2>7, <3>5, <3>6, <3>7 DEF WalkHolds, Precedes
  <2>10. (pass.walk.done => NoneLate)'
    <3> SUFFICES ASSUME w.done, order = "Fixed", NEW o \in There, o \notin w.seen, o \in late PROVE FALSE
      BY <1>2, <2>3, <2>5 DEF NoneLate
    <3>1. \A k \in DOMAIN pass.walk.trail : Precedes(ranking, pass.walk.trail[k], o)
      BY <1>3, <1>4 DEF WalkHolds
    <3> QED
      BY <1>5, <3>1
  <2>11. PageHolds'
    <3>1. pass'.queried <= Len(changes') /\ pass'.walk.pages > 0 /\ pass'.asked \subseteq pass'.walk.seen
      BY <1>1, <1>2, <1>3, <2>2, <2>3, <2>7
    <3>2. pass'.walk.pages = 1 => pass'.asked = pass'.walk.seen
      BY <1>1, <2>3, <2>8
    <3>3. pass'.cursor <= pass'.queried
      BY <1>3, <2>3
    <3>4. \A o \in pass'.asked : o \in There'
      BY <1>1, <1>4, <2>3, <2>5
    <3>5. ASSUME w.done, w.pages = 1, NEW o \in There PROVE o \in w.seen
      <4>1. \A k \in DOMAIN pass.walk.trail : Precedes(ranking, pass.walk.trail[k], o)
        BY <2>8, <3>5
      <4> QED
        BY <1>5, <3>5, <4>1
    <3>6. (pass'.walk.done /\ pass'.walk.pages = 1) =>
            Made(pass.queried)' \cap There' \subseteq pass'.walk.seen
      BY <2>3, <2>5, <3>5
    <3> QED
      BY <2>10, <3>1, <3>2, <3>3, <3>4, <3>6 DEF PageHolds
  <2>12. ListingHolds'
    <3>1. pass'.listing = NewWalk
      BY <1>2, <1>3, <2>3 DEF ListingHolds
    <3>2. NewWalk.trail = <<>> /\ NewWalk.queryState = <<>> /\ NewWalk.seen = {}
      BY DEF NewWalk
    <3> QED
      BY <3>1, <3>2 DEF ListingHolds, NewWalk
  <2>13. DeltaHolds' /\ SettleHolds'
    BY <2>3 DEF DeltaHolds, SettleHolds
  <2>14. order' = "Fixed" => pass'.got = Unsaid'
    BY <1>2, <1>3, <2>3 DEF Unsaid, Objects
  <2> QED
    BY <2>3, <2>5, <2>9, <2>11, <2>12, <2>13, <2>14 DEF JmapInv
<1> QED
  BY <1>6, <1>7

\* The objects asked for are read: the first page's state is that of the reading, and
\* what was made or destroyed since its query has slipped.
LEMMA WalkGetHolds ==
  ASSUME JmapInv, WalkGet
  PROVE  JmapInv'
<1>1. PICK c, sl, stage, said, w :
        /\ c = SnapshotState(pass) /\ sl = Slips(pass) /\ said = Fetch(pass.asked) /\ w = pass.walk
        /\ stage = IF pass.walk.done THEN "settle" ELSE "walk"
  OBVIOUS
<1>2. PICK p : p = [pass EXCEPT !.stage = stage, !.cursor = c, !.slipped = sl,
                                !.asked = {}, !.queried = 0]
  OBVIOUS
<1>3. /\ pass.stage = "page" /\ Hand(said, p)
      /\ UNCHANGED <<order, ranking, late, changes, counts, jmapCursor, slipped, jmapFaults>>
  BY <1>1, <1>2 DEF WalkGet, Resting
<1>4. /\ WalkHolds /\ PageHolds /\ ListingHolds /\ pass \in Passes /\ JmapTypeOK /\ LogSound
      /\ pass.cursor \in Nat /\ pass.cursor <= Len(changes) /\ Len(changes) \in Nat
      /\ pass.queried \in Nat /\ w \in Walks /\ pass.asked \subseteq Objects
  BY <1>1, <1>3, InvParts, PassFields
<1>5. /\ c \in Nat /\ c <= Len(changes) /\ (w.pages # 1 => c = pass.cursor)
      /\ (w.pages = 1 => c = Len(changes))
  BY <1>1, <1>4 DEF SnapshotState
<1>6. ASSUME w.pages = 1
      PROVE  \A o : o \in sl <=> \E i \in ChangesOf(o) : i > pass.queried /\ changes[i].what # "updated"
  <2>1. \A o : o \in sl <=> \E i \in (pass.queried + 1)..Len(changes) :
                              changes[i].what # "updated" /\ changes[i].obj = o
    BY <1>1, <1>6 DEF Slips
  <2>2. \A i : i \in (pass.queried + 1)..Len(changes) <=> (i \in 1..Len(changes) /\ i > pass.queried)
    BY <1>4
  <2> QED
    BY <1>4, <2>1, <2>2, ChangeFacts
<1>7. w.pages # 1 => sl = pass.slipped
  BY <1>1 DEF Slips
<1>8. sl \subseteq Objects
  <2>1. ASSUME w.pages = 1, NEW o \in sl PROVE o \in Objects
    BY <1>4, <1>6, <2>1, ChangeFacts
  <2> QED
    BY <1>4, <1>7, <2>1, PassFields
<1>9. said \in Versions /\ Truthful(said)
      /\ \A o \in Objects : said[o] = IF o \in pass.asked /\ o \in There THEN Current(o) ELSE -1
  BY <1>1, FetchTruthful
<1>10. stage \in {"settle", "walk"} /\ (stage = "settle" => w.done) /\ stage \in JmapStages
  BY <1>1 DEF JmapStages
<1>11. /\ p \in Passes /\ p.got = pass.got /\ p.stage = stage /\ p.since = pass.since
       /\ p.cursor = c /\ p.walk = w /\ p.listing = pass.listing
       /\ p.asked = {} /\ p.queried = 0 /\ p.slipped = sl
  <2>1. {} \in SUBSET Objects /\ 0 \in Nat
    OBVIOUS
  <2> QED
    BY <1>1, <1>2, <1>4, <1>5, <1>8, <1>10, <2>1 DEF Passes
<1>12. /\ pass' \in Passes /\ held' \in [Objects -> Nat]
       /\ pass'.stage = stage /\ pass'.since = pass.since /\ pass'.cursor = c
       /\ pass'.walk = w /\ pass'.listing = pass.listing
       /\ pass'.asked = {} /\ pass'.queried = 0 /\ pass'.slipped = sl
       /\ (order = "Fixed" /\ stage # "settle") => pass'.got = Unsaid
       /\ \A o \in Objects : Passing'[o] = IF said[o] = -1 THEN Passing[o] ELSE said[o]
       /\ \A s, g : Vouches(held, s, g) => Vouches(held', s, g)
  <2>1. pass.stage \in {"delta", "page"}
    BY <1>3
  <2> QED
    BY <1>3, <1>9, <1>11, <2>1, Handed
<1>13. pass'.since <= Len(changes) /\ pass'.cursor <= Len(changes)
  BY <1>5, <1>12, InvParts
<1>14. /\ JmapTypeOK' /\ LogSound' /\ late' \subseteq There' /\ StatesPast' /\ CursorHolds'
       /\ There' = There /\ Made(Len(changes))' = Made(Len(changes))
       /\ \A s : Made(s)' = Made(s)
       /\ \A o : ChangesOf(o)' = ChangesOf(o) /\ Current(o)' = Current(o)
  BY <1>3, <1>12, <1>13, RestKept
<1>15. ASSUME NEW o \in w.seen
       PROVE  /\ o \in There => Passing'[o] > 0
              /\ (o \notin sl /\ \A i \in ChangesOf(o) : i <= c) => Passing'[o] = Current(o)
  <2>0. o \in Objects
    BY <1>4 DEF Walks
  <2>1. CASE o \in pass.asked /\ o \in There
    <3>1. Current(o) \in Nat /\ Current(o) > 0
      BY <1>4, <2>1, CurrentPositive
    <3>2. Passing'[o] = Current(o)
      BY <1>9, <1>12, <2>0, <2>1, <3>1
    <3> QED
      BY <3>1, <3>2
  <2>2. CASE o \in pass.asked /\ o \notin There
    <3>1. PICK i \in ChangesOf(o) : i > pass.queried /\ changes[i].what = "destroyed"
      BY <1>4, <2>2 DEF PageHolds
    <3>2. CASE w.pages = 1
      <4>1. o \in sl
        BY <1>6, <3>1, <3>2
      <4> QED
        BY <2>2, <4>1
    <3>3. CASE w.pages # 1
      <4>1. c <= pass.queried /\ i \in Nat
        BY <1>1, <1>4, <1>5, <3>3, ChangeFacts DEF PageHolds
      <4>2. ~(i <= c)
        BY <1>4, <1>5, <3>1, <4>1
      <4> QED
        BY <2>2, <4>2
    <3> QED
      BY <3>2, <3>3
  <2>3. CASE o \notin pass.asked
    <3>1. Passing'[o] = Passing[o]
      BY <1>9, <1>12, <2>0, <2>3
    <3>2. w.pages # 1
      BY <1>1, <1>4, <2>3 DEF PageHolds
    <3>3. c = pass.cursor /\ sl = pass.slipped /\ o \in pass.walk.seen \ pass.asked
      BY <1>1, <1>5, <1>7, <2>3, <3>2
    <3> QED
      BY <1>4, <3>1, <3>3 DEF WalkHolds
  <2> QED
    BY <2>1, <2>2, <2>3
<1>16. WalkHolds'
  <2>1. \A o \in pass'.walk.seen \ pass'.asked :
          /\ o \in There' => Passing'[o] > 0
          /\ (o \notin pass'.slipped /\ \A i \in ChangesOf(o)' : i <= pass'.cursor) => Passing'[o] = Current(o)'
    BY <1>12, <1>14, <1>15
  <2>2. order' = "Fixed" =>
          \A o \in late' \ pass'.walk.seen :
            \A k \in DOMAIN pass'.walk.trail : Precedes(ranking', pass'.walk.trail[k], o)
    BY <1>1, <1>3, <1>4, <1>12 DEF WalkHolds
  <2>3. \A o \in pass'.walk.seen : o \in Made(Len(changes))'
    BY <1>1, <1>4, <1>12, <1>14 DEF WalkHolds
  <2>4. /\ pass'.walk.pages = 0 => pass'.walk.trail = <<>> /\ pass'.walk.seen = {}
        /\ \A k \in DOMAIN pass'.walk.trail : pass'.walk.trail[k] \in pass'.walk.seen
    BY <1>1, <1>4, <1>12 DEF WalkHolds
  <2> QED
    BY <2>1, <2>2, <2>3, <2>4 DEF WalkHolds, Precedes
<1>17. ListingHolds'
  <2>1. pass'.listing = NewWalk
    BY <1>3, <1>4, <1>12 DEF ListingHolds
  <2>2. NewWalk.trail = <<>> /\ NewWalk.queryState = <<>> /\ NewWalk.seen = {}
    BY DEF NewWalk
  <2> QED
    BY <2>1, <2>2 DEF ListingHolds, NewWalk
<1>18. Made(pass.cursor)' = Made(c)
  <2>1. PICK d : d = c
    OBVIOUS
  <2>2. pass'.cursor = d
    BY <1>12, <2>1
  <2>3. Made(d)' = Made(d)
    BY <1>14
  <2> QED
    BY <2>1, <2>2, <2>3 DEF Made, Objects
<1>19. SettleHolds'
  <2>1. CASE stage = "walk"
    BY <1>12, <2>1 DEF SettleHolds
  <2>2. CASE stage = "settle"
    <3>1. w.done /\ w.pages > 0 /\ w.pages \in Nat
      BY <1>1, <1>4, <1>10, <2>2 DEF PageHolds, Walks
    <3>2. NoneLate'
      <4> SUFFICES ASSUME order = "Fixed", w.pages # 1, NEW o \in (Made(c) \cap There) \ w.seen
                   PROVE  o \notin late
        BY <1>3, <1>12, <1>14, <1>18 DEF NoneLate
      <4>1. NoneLate /\ c = pass.cursor
        BY <1>1, <1>4, <1>5, <3>1 DEF PageHolds
      <4> QED
        BY <1>1, <4>1 DEF NoneLate
    <3>3. ASSUME w.pages = 1, NEW o \in Made(c) \cap There PROVE o \in w.seen \cup sl
      <4>1. c = Len(changes)
        BY <1>5, <3>3
      <4>2. PICK i \in ChangesOf(o) : changes[i].what = "created" /\ i <= c
        BY <1>4, <3>3, ChangeFacts
      <4>3. i \in Nat /\ o \in Objects
        BY <1>4, <3>3, ChangeFacts
      <4>4. CASE i <= pass.queried
        <5>1. o \in Made(pass.queried)
          BY <1>4, <4>2, <4>3, <4>4, ChangeFacts
        <5>2. Made(pass.queried) \cap There \subseteq w.seen
          BY <1>1, <1>4, <3>1, <3>3 DEF PageHolds
        <5> QED
          BY <3>3, <5>1, <5>2
      <4>5. CASE i > pass.queried
        <5>1. o \in sl
          BY <1>6, <3>3, <4>2, <4>5
        <5> QED
          BY <5>1
      <4> QED
        BY <1>4, <4>3, <4>4, <4>5
    <3>4. pass'.walk.pages = 1 => Made(pass.cursor)' \cap There' \subseteq pass'.walk.seen \cup pass'.slipped
      BY <1>12, <1>14, <1>18, <3>3
    <3>5. pass'.walk.pages > 0 /\ pass'.stage # "get"
      BY <1>12, <2>2, <3>1
    <3> QED
      BY <3>2, <3>4, <3>5 DEF SettleHolds
  <2> QED
    BY <1>10, <2>1, <2>2
<1>20. DeltaHolds'
  BY <1>10, <1>12 DEF DeltaHolds
<1>21. (order' = "Fixed" /\ pass'.stage \notin {"settle", "get"}) => pass'.got = Unsaid'
  BY <1>3, <1>12 DEF Unsaid, Objects
<1>22. pass'.stage \in {"settle", "walk"} /\ pass'.asked = {}
  BY <1>10, <1>12
<1> QED
  BY <1>14, <1>16, <1>17, <1>19, <1>20, <1>21, <1>22 DEF JmapInv

-------------------------------------------------------------------------------
(* A pass settles *)

\* The pass ends with everything that was there at its first page, and still is.
LEMMA SnapshotEnds ==
  ASSUME JmapInv, pass.stage \in {"settle", "get"}, NEW said \in Versions, NEW present,
         NEW slips \in SUBSET Objects, EndSnapshot(said, present, slips), Resting,
         \A o \in pass.walk.seen : o \in present /\ said[o] = -1,
         \A o \in Objects : (o \in present /\ o \notin pass.walk.seen) => (o \in There /\ said[o] = Current(o)),
         pass.slipped \cap pass.walk.seen \subseteq slips,
         Made(pass.cursor) \cap There \subseteq present \cup slips
  PROVE  JmapInv'
<1> DEFINE tell == [o \in Objects |-> IF o \in present THEN said[o] ELSE 0]
<1>0. /\ JmapTypeOK /\ LogSound /\ WalkHolds /\ pass.cursor \in Nat /\ pass.cursor <= Len(changes)
      /\ jmapFaults \in Nat /\ pass.asked = {}
  BY InvParts
<1>1. tell \in Versions
  <2>1. \A o \in Objects : (IF o \in present THEN said[o] ELSE 0) \in Nat \cup {-1}
    BY DEF Versions
  <2> QED
    BY <2>1 DEF Versions
<1>2. \A o \in Objects : tell[o] = IF o \in present THEN said[o] ELSE 0
  OBVIOUS
<1>3. /\ End(tell, pass.cursor) /\ slipped' = slips
      /\ UNCHANGED <<order, ranking, late, changes, counts, jmapFaults>>
  BY DEF EndSnapshot, Resting
<1> HIDE DEF tell
<1>4. Vouches(Over(tell, Passing), pass.cursor, slips)
  <2> SUFFICES ASSUME NEW o \in Objects \ slips
               PROVE  /\ (\A i \in ChangesOf(o) : i <= pass.cursor) => Over(tell, Passing)[o] = Current(o)
                      /\ o \in Made(pass.cursor) \cap There => Over(tell, Passing)[o] > 0
    BY DEF Vouches
  <2>1. Over(tell, Passing)[o] = IF tell[o] = -1 THEN Passing[o] ELSE tell[o]
    BY OverFacts
  <2>2. CASE o \in pass.walk.seen
    <3>1. Over(tell, Passing)[o] = Passing[o]
      BY <1>2, <2>1, <2>2
    <3>2. o \in pass.walk.seen \ pass.asked /\ o \notin pass.slipped
      BY <1>0, <2>2
    <3> QED
      BY <1>0, <3>1, <3>2 DEF WalkHolds
  <2>3. CASE o \in present /\ o \notin pass.walk.seen
    <3>1. o \in There /\ tell[o] = Current(o)
      BY <1>2, <2>3
    <3>2. Current(o) \in Nat /\ Current(o) > 0
      BY <1>0, <3>1, CurrentPositive
    <3> QED
      BY <2>1, <3>1, <3>2
  <2>4. CASE o \notin present
    <3>1. Over(tell, Passing)[o] = 0
      BY <1>2, <2>1, <2>4
    <3>2. o \notin Made(pass.cursor) \cap There
      BY <2>4
    <3>3. ASSUME \A i \in ChangesOf(o) : i <= pass.cursor PROVE o \notin There
      <4> SUFFICES ASSUME o \in There PROVE FALSE
        OBVIOUS
      <4>1. o \in Made(Len(changes))
        BY <1>0 DEF LogSound
      <4>2. o \in Made(pass.cursor)
        BY <3>3, <4>1 DEF Made
      <4> QED
        BY <3>2, <4>2
    <3> QED
      BY <3>1, <3>2, <3>3 DEF Current
  <2> QED
    BY <2>2, <2>3, <2>4
<1> QED
  BY <1>0, <1>1, <1>3, <1>4, EndHolds

\* A walk of one page ends the pass.
LEMMA WalkAloneHolds ==
  ASSUME JmapInv, WalkAlone
  PROVE  JmapInv'
<1>1. /\ pass.stage = "settle" /\ pass.walk.pages <= 1
      /\ EndSnapshot(Unsaid, pass.walk.seen, pass.slipped) /\ Resting
  BY DEF WalkAlone
<1>2. /\ SettleHolds /\ pass.walk.pages \in Nat /\ pass.walk.seen \subseteq Objects
      /\ pass.slipped \in SUBSET Objects
  BY InvParts, PassFields DEF Walks
<1>3. pass.walk.pages = 1
  BY <1>1, <1>2 DEF SettleHolds
<1>4. Made(pass.cursor) \cap There \subseteq pass.walk.seen \cup pass.slipped
  BY <1>1, <1>2, <1>3 DEF SettleHolds
<1>5. Unsaid \in Versions /\ \A o \in Objects : Unsaid[o] = -1
  BY IdleFacts DEF Unsaid
<1>6. \A o \in pass.walk.seen : o \in pass.walk.seen /\ Unsaid[o] = -1
  BY <1>2, <1>5
<1>7. PICK s, r, g : s = Unsaid /\ r = pass.walk.seen /\ g = pass.slipped
  OBVIOUS
<1>8. /\ s \in Versions /\ g \in SUBSET Objects /\ EndSnapshot(s, r, g)
      /\ \A o \in pass.walk.seen : o \in r /\ s[o] = -1
      /\ \A o \in Objects : (o \in r /\ o \notin pass.walk.seen) => (o \in There /\ s[o] = Current(o))
      /\ pass.slipped \cap pass.walk.seen \subseteq g
      /\ Made(pass.cursor) \cap There \subseteq r \cup g
  BY <1>1, <1>2, <1>4, <1>5, <1>6, <1>7
<1> QED
  BY <1>1, <1>8, SnapshotEnds

\* What a listing has and the walk missed is fetched, and the pass ends.
LEMMA GetMissedHolds ==
  ASSUME JmapInv, GetMissed
  PROVE  JmapInv'
<1> DEFINE missed == pass.listing.seen \ pass.walk.seen
           present == pass.walk.seen \cup (missed \cap There)
           slips == pass.slipped \cap pass.walk.seen
<1>1. pass.stage = "get" /\ EndSnapshot(Fetch(missed), present, slips) /\ Resting
  BY DEF GetMissed
<1>2. SettleHolds /\ pass.walk.seen \subseteq Objects
  BY InvParts, PassFields DEF Walks
<1>3. Made(pass.cursor) \cap There \subseteq present
  BY <1>1, <1>2 DEF SettleHolds
<1>4. /\ Fetch(missed) \in Versions
      /\ \A o \in Objects : Fetch(missed)[o] = IF o \in missed /\ o \in There THEN Current(o) ELSE -1
  BY FetchTruthful
<1>5. \A o \in pass.walk.seen : o \in present /\ Fetch(missed)[o] = -1
  BY <1>2, <1>4
<1>6. \A o \in Objects :
        (o \in present /\ o \notin pass.walk.seen) => (o \in There /\ Fetch(missed)[o] = Current(o))
  BY <1>4
<1>7. PICK s, r, g : s = Fetch(missed) /\ r = present /\ g = slips
  OBVIOUS
<1>10. slips \in SUBSET Objects /\ pass.slipped \cap pass.walk.seen \subseteq slips
  BY <1>2
<1> HIDE DEF missed, present, slips
<1>8. /\ EndSnapshot(s, r, g) /\ s \in Versions /\ Made(pass.cursor) \cap There \subseteq r \cup g
      /\ g \in SUBSET Objects /\ pass.slipped \cap pass.walk.seen \subseteq g
  BY <1>1, <1>3, <1>4, <1>7, <1>10
<1>9. /\ \A o \in pass.walk.seen : o \in r /\ s[o] = -1
      /\ \A o \in Objects : (o \in r /\ o \notin pass.walk.seen) => (o \in There /\ s[o] = Current(o))
  BY <1>5, <1>6, <1>7
<1> QED
  BY <1>1, <1>8, <1>9, SnapshotEnds

-------------------------------------------------------------------------------

\* A page of a listing leaves the walk as it was.
LEMMA SettleKept ==
  ASSUME JmapInv, pass.stage = "settle", pass' \in Passes,
         pass'.stage \in {"settle", "get"}, pass'.since = pass.since, pass'.cursor = pass.cursor,
         pass'.got = pass.got, pass'.walk = pass.walk, pass'.slipped = pass.slipped,
         pass'.asked = pass.asked, UNCHANGED <<jmapCursor, held, slipped>>, Resting,
         pass'.stage = "settle" => ListingHolds',
         pass'.stage = "get" =>
           Made(pass.cursor) \cap There \subseteq pass.walk.seen \cup pass'.listing.seen
  PROVE  JmapInv'
<1>1. UNCHANGED <<order, ranking, late, changes, counts, jmapFaults, jmapCursor, held, slipped>>
  BY DEF Resting
<1>2. /\ WalkHolds /\ SettleHolds /\ NoneLate /\ pass.asked = {}
  BY InvParts DEF SettleHolds
<1>3. held' \in [Objects -> Nat] /\ pass'.since <= Len(changes) /\ pass'.cursor <= Len(changes)
  BY <1>1, InvParts
<1>4. /\ JmapTypeOK' /\ LogSound' /\ late' \subseteq There' /\ StatesPast' /\ CursorHolds'
      /\ There' = There /\ Made(Len(changes))' = Made(Len(changes))
      /\ \A s : Made(s)' = Made(s)
      /\ \A o : ChangesOf(o)' = ChangesOf(o) /\ Current(o)' = Current(o)
  BY <1>1, <1>3, RestKept
<1>5. Made(pass.cursor)' = Made(pass.cursor)
  <2>1. PICK n : n = pass.cursor
    OBVIOUS
  <2>2. pass'.cursor = n
    BY <2>1
  <2> QED
    BY <2>1, <2>2, <1>4 DEF Made, Objects
<1>6. Passing' = Passing
  BY <1>1 DEF Passing, Over, Objects
<1>7. WalkHolds'
  <2>1. \A o \in pass'.walk.seen \ pass'.asked :
          /\ o \in There' => Passing'[o] > 0
          /\ (o \notin pass'.slipped /\ \A i \in ChangesOf(o)' : i <= pass'.cursor) => Passing'[o] = Current(o)'
    BY <1>2, <1>4, <1>6 DEF WalkHolds
  <2>2. order' = "Fixed" =>
          \A o \in late' \ pass'.walk.seen :
            \A k \in DOMAIN pass'.walk.trail : Precedes(ranking', pass'.walk.trail[k], o)
    BY <1>1, <1>2 DEF WalkHolds
  <2>3. \A o \in pass'.walk.seen : o \in Made(Len(changes))'
    BY <1>2, <1>4 DEF WalkHolds
  <2>4. /\ pass'.walk.pages = 0 => pass'.walk.trail = <<>> /\ pass'.walk.seen = {}
        /\ \A k \in DOMAIN pass'.walk.trail : pass'.walk.trail[k] \in pass'.walk.seen
    BY <1>2 DEF WalkHolds
  <2> QED
    BY <2>1, <2>2, <2>3, <2>4 DEF WalkHolds, Precedes
<1>8. NoneLate'
  BY <1>1, <1>2, <1>4, <1>5 DEF NoneLate
<1>9. SettleHolds'
  <2>1. pass'.walk.pages > 0
    BY <1>2 DEF SettleHolds
  <2>2. pass'.walk.pages = 1 => Made(pass.cursor)' \cap There' \subseteq pass'.walk.seen \cup pass'.slipped
    BY <1>2, <1>4, <1>5 DEF SettleHolds
  <2>3. pass'.stage = "get" =>
          Made(pass.cursor)' \cap There' \subseteq pass'.walk.seen \cup pass'.listing.seen
    BY <1>4, <1>5
  <2> QED
    BY <1>8, <2>1, <2>2, <2>3 DEF SettleHolds
<1>10. DeltaHolds'
  BY DEF DeltaHolds
<1> QED
  BY <1>2, <1>4, <1>7, <1>9, <1>10 DEF JmapInv

\* Under a query that holds still, a page goes on where the last one ended.
LEMMA ListedFacts ==
  ASSUME Ranked, counts \in BOOLEAN, pass.listing \in Walks, ListingHolds,
         NEW limit \in Nat \ {0}, NEW w, w = Paged(pass.listing, limit), w.steady
  PROVE  /\ w.queryState = ranking
         /\ Len(w.trail) <= Len(ranking)
         /\ \A k \in DOMAIN w.trail : w.trail[k] \in w.seen /\ w.trail[k] = ranking[k]
         /\ w.done => There \subseteq w.seen
<1>1. PICK l, ids, t, at :
        l = pass.listing /\ ids = PageIds(l, limit) /\ t = l.trail /\ at = Position(l)
  OBVIOUS
<1>2. PageAdds(l, w, ids)
  BY <1>1, PagedFacts
<1>3. /\ at \in 0..Len(ranking) /\ ids \in Seq(Objects) /\ Len(ids) \in Nat
      /\ at + Len(ids) <= Len(ranking)
      /\ \A k \in 1..Len(ids) : ids[k] = ranking[at + k]
  <2>1. PageOf(limit, ids, at)
    BY <1>1, PageFacts
  <2> QED
    BY <2>1 DEF PageOf
<1>4. /\ w.queryState = ranking /\ l.steady /\ (l.pages # 0 => l.queryState = ranking)
  BY <1>2 DEF PageAdds
<1>5. /\ w.trail = t \o ids
      /\ \A o : o \in w.seen <=> (o \in l.seen \/ \E k \in 1..Len(ids) : ids[k] = o)
      /\ w.done => at + Len(ids) = Len(ranking)
  BY <1>1, <1>2 DEF PageAdds
<1>6. t \in Seq(Objects) /\ Len(t) \in Nat /\ DOMAIN t = 1..Len(t)
  BY <1>1 DEF Walks
<1>7. DOMAIN ranking = 1..Len(ranking) /\ Len(ranking) \in Nat /\ NoTwice(ranking)
      /\ (\A i \in 1..Len(ranking) : ranking[i] \in There)
      /\ (\A o \in There : \E i \in 1..Len(ranking) : ranking[i] = o)
  BY Ranks DEF Ranked
<1>8. /\ Len(t) <= Len(ranking)
      /\ \A k \in 1..Len(t) : t[k] = ranking[k] /\ t[k] \in l.seen
  <2>1. CASE l.pages = 0
    <3>1. t = <<>>
      BY <1>1, <2>1 DEF ListingHolds
    <3>2. Len(t) = 0
      BY <3>1
    <3> QED
      BY <1>7, <3>2
  <2>2. CASE l.pages # 0
    BY <1>1, <1>4, <1>6, <2>2 DEF ListingHolds
  <2> QED
    BY <2>1, <2>2
<1>9. at = Len(t)
  <2>1. CASE t = <<>>
    <3>1. at = 0
      BY <1>1, <2>1, PositionFacts
    <3> QED
      BY <2>1, <3>1
  <2>2. CASE t # <<>>
    <3>1. Len(t) # 0
      BY <1>6, <2>2
    <3>2. Len(t) \in 1..Len(t) /\ Len(t) \in 1..Len(ranking)
      BY <1>6, <1>7, <1>8, <3>1
    <3>3. t[Len(t)] = ranking[Len(t)] /\ t[Len(t)] \in There
      BY <1>7, <1>8, <3>2
    <3>4. at > 0 /\ ranking[at] = t[Len(t)]
      BY <1>1, <2>2, <3>3, PositionFacts
    <3>5. at \in 1..Len(ranking)
      BY <1>3, <1>7, <3>4
    <3> QED
      BY <1>7, <3>2, <3>3, <3>4, <3>5 DEF NoTwice
  <2> QED
    BY <2>1, <2>2
<1>10. /\ Len(w.trail) = Len(t) + Len(ids) /\ w.trail \in Seq(Objects)
       /\ \A i \in 1..Len(t) : w.trail[i] = t[i]
       /\ \A i \in 1..Len(ids) : w.trail[Len(t) + i] = ids[i]
  BY <1>3, <1>5, <1>6, Joined
<1>11. DOMAIN w.trail = 1..(Len(t) + Len(ids))
  BY <1>10
<1>12. ASSUME NEW k \in DOMAIN w.trail PROVE w.trail[k] \in w.seen /\ w.trail[k] = ranking[k]
  <2>1. CASE k <= Len(t)
    <3>1. k \in 1..Len(t)
      BY <1>3, <1>6, <1>11, <2>1
    <3> QED
      BY <1>5, <1>8, <1>10, <3>1
  <2>2. CASE k > Len(t)
    <3>1. PICK n, m : n = Len(t) /\ m = Len(ids)
      OBVIOUS
    <3>2. n \in Nat /\ m \in Nat /\ k \in 1..(n + m) /\ k > n
      BY <1>3, <1>6, <1>11, <2>2, <3>1
    <3>3. k - n \in 1..m /\ n + (k - n) = k
      BY <3>2
    <3>4. w.trail[n + (k - n)] = ids[k - n] /\ ids[k - n] = ranking[n + (k - n)]
      BY <1>3, <1>9, <1>10, <3>1, <3>3
    <3> QED
      BY <1>5, <3>1, <3>3, <3>4
  <2> QED
    BY <1>6, <1>3, <1>11, <2>1, <2>2
<1>13. ASSUME w.done, NEW o \in There PROVE o \in w.seen
  <2>1. PICK i \in 1..Len(ranking) : ranking[i] = o
    BY <1>7
  <2>2. i \in DOMAIN w.trail
    BY <1>5, <1>9, <1>11, <1>13
  <2> QED
    BY <1>12, <2>1, <2>2
<1>14. Len(w.trail) <= Len(ranking)
  BY <1>3, <1>9, <1>10
<1> QED
  BY <1>4, <1>12, <1>13, <1>14

\* A page of a listing: it goes on, is done, is begun again, or is given up.
LEMMA ListingPagedHolds ==
  ASSUME JmapInv, ListingPaged
  PROVE  JmapInv'
<1>1. PICK limit, w : limit = Max({ListingPage, WalkLimit}) /\ w = Paged(pass.listing, limit)
  OBVIOUS
<1> DEFINE again == [pass EXCEPT !.listing = NewWalk, !.tries = pass.tries + 1]
           on == [pass EXCEPT !.listing = w, !.stage = IF w.done THEN "get" ELSE @]
           moved == w.lost \/ (w.done /\ ~Holds(w))
<1>2. /\ pass.stage = "settle" /\ pass.walk.pages > 1
      /\ UNCHANGED <<jmapCursor, held, slipped>> /\ Resting
      /\ pass' = IF moved
                    THEN IF order = "Fixed" \/ pass.tries + 1 >= Listings THEN JmapIdle ELSE again
                    ELSE on
  BY <1>1 DEF ListingPaged
<1>3. UNCHANGED <<order, ranking, late, changes, counts, jmapFaults, jmapCursor, held, slipped>>
  BY <1>2 DEF Resting
<1>4. limit \in Nat \ {0}
  <2>1. PICK n \in Nat : n = ListingPage + WalkLimit
    BY JmapWalkAssumption
  <2>2. PICK S : S = {ListingPage, WalkLimit}
    OBVIOUS
  <2>3. S \in SUBSET (0..n) /\ S # {} /\ WalkLimit \in S
    BY <2>1, <2>2, JmapWalkAssumption
  <2>4. Max(S) \in S /\ \A y \in S : y <= Max(S)
    BY <2>3, GreatestOf
  <2>5. WalkLimit <= Max(S)
    BY <2>3, <2>4
  <2>6. Max(S) \in 0..n
    BY <2>3, <2>4
  <2>7. Max(S) \in Nat
    BY <2>1, <2>6
  <2> QED
    BY <1>1, <2>2, <2>5, <2>7, JmapWalkAssumption
<1>5. /\ Ranked /\ counts \in BOOLEAN /\ pass.listing \in Walks /\ ListingHolds /\ pass \in Passes
      /\ SettleHolds /\ pass.tries \in Nat /\ order \in {"Fixed", "Server"}
  BY <1>2, InvParts, PassFields
<1>6. /\ w \in Walks /\ w.pages = pass.listing.pages + 1 /\ pass.listing.pages \in Nat
      /\ pass.listing.seen \subseteq w.seen
      /\ \A o \in w.seen : o \in pass.listing.seen \/ o \in There
      /\ \A k \in DOMAIN w.trail : w.trail[k] \in w.seen
  <2>1. PICK l : l = pass.listing
    OBVIOUS
  <2>2. l \in Walks /\ w = Paged(l, limit) /\ l.pages \in Nat
    BY <1>1, <1>5, <2>1 DEF Walks
  <2>3. \A k \in DOMAIN l.trail : l.trail[k] \in l.seen
    BY <1>5, <2>1 DEF ListingHolds
  <2> QED
    BY <1>4, <1>5, <2>1, <2>2, <2>3, PageGrows
<1>11. ASSUME order = "Fixed",
              NEW o \in (Made(pass.cursor) \cap There) \ (pass.walk.seen \cup w.seen)
       PROVE  ~w.done /\ \A k \in DOMAIN w.trail : Precedes(ranking, w.trail[k], o)
  <2>1. o \in (Made(pass.cursor) \cap There) \ (pass.walk.seen \cup pass.listing.seen)
    BY <1>6
  <2>2. pass.walk.pages # 1
    BY <1>2
  <2>3. \A k \in DOMAIN pass.listing.trail : Precedes(ranking, pass.listing.trail[k], o)
    BY <1>5, <1>11, <2>1, <2>2 DEF ListingHolds
  <2> QED
    BY <1>1, <1>4, <1>5, <2>3, PageFollows
<1>12. /\ There' = There /\ Made(Len(changes))' = Made(Len(changes))
       /\ \A s : Made(s)' = Made(s)
  <2>1. There' = There /\ \A s : Made(s)' = Made(s)
    BY <1>3, ServerSame
  <2>2. PICK n : n = Len(changes)
    OBVIOUS
  <2>3. Len(changes') = n
    BY <1>3, <2>2
  <2> QED
    BY <2>1, <2>2, <2>3 DEF Made, Objects
<1>7. w.steady =>
        /\ w.queryState = ranking /\ Len(w.trail) <= Len(ranking)
        /\ \A k \in DOMAIN w.trail : w.trail[k] \in w.seen /\ w.trail[k] = ranking[k]
        /\ w.done => There \subseteq w.seen
  BY <1>1, <1>4, <1>5, ListedFacts
<1>8. CASE pass' = JmapIdle
  <2>1. jmapCursor > 0 => Vouches(held, jmapCursor, slipped)
    BY InvParts DEF CursorHolds
  <2>2. /\ jmapFaults' \in Nat /\ held' \in [Objects -> Nat] /\ jmapCursor' \in Nat
        /\ jmapCursor' <= Len(changes) /\ slipped' \in SUBSET Objects
    BY <1>3, InvParts
  <2> QED
    BY <1>3, <1>8, <2>1, <2>2, IdleHolds
<1>9. CASE pass' = again
  <2>1. /\ pass' \in Passes /\ pass'.stage = "settle" /\ pass'.since = pass.since
        /\ pass'.cursor = pass.cursor /\ pass'.got = pass.got /\ pass'.walk = pass.walk
        /\ pass'.slipped = pass.slipped /\ pass'.asked = pass.asked /\ pass'.listing = NewWalk
    <3>1. PICK n \in Nat, l \in Walks : n = pass.tries + 1 /\ l = NewWalk
      BY <1>5, NewWalkType
    <3>2. pass' = [pass EXCEPT !.listing = l, !.tries = n]
      BY <1>9, <3>1
    <3> QED
      BY <1>2, <1>5, <3>1, <3>2 DEF Passes
  <2>2. NewWalk.trail = <<>> /\ NewWalk.queryState = <<>> /\ NewWalk.seen = {}
    BY DEF NewWalk
  <2>3. ListingHolds'
    BY <2>1, <2>2 DEF ListingHolds, NewWalk
  <2> HIDE DEF again
  <2> QED
    BY <1>2, <2>1, <2>3, SettleKept
<1>10. CASE pass' = on /\ ~moved
  <2>1. /\ pass' \in Passes /\ pass'.since = pass.since
        /\ pass'.cursor = pass.cursor /\ pass'.got = pass.got /\ pass'.walk = pass.walk
        /\ pass'.slipped = pass.slipped /\ pass'.asked = pass.asked
        /\ pass'.listing = w /\ pass'.stage = IF w.done THEN "get" ELSE "settle"
    <3>1. (IF w.done THEN "get" ELSE pass.stage) \in JmapStages
      BY <1>2 DEF JmapStages
    <3> QED
      BY <1>2, <1>5, <1>6, <1>10, <3>1 DEF Passes
  <2>2. ListingHolds'
    <3>1. w.pages # 0 /\ pass'.stage \notin {"walk", "page"}
      BY <1>6, <2>1
    <3>2. \A o \in pass'.listing.seen : o \in Made(Len(changes))'
      BY <1>5, <1>6, <1>12, <2>1, MadeThere DEF ListingHolds
    <3>3. Made(pass.cursor)' = Made(pass.cursor)
      <4>1. PICK n : n = pass.cursor
        OBVIOUS
      <4>2. pass'.cursor = n
        BY <2>1, <4>1
      <4> QED
        BY <4>1, <4>2, <1>12 DEF Made, Objects
    <3>4. order' = "Fixed" =>
            \A o \in (Made(pass.cursor)' \cap There') \ (pass'.walk.seen \cup pass'.listing.seen) :
              \A k \in DOMAIN pass'.listing.trail : Precedes(ranking', pass'.listing.trail[k], o)
      BY <1>3, <1>11, <1>12, <2>1, <3>3
    <3>5. pass'.listing.steady =>
            /\ Len(pass'.listing.trail) <= Len(pass'.listing.queryState)
            /\ \A k \in DOMAIN pass'.listing.trail :
                 pass'.listing.trail[k] = pass'.listing.queryState[k]
      BY <1>7, <2>1
    <3> QED
      BY <1>6, <2>1, <3>1, <3>2, <3>4, <3>5 DEF ListingHolds, Precedes
  <2>3. ASSUME w.done PROVE Made(pass.cursor) \cap There \subseteq pass.walk.seen \cup w.seen
    <3>1. CASE order = "Fixed"
      BY <1>11, <2>3, <3>1
    <3>2. CASE w.steady
      BY <1>7, <2>3, <3>2
    <3> QED
      BY <1>10, <2>3, <3>1, <3>2 DEF Holds
  <2>4. pass'.stage \in {"settle", "get"} /\ (pass'.stage = "get" => w.done)
    BY <2>1
  <2> HIDE DEF on, moved
  <2>5. pass'.stage = "get" => Made(pass.cursor) \cap There \subseteq pass.walk.seen \cup pass'.listing.seen
    BY <2>1, <2>3, <2>4
  <2> QED
    BY <1>2, <2>1, <2>2, <2>4, <2>5, SettleKept
<1> QED
  BY <1>2, <1>8, <1>9, <1>10

-------------------------------------------------------------------------------

\* The invariant holds of a new account.
LEMMA JmapInitHolds ==
  ASSUME JmapInit
  PROVE  JmapInv
<1>1. /\ order \in {"Fixed", "Server"} /\ counts \in BOOLEAN /\ jmapCursor = 0
      /\ held = [o \in Objects |-> 0] /\ pass = JmapIdle /\ jmapFaults = 0
      /\ late = {} /\ slipped = {}
      /\ ranking = [i \in 1..FirstObjects |-> i]
      /\ changes = [i \in 1..FirstObjects |-> [obj |-> i, what |-> "created"]]
  BY JmapWalkAssumption DEF JmapInit
<1>2. /\ FirstObjects \in Nat /\ MaxObjects \in Nat /\ FirstObjects \in 0..MaxObjects
      /\ \A i \in 1..FirstObjects : i \in Objects
  BY JmapWalkAssumption DEF Objects
<1>3. /\ ranking \in Seq(Objects) /\ Len(ranking) = FirstObjects /\ DOMAIN ranking = 1..FirstObjects
      /\ \A i \in 1..FirstObjects : ranking[i] = i
  BY <1>1, <1>2
<1>4. \A i \in 1..FirstObjects : [obj |-> i, what |-> "created"] \in Entries
  BY <1>2 DEF Entries, Whats
<1>5. /\ changes \in Seq(Entries) /\ Len(changes) = FirstObjects /\ DOMAIN changes = 1..FirstObjects
      /\ \A i \in 1..FirstObjects : changes[i].obj = i /\ changes[i].what = "created"
  BY <1>1, <1>2, <1>4
<1>6. JmapTypeOK
  <2>1. held \in [Objects -> Nat]
    BY <1>1
  <2> QED
    BY <1>1, <1>3, <1>5, <2>1, IdleFacts DEF JmapTypeOK
<1>7. \A o, i : i \in ChangesOf(o) <=> (i \in 1..FirstObjects /\ o = i)
  BY <1>5 DEF ChangesOf
<1>8. \A o : o \in Made(Len(changes)) <=> o \in 1..FirstObjects
  BY <1>2, <1>5, <1>7 DEF Made
<1>9. \A o : o \in There <=> o \in 1..FirstObjects
  BY <1>3 DEF There
<1>10. LogSound
  <2>1. Made(Len(changes)) = 1..FirstObjects
    BY <1>8
  <2>2. \A o \in Objects : \A i \in ChangesOf(o) : \E j \in ChangesOf(o) : j <= i /\ changes[j].what = "created"
    BY <1>2, <1>5, <1>7
  <2>3. \A o, i : i \in ChangesOf(o) => changes[i].what = "created"
    BY <1>5, <1>7
  <2>4. NoTwice(ranking)
    BY <1>3 DEF NoTwice
  <2> QED
    BY <1>2, <1>8, <1>9, <2>1, <2>2, <2>3, <2>4 DEF LogSound
<1>11. StatesPast
  BY <1>1, <1>2, <1>5, IdleFacts DEF StatesPast
<1>12. CursorHolds
  BY <1>1 DEF CursorHolds
<1>13. pass.stage = "idle" /\ pass.got = Unsaid /\ pass.asked = {} /\ late \subseteq There
  BY <1>1, IdleFacts
<1> QED
  BY <1>6, <1>10, <1>11, <1>12, <1>13 DEF JmapInv, DeltaHolds, SettleHolds

\* The invariant is inductive.
LEMMA JmapStep ==
  ASSUME JmapInv, [JmapNext]_jmapVars
  PROVE  JmapInv'
<1>1. CASE UNCHANGED jmapVars
  <2>1. UNCHANGED <<order, ranking, late, changes, counts, jmapCursor, held, slipped, pass, jmapFaults>>
    BY <1>1 DEF jmapVars
  <2>2. /\ There' = There /\ \A o : ChangesOf(o)' = ChangesOf(o) /\ Current(o)' = Current(o)
        /\ \A s : Made(s)' = Made(s)
    BY <2>1, ServerSame
  <2>3. /\ Made(Len(changes))' = Made(Len(changes)) /\ Made(pass.cursor)' = Made(pass.cursor)
        /\ Made(pass.queried)' = Made(pass.queried)
    BY <2>1, <2>2 DEF Made, Objects
  <2>4. Passing' = Passing /\ Unsaid' = Unsaid
    BY <2>1 DEF Passing, Over, Objects, Unsaid
  <2>5. JmapTypeOK' /\ LogSound' /\ StatesPast' /\ late' \subseteq There'
    BY <2>1, <2>2, InvParts, ServerSame DEF JmapTypeOK, StatesPast
  <2>6. CursorHolds' /\ DeltaHolds'
    <3>1. Vouches(held, jmapCursor, slipped)' <=> Vouches(held, jmapCursor, slipped)
      BY <2>1, <2>2, <2>4 DEF Vouches, Made, Objects
    <3>2. Vouches(Passing, pass.since, slipped)' <=> Vouches(Passing, pass.since, slipped)
      BY <2>1, <2>2, <2>4 DEF Vouches, Made, Objects
    <3> QED
      BY <2>1, <3>1, <3>2, InvParts DEF CursorHolds, DeltaHolds
  <2>7. WalkHolds => WalkHolds'
    BY <2>1, <2>2, <2>3, <2>4 DEF WalkHolds, Precedes
  <2>8. ListingHolds => ListingHolds'
    BY <2>1, <2>2, <2>3 DEF ListingHolds, Precedes
  <2>9. NoneLate <=> NoneLate'
    BY <2>1, <2>2, <2>3 DEF NoneLate
  <2>10. SettleHolds'
    BY <2>1, <2>2, <2>3, <2>9, InvParts DEF SettleHolds
  <2>11. PageHolds => PageHolds'
    BY <2>1, <2>2, <2>3, <2>9 DEF PageHolds
  <2> QED
    BY <2>1, <2>4, <2>5, <2>6, <2>7, <2>8, <2>10, <2>11, InvParts DEF JmapInv
<1>2. CASE ServerChanges \/ ServerSorts
  BY <1>2, ServerStepHolds
<1>3. CASE StartJmap
  BY <1>3, StartJmapHolds
<1>4. ASSUME NEW len \in pass.since..Len(changes), ChangesPage(len) PROVE JmapInv'
  BY <1>4, ChangesPageHolds
<1>5. CASE CannotCalculate
  BY <1>5, CannotCalculateHolds
<1>6. CASE WalkQuery
  BY <1>6, WalkQueryHolds
<1>7. CASE WalkGet
  BY <1>7, WalkGetHolds
<1>8. CASE WalkAlone
  BY <1>8, WalkAloneHolds
<1>9. CASE ListingPaged
  BY <1>9, ListingPagedHolds
<1>10. CASE GetMissed
  BY <1>10, GetMissedHolds
<1>11. CASE JmapStops
  BY <1>11, JmapStopsHolds
<1> QED
  BY <1>1, <1>2, <1>3, <1>4, <1>5, <1>6, <1>7, <1>8, <1>9, <1>10, <1>11 DEF JmapNext

\* However objects are created, moved, updated and destroyed between the requests of a
\* JMAP pass and between the query and the get of one, and sorted into place with no state
\* to show it, at every page size, in either order and with or without the query's total,
\* a recorded state vouches for what is stored, but for what slipped between the two
\* calls of a walk's first page (settle, next and paged_delta).
THEOREM JmapCursorVouches == JmapSpec => []JmapCurrent
<1>1. JmapInit => JmapInv
  BY JmapInitHolds
<1>2. JmapInv /\ [JmapNext]_jmapVars => JmapInv'
  BY JmapStep
<1>3. JmapInv => JmapCurrent
  BY InvParts DEF CursorHolds, Vouches, JmapCurrent
<1> QED
  BY <1>1, <1>2, <1>3, PTL DEF JmapSpec
===============================================================================
