--------------------------- MODULE MailFolderProofs ---------------------------
(***************************************************************************)
(* That a folder's cursor vouches for nothing the store does not hold.     *)
(*                                                                         *)
(* The inductive invariant FolderIndInv says what the one pass whose token *)
(* is current still owes: of every message its cursor will cover, that it  *)
(* is stored, or in a chunk not committed yet, or in a group or below a    *)
(* page not fetched yet (PassSound).  Passes that lost the token owe       *)
(* nothing: their commits are refused.                                     *)
(*                                                                         *)
(* The promises are operators of a value Now of what the pass works on,    *)
(* and of the pass, so that a lemma about any two such values serves every *)
(* step: the server's steps are Moves, a prune is Pruned, a commit is      *)
(* Applied, and a fetch leaves Now as it is and changes the pass alone.    *)
(*                                                                         *)
(* That a reconciled cursor leaves no ghost stored needs TidyInv beside    *)
(* it: what the pass has seen, or is about to write, the server had not    *)
(* lost by its SELECT, and no chunk says `reconciled` without tombstones   *)
(* unless the stored cursor says so already.                               *)
(***************************************************************************)
EXTENDS MailFolder, FiniteSetTheorems, SequenceTheorems, TLAPS

-------------------------------------------------------------------------------
(* Quotients: how many batches there are, and which a rank falls in *)

LEMMA DivFacts ==
  ASSUME NEW a \in Nat, NEW n \in Nat \ {0}
  PROVE  /\ a \div n \in Nat
         /\ (a \div n) * n <= a
         /\ a < (a \div n) * n + n
OBVIOUS

LEMMA TimesMonotone ==
  ASSUME NEW a \in Nat, NEW b \in Nat, NEW n \in Nat, a <= b
  PROVE  a * n <= b * n
<1>1. (b - a) \in Nat
  OBVIOUS
<1>2. (b - a) * n >= 0
  BY <1>1
<1>3. (b - a) * n = b * n - a * n
  OBVIOUS
<1> QED
  BY <1>2, <1>3

LEMMA TimesStep ==
  ASSUME NEW a \in Nat, NEW n \in Nat
  PROVE  (a + 1) * n = a * n + n
OBVIOUS

LEMMA DivMonotone ==
  ASSUME NEW a \in Nat, NEW b \in Nat, NEW n \in Nat \ {0}, a <= b
  PROVE  a \div n <= b \div n
<1> DEFINE q == a \div n
           r == b \div n
<1>1. q \in Nat /\ q * n <= a
  BY DivFacts
<1>2. r \in Nat /\ b < r * n + n
  BY DivFacts
<1> HIDE DEF q, r
<1>3. SUFFICES ASSUME r < q PROVE FALSE
  BY <1>1, <1>2 DEF q, r
<1>4. (r + 1) * n <= q * n
  BY <1>1, <1>2, <1>3, TimesMonotone
<1>5. (r + 1) * n = r * n + n
  BY <1>2, TimesStep
<1>6. r * n \in Nat /\ q * n \in Nat
  BY <1>1, <1>2
<1> QED
  BY <1>1, <1>2, <1>4, <1>5, <1>6

\* The number of batches of n that hold c, and the place of the element of rank a.
LEMMA BatchCount ==
  ASSUME NEW c \in Nat, NEW n \in Nat \ {0}
  PROVE  /\ (c + n - 1) \div n \in Nat
         /\ \A a \in 0..(c - 1) : a \div n + 1 \in 1..((c + n - 1) \div n)
         /\ (c + n - 1) \div n <= c \div n + 1
         /\ c \div n <= (c + n - 1) \div n
         /\ \A i \in 1..((c + n - 1) \div n) : (i - 1) * n \in 0..(c - 1)
<1> DEFINE k == (c + n - 1) \div n
<1>1. c + n - 1 \in Nat
  OBVIOUS
<1>2. k \in Nat /\ k * n <= c + n - 1 /\ c + n - 1 < k * n + n
  BY <1>1, DivFacts
<1>3. c \div n <= k
  BY <1>1, DivMonotone
<1>a. k = (c + n - 1) \div n
  OBVIOUS
<1> HIDE DEF k
<1>4. ASSUME NEW a \in 0..(c - 1) PROVE a \div n + 1 \in 1..k
  <2> DEFINE q == a \div n
  <2>1. q \in Nat /\ q * n <= a
    BY DivFacts
  <2> HIDE DEF q
  <2>2. SUFFICES ASSUME k <= q PROVE FALSE
    BY <2>1, <1>2 DEF q
  <2>3. k * n <= q * n
    BY <2>1, <2>2, <1>2, TimesMonotone
  <2>4. k * n \in Nat /\ q * n \in Nat
    BY <2>1, <1>2
  <2> QED
    BY <2>1, <2>3, <2>4, <1>2
<1>5. k <= c \div n + 1
  <2> DEFINE q == c \div n
  <2>1. q \in Nat /\ c < q * n + n
    BY DivFacts
  <2> HIDE DEF q
  <2>2. SUFFICES ASSUME q + 2 <= k PROVE FALSE
    BY <2>1, <1>2 DEF q
  <2>3. (q + 2) * n <= k * n
    BY <2>1, <2>2, <1>2, TimesMonotone
  <2>4. (q + 2) * n = q * n + n + n
    BY <2>1
  <2>5. k * n \in Nat /\ q * n \in Nat
    BY <2>1, <1>2
  <2> QED
    BY <2>1, <2>3, <2>4, <2>5, <1>2
<1>6. ASSUME NEW i \in 1..k PROVE (i - 1) * n \in 0..(c - 1)
  <2>1. i - 1 \in Nat /\ i \in Nat /\ i <= k
    BY <1>2
  <2>2. i * n <= k * n
    BY <2>1, <1>2, TimesMonotone
  <2>3. ((i - 1) + 1) * n = (i - 1) * n + n
    BY <2>1, TimesStep
  <2>4. (i - 1) * n \in Nat /\ i * n \in Nat /\ k * n \in Nat
    BY <2>1, <1>2
  <2>5. (i - 1) + 1 = i
    BY <2>1
  <2>6. i * n = (i - 1) * n + n
    BY <2>3, <2>5
  <2> QED
    BY <2>2, <2>4, <2>6, <1>2
<1> QED
  BY <1>2, <1>3, <1>4, <1>5, <1>6, <1>a

LEMMA DivTimes ==
  ASSUME NEW q \in Nat, NEW n \in Nat \ {0}
  PROVE  (q * n) \div n = q
<1> DEFINE r == (q * n) \div n
<1>1. q * n \in Nat
  OBVIOUS
<1>2. r \in Nat /\ r * n <= q * n /\ q * n < r * n + n
  BY <1>1, DivFacts
<1>a. r = (q * n) \div n
  OBVIOUS
<1> HIDE DEF r
<1>3. r * n \in Nat /\ (r + 1) * n = r * n + n /\ (q + 1) * n = q * n + n
  BY <1>2, TimesStep
<1>4. ~(r + 1 <= q)
  <2>1. (r + 1 <= q) => ((r + 1) * n <= q * n)
    BY <1>2, TimesMonotone
  <2> QED
    BY <2>1, <1>1, <1>2, <1>3
<1>5. ~(q + 1 <= r)
  <2>1. (q + 1 <= r) => ((q + 1) * n <= r * n)
    BY <1>2, TimesMonotone
  <2> QED
    BY <2>1, <1>1, <1>2, <1>3
<1> QED
  BY <1>2, <1>4, <1>5, <1>a

-------------------------------------------------------------------------------
(* The batches of a set of UIDs, newest first *)

Rank(S, u) == Cardinality({v \in S : v > u})

LEMMA UidsFinite ==
  /\ Uids \subseteq Nat /\ IsFiniteSet(Uids) /\ Cardinality(Uids) = MaxUid
  /\ \A S \in SUBSET Uids : IsFiniteSet(S) /\ Cardinality(S) \in 0..MaxUid
<1>1. MaxUid \in Nat
  BY MailFolderAssumption
<1>2. Uids \subseteq Nat
  BY <1>1 DEF Uids
<1>3. IsFiniteSet(Uids) /\ Cardinality(Uids) = MaxUid
  BY <1>1, FS_Interval DEF Uids
<1>4. ASSUME NEW S \in SUBSET Uids PROVE IsFiniteSet(S) /\ Cardinality(S) \in 0..MaxUid
  <2>1. IsFiniteSet(S) /\ Cardinality(S) <= MaxUid
    BY <1>3, FS_Subset
  <2>2. Cardinality(S) \in Nat
    BY <2>1, FS_CardinalityType
  <2> QED
    BY <2>1, <2>2, <1>1
<1> QED
  BY <1>2, <1>3, <1>4

LEMMA RankFacts ==
  ASSUME NEW S \in SUBSET Uids
  PROVE  /\ \A u \in S : Rank(S, u) \in 0..(Cardinality(S) - 1)
         /\ \A u, v \in S : u < v => Rank(S, v) < Rank(S, u)
<1>1. \A u, v \in S : u \in Nat /\ v \in Nat
  BY UidsFinite
<1>2. ASSUME NEW u \in S PROVE Rank(S, u) \in 0..(Cardinality(S) - 1)
  <2> DEFINE T == {v \in S : v > u}
  <2>1. IsFiniteSet(S) /\ Cardinality(S) \in Nat
    BY UidsFinite
  <2>2. T \in SUBSET S /\ T # S
    <3>1. u \notin T
      BY <1>1
    <3> QED
      BY <3>1
  <2> HIDE DEF T
  <2>3. Cardinality(T) <= Cardinality(S) /\ Cardinality(T) # Cardinality(S) /\ IsFiniteSet(T)
    BY <2>1, <2>2, FS_Subset
  <2>4. Cardinality(T) \in Nat
    BY <2>3, FS_CardinalityType
  <2>5. Rank(S, u) = Cardinality(T)
    BY DEF Rank, T
  <2> QED
    BY <2>1, <2>3, <2>4, <2>5
<1>3. ASSUME NEW u \in S, NEW v \in S, u < v PROVE Rank(S, v) < Rank(S, u)
  <2> DEFINE T == {x \in S : x > u}
             W == {x \in S : x > v}
  <2>1. IsFiniteSet(T)
    <3>1. T \in SUBSET Uids
      OBVIOUS
    <3> QED
      BY <3>1, UidsFinite
  <2>2. W \in SUBSET T /\ W # T
    <3>1. v \in T /\ v \notin W
      BY <1>1, <1>3
    <3>2. W \subseteq T
      BY <1>1, <1>3
    <3> QED
      BY <3>1, <3>2
  <2> HIDE DEF T, W
  <2>3. Cardinality(W) <= Cardinality(T) /\ Cardinality(T) # Cardinality(W) /\ IsFiniteSet(W)
    BY <2>1, <2>2, FS_Subset
  <2>4. Cardinality(W) \in Nat /\ Cardinality(T) \in Nat
    BY <2>1, <2>3, FS_CardinalityType
  <2>5. Rank(S, u) = Cardinality(T) /\ Rank(S, v) = Cardinality(W)
    BY DEF Rank, T, W
  <2> QED
    BY <2>3, <2>4, <2>5
<1> QED
  BY <1>2, <1>3

\* Every rank is taken.
LEMMA RankOnto ==
  ASSUME NEW S \in SUBSET Uids, NEW a \in 0..(Cardinality(S) - 1)
  PROVE  \E u \in S : Rank(S, u) = a
<1> DEFINE T == 0..(Cardinality(S) - 1)
           f == [u \in S |-> Rank(S, u)]
<1>1. Cardinality(S) \in Nat /\ IsFiniteSet(S)
  BY UidsFinite
<1>2. IsFiniteSet(T) /\ Cardinality(T) = Cardinality(S)
  BY <1>1, FS_Interval
<1>3. f \in [S -> T]
  BY RankFacts
<1>4. ASSUME NEW u \in S, NEW v \in S, u # v PROVE f[u] # f[v]
  <2>1. u \in Nat /\ v \in Nat
    BY UidsFinite
  <2>2. u < v \/ v < u
    BY <2>1, <1>4
  <2>3. Rank(S, u) \in Nat /\ Rank(S, v) \in Nat
    BY RankFacts
  <2> QED
    BY <2>2, <2>3, RankFacts
<1> HIDE DEF T, f
<1>5. f \in Injection(S, T)
  BY <1>3, <1>4 DEF Injection, IsInjective
<1>6. f \in Surjection(S, T)
  BY <1>2, <1>5, FS_Injection
<1>7. \E u \in S : f[u] = a
  BY <1>6 DEF Surjection, T
<1> QED
  BY <1>7 DEF f

LEMMA SeqOf ==
  ASSUME NEW S, NEW k \in Nat, NEW f \in [1..k -> S]
  PROVE  f \in Seq(S) /\ Len(f) = k
OBVIOUS

LEMMA BatchesFacts ==
  ASSUME NEW S \in SUBSET Uids, NEW n \in Nat \ {0}
  PROVE  /\ Batches(S, n) \in Seq(SUBSET Uids) /\ Len(Batches(S, n)) \in Nat
         /\ Len(Batches(S, n)) = (Cardinality(S) + n - 1) \div n
         /\ \A i \in 1..Len(Batches(S, n)) : Batches(S, n)[i] \subseteq S
         /\ \A u \in S : \E i \in 1..Len(Batches(S, n)) : u \in Batches(S, n)[i]
<1> DEFINE c == Cardinality(S)
           k == (c + n - 1) \div n
           b == Batches(S, n)
<1>1. c \in Nat
  BY UidsFinite
<1>2. k \in Nat /\ \A a \in 0..(c - 1) : a \div n + 1 \in 1..k
  BY <1>1, BatchCount
<1>3. b = [i \in 1..k |-> {u \in S : Rank(S, u) \div n = i - 1}]
  BY DEF Batches, Rank
<1> HIDE DEF c, k, b
<1>4. b \in Seq(SUBSET Uids) /\ Len(b) = k
  <2>1. b \in [1..k -> SUBSET Uids]
    BY <1>3
  <2> QED
    BY <1>2, <2>1
<1>5. \A i \in 1..k : b[i] \subseteq S
  BY <1>3
<1>6. ASSUME NEW u \in S PROVE \E i \in 1..k : u \in b[i]
  <2> DEFINE a == Rank(S, u)
  <2>1. a \in 0..(c - 1) /\ a \in Nat
    BY RankFacts DEF c
  <2>2. a \div n + 1 \in 1..k
    BY <1>2, <2>1
  <2>3. a \div n \in Nat
    BY <2>1, DivFacts
  <2>4. a \div n = (a \div n + 1) - 1
    BY <2>3
  <2>5. u \in b[a \div n + 1]
    BY <1>3, <2>2, <2>4
  <2> QED
    BY <2>2, <2>5
<1> QED
  BY <1>2, <1>4, <1>5, <1>6 DEF b, c, k

LEMMA BatchesDescend ==
  ASSUME NEW S \in SUBSET Uids, NEW n \in Nat \ {0}
  PROVE  /\ \A i \in 1..Len(Batches(S, n)) : Batches(S, n)[i] # {}
         /\ \A i, j \in 1..Len(Batches(S, n)) :
              i < j => \A u \in Batches(S, n)[i], v \in Batches(S, n)[j] : v < u
<1> DEFINE c == Cardinality(S)
           k == (c + n - 1) \div n
           b == Batches(S, n)
<1>1. c \in Nat
  BY UidsFinite
<1>2. k \in Nat /\ \A i \in 1..k : (i - 1) * n \in 0..(c - 1)
  BY <1>1, BatchCount
<1>3. b = [i \in 1..k |-> {u \in S : Rank(S, u) \div n = i - 1}]
  BY DEF Batches, Rank
<1>4. Len(b) = k
  BY BatchesFacts
<1> HIDE DEF k, b
<1>5. ASSUME NEW i \in 1..k PROVE b[i] # {}
  <2>1. (i - 1) * n \in 0..(Cardinality(S) - 1)
    BY <1>2 DEF c
  <2>2. PICK u \in S : Rank(S, u) = (i - 1) * n
    BY <2>1, RankOnto
  <2>3. ((i - 1) * n) \div n = i - 1
    <3>1. i - 1 \in Nat
      BY <1>2
    <3> QED
      BY <3>1, DivTimes
  <2>4. u \in b[i]
    BY <1>3, <2>2, <2>3
  <2> QED
    BY <2>4
<1>6. ASSUME NEW i \in 1..k, NEW j \in 1..k, i < j, NEW u \in b[i], NEW v \in b[j]
      PROVE  v < u
  <2>1. /\ u \in S /\ Rank(S, u) \div n = i - 1
        /\ v \in S /\ Rank(S, v) \div n = j - 1
    BY <1>3
  <2>2. Rank(S, u) \in Nat /\ Rank(S, v) \in Nat
    BY <2>1, RankFacts
  <2>3. u \in Nat /\ v \in Nat
    BY <2>1, UidsFinite
  <2>4. SUFFICES ASSUME u <= v PROVE FALSE
    BY <2>3
  <2>5. Rank(S, v) <= Rank(S, u)
    <3>1. u < v => Rank(S, v) < Rank(S, u)
      BY <2>1, RankFacts
    <3>2. u < v \/ u = v
      BY <2>3, <2>4
    <3> QED
      BY <2>2, <3>1, <3>2
  <2>6. Rank(S, v) \div n <= Rank(S, u) \div n
    BY <2>2, <2>5, DivMonotone
  <2> QED
    BY <2>1, <2>6, <1>6, <1>2
<1> QED
  BY <1>4, <1>5, <1>6 DEF b

LEMMA MinFacts ==
  ASSUME NEW S \in SUBSET Uids, S # {}
  PROVE  Min(S) \in S /\ \A u \in S : Min(S) <= u
<1>1. S \subseteq Nat
  BY UidsFinite
<1>2. PICK m \in S : \A y \in S : ~(<<y, m>> \in OpToRel(<, Nat))
  BY <1>1, NatLessThanWellFounded, WFMin, Zenon
<1>3. \A y \in S : m <= y
  <2>1. \A y \in S : <<y, m>> \in Nat \X Nat /\ <<y, m>>[1] = y /\ <<y, m>>[2] = m
    BY <1>1
  <2>2. \A y \in S : ~(y < m)
    BY <1>2, <2>1 DEF OpToRel
  <2> QED
    BY <1>1, <2>2
<1>4. \E x \in S : \A y \in S : x <= y
  BY <1>3
<1> QED
  BY <1>4 DEF Min

-------------------------------------------------------------------------------
(* Chunks: what a sequence of them carries *)

Versions == [Uids -> 0..MaxModseq]

\* The chunks cs carry whole, patched and removed, spread over them, and only the
\* last may advance the cursor.
Carries(cs, whole, patched, removed, advance, mode) ==
  /\ cs \in Seq(Chunk)
  /\ \A i \in 1..Len(cs) :
       /\ cs[i].removed \subseteq removed
       /\ \A u \in Uids : cs[i].whole[u] \in {0, whole[u]}
       /\ \A u \in Uids : cs[i].patched[u] \in {0, patched[u]}
       /\ cs[i].advance # NoCursor => i = Len(cs) /\ cs[i].advance = advance /\ cs[i].mode = mode
  /\ \A u \in Uids : whole[u] > 0 => \E i \in 1..Len(cs) : cs[i].whole[u] > 0
  /\ \A u \in Uids : patched[u] > 0 => \E i \in 1..Len(cs) : cs[i].patched[u] > 0

LEMMA Constants ==
  /\ MaxUid \in Nat /\ MaxModseq \in Nat /\ MaxModseq >= 1 /\ MaxValidity \in Nat \ {0}
  /\ Nothing \in Versions /\ (\A u \in Uids : Nothing[u] = 0)
  /\ NoCursor \in Cursor
  /\ NoCursor.validity = 0 /\ NoCursor.uidNext = 0 /\ NoCursor.modseq = 0
  /\ NoCursor.low = 0 /\ NoCursor.floor = 0
<1>1. MaxUid \in Nat /\ MaxModseq \in Nat /\ MaxModseq >= 1 /\ MaxValidity \in Nat \ {0}
  BY MailFolderAssumption
<1>2. Nothing \in Versions /\ (\A u \in Uids : Nothing[u] = 0)
  BY <1>1 DEF Nothing, Versions
<1> QED
  BY <1>1, <1>2 DEF NoCursor, Cursor

LEMMA ChunkFields ==
  ASSUME NEW m \in {"Additive", "Reconcile"}, NEW whole \in Versions, NEW patched \in Versions,
         NEW removed \in SUBSET Uids, NEW advance \in Cursor
  PROVE  [mode |-> m, whole |-> whole, patched |-> patched, removed |-> removed,
          advance |-> advance] \in Chunk
BY DEF Chunk, Versions

LEMMA CutsFacts ==
  ASSUME NEW whole \in Versions
  PROVE  /\ Cuts(whole) \in Seq(Versions) /\ Len(Cuts(whole)) \in Nat
         /\ \A i \in 1..Len(Cuts(whole)) : Cuts(whole)[i] \in Versions
         /\ Len(Cuts(whole)) =
              (Cardinality({u \in Uids : whole[u] > 0}) + ChunkSize - 1) \div ChunkSize
         /\ \A i \in 1..Len(Cuts(whole)), u \in Uids : Cuts(whole)[i][u] \in {0, whole[u]}
         /\ \A u \in Uids : whole[u] > 0 =>
              \E i \in 1..Len(Cuts(whole)) : Cuts(whole)[i][u] > 0
<1> DEFINE S == {u \in Uids : whole[u] > 0}
           b == Batches(S, ChunkSize)
           c == Cuts(whole)
<1>1. ChunkSize \in Nat \ {0}
  BY MailFolderAssumption
<1>2. S \in SUBSET Uids
  OBVIOUS
<1>3. /\ b \in Seq(SUBSET Uids) /\ Len(b) \in Nat
      /\ Len(b) = (Cardinality(S) + ChunkSize - 1) \div ChunkSize
      /\ \A u \in S : \E i \in 1..Len(b) : u \in b[i]
  <2> HIDE DEF S
  <2> QED
    BY <1>1, <1>2, BatchesFacts
<1>4. c = [i \in 1..Len(b) |-> [u \in Uids |-> IF u \in b[i] THEN whole[u] ELSE 0]]
  BY DEF Cuts
<1> HIDE DEF b, c
<1>5. c \in [1..Len(b) -> Versions]
  BY <1>4, Constants DEF Versions
<1>6. c \in Seq(Versions) /\ Len(c) = Len(b)
  BY <1>3, <1>5, SeqOf
<1>7. \A i \in 1..Len(c), u \in Uids : c[i][u] \in {0, whole[u]}
  BY <1>4, <1>6
<1>8. ASSUME NEW u \in Uids, whole[u] > 0 PROVE \E i \in 1..Len(c) : c[i][u] > 0
  <2>1. PICK i \in 1..Len(b) : u \in b[i]
    BY <1>3, <1>8
  <2>2. c[i][u] = whole[u]
    BY <1>4, <2>1
  <2> QED
    BY <2>1, <2>2, <1>6, <1>8
<1> QED
  BY <1>3, <1>5, <1>6, <1>7, <1>8 DEF c

LEMMA SplitCarries ==
  ASSUME NEW m \in {"Additive", "Reconcile"}, NEW whole \in Versions, NEW patched \in Versions,
         NEW removed \in SUBSET Uids
  PROVE  Carries(SplitPage(m, whole, patched, removed), whole, patched, removed, NoCursor, m)
<1> DEFINE c == Cuts(whole)
           empty == c = <<>> /\ patched = Nothing /\ removed = {}
           n == IF c = <<>> /\ ~empty THEN 1 ELSE Len(c)
           cs == SplitPage(m, whole, patched, removed)
           wh(i) == IF c = <<>> THEN Nothing ELSE c[i]
           pa(i) == IF i = 1 THEN patched ELSE Nothing
           re(i) == IF i = 1 THEN removed ELSE {}
<1>1. /\ c \in Seq(Versions) /\ Len(c) \in Nat
      /\ \A i \in 1..Len(c) : c[i] \in Versions /\ \A u \in Uids : c[i][u] \in {0, whole[u]}
      /\ \A u \in Uids : whole[u] > 0 => \E i \in 1..Len(c) : c[i][u] > 0
  BY CutsFacts, Zenon
<1>2. n \in Nat /\ (c # <<>> => n = Len(c) /\ n >= 1) /\ (c = <<>> => Len(c) = 0)
  <2>1. c # <<>> => Len(c) >= 1
    BY <1>1
  <2> QED
    BY <1>1, <2>1
<1>3. cs = [i \in 1..n |-> [mode |-> m, whole |-> wh(i), patched |-> pa(i),
                            removed |-> re(i), advance |-> NoCursor]]
  BY DEF SplitPage
<1>4. ASSUME NEW i \in 1..n
      PROVE  /\ wh(i) \in Versions /\ pa(i) \in Versions /\ re(i) \in SUBSET Uids
             /\ re(i) \subseteq removed
             /\ \A u \in Uids : wh(i)[u] \in {0, whole[u]}
             /\ \A u \in Uids : pa(i)[u] \in {0, patched[u]}
  BY <1>1, <1>2, Constants
<1>5. c = <<>> /\ patched # Nothing => n = 1
  OBVIOUS
<1>6. (1 \in 1..n) => pa(1) = patched
  OBVIOUS
<1>7. \A i \in 1..n : c # <<>> => wh(i) = c[i]
  OBVIOUS
<1>8. (\E u \in Uids : patched[u] > 0) => 1 \in 1..n
  <2>1. (\E u \in Uids : patched[u] > 0) => patched # Nothing
    BY Constants
  <2> QED
    BY <2>1, <1>2, <1>5
<1> HIDE DEF c, n, cs, wh, pa, re
<1>9. cs \in [1..n -> Chunk]
  <2>1. \A i \in 1..n : [mode |-> m, whole |-> wh(i), patched |-> pa(i),
                         removed |-> re(i), advance |-> NoCursor] \in Chunk
    BY <1>4, ChunkFields, Constants
  <2> QED
    BY <1>3, <2>1
<1>10. cs \in Seq(Chunk) /\ Len(cs) = n
  BY <1>2, <1>9
<1>11. \A i \in 1..n : /\ cs[i].whole = wh(i) /\ cs[i].patched = pa(i)
                       /\ cs[i].removed = re(i) /\ cs[i].advance = NoCursor
  BY <1>3
<1>12. ASSUME NEW u \in Uids, whole[u] > 0 PROVE \E i \in 1..n : cs[i].whole[u] > 0
  <2>1. PICK i \in 1..Len(c) : c[i][u] > 0
    BY <1>1, <1>12
  <2>2. c # <<>> /\ i \in 1..n
    BY <1>1, <1>2, <2>1
  <2> QED
    BY <2>1, <2>2, <1>7, <1>11
<1>13. ASSUME NEW u \in Uids, patched[u] > 0 PROVE \E i \in 1..n : cs[i].patched[u] > 0
  BY <1>6, <1>8, <1>11, <1>13
<1> QED
  BY <1>4, <1>10, <1>11, <1>12, <1>13 DEF Carries, cs

LEMMA AppendCarries ==
  ASSUME NEW cs, NEW whole \in Versions, NEW patched \in Versions, NEW removed, NEW m,
         Carries(cs, whole, patched, removed, NoCursor, m),
         NEW c \in Chunk, c.whole = Nothing, c.patched = Nothing, c.removed = {}
  PROVE  Carries(Append(cs, c), whole, patched, removed, c.advance, c.mode)
<1> DEFINE d == Append(cs, c)
<1>1. cs \in Seq(Chunk) /\ Len(cs) \in Nat
  BY DEF Carries
<1>2. /\ d \in Seq(Chunk) /\ Len(d) = Len(cs) + 1
      /\ \A i \in 1..Len(cs) : d[i] = cs[i]
      /\ d[Len(cs) + 1] = c
  BY <1>1, AppendProperties
<1> HIDE DEF d
<1>3. ASSUME NEW i \in 1..Len(d)
      PROVE  /\ d[i].removed \subseteq removed
             /\ \A u \in Uids : d[i].whole[u] \in {0, whole[u]}
             /\ \A u \in Uids : d[i].patched[u] \in {0, patched[u]}
             /\ d[i].advance # NoCursor => i = Len(d) /\ d[i].advance = c.advance /\ d[i].mode = c.mode
  <2>1. CASE i = Len(cs) + 1
    BY <1>2, <2>1, Constants
  <2>2. CASE i # Len(cs) + 1
    <3>1. i \in 1..Len(cs) /\ d[i] = cs[i]
      BY <1>1, <1>2, <2>2
    <3> QED
      BY <3>1 DEF Carries
  <2> QED
    BY <2>1, <2>2
<1>4. \A i \in 1..Len(cs) : i \in 1..Len(d)
  BY <1>1, <1>2
<1>5. \A u \in Uids : whole[u] > 0 => \E i \in 1..Len(d) : d[i].whole[u] > 0
  BY <1>2, <1>4 DEF Carries
<1>6. \A u \in Uids : patched[u] > 0 => \E i \in 1..Len(d) : d[i].patched[u] > 0
  BY <1>2, <1>4 DEF Carries
<1> QED
  BY <1>2, <1>3, <1>5, <1>6 DEF Carries, d

LEMMA NothingCarried ==
  ASSUME NEW m
  PROVE  Carries(<<>>, Nothing, Nothing, {}, NoCursor, m)
<1>1. <<>> \in Seq(Chunk) /\ Len(<<>>) = 0 /\ 1..0 = {}
  OBVIOUS
<1>2. \A u \in Uids : ~(Nothing[u] > 0)
  BY Constants
<1> QED
  BY <1>1, <1>2 DEF Carries

LEMMA OneCarried ==
  ASSUME NEW c \in Chunk, c.whole = Nothing, c.patched = Nothing, c.removed = {}
  PROVE  Carries(<<c>>, Nothing, Nothing, {}, c.advance, c.mode)
<1>1. Carries(Append(<<>>, c), Nothing, Nothing, {}, c.advance, c.mode)
  BY NothingCarried, AppendCarries, Constants
<1>2. Append(<<>>, c) = <<c>>
  OBVIOUS
<1> QED
  BY <1>1, <1>2

LEMMA GroupCarries ==
  ASSUME NEW whole \in Versions,
         NEW last \in Chunk, last.patched = Nothing, last.removed = {}
  PROVE  Carries(GroupChunks(whole, last), whole, Nothing, {}, last.advance, last.mode)
<1> DEFINE S == {u \in Uids : whole[u] > 0}
           c == Cuts(whole)
           full == Cardinality(S) \div ChunkSize
           rest == IF full = Len(c) THEN Nothing ELSE c[Len(c)]
           front == [i \in 1..full |-> Additive(c[i], NoCursor)]
           end == [last EXCEPT !.whole = rest]
           d == GroupChunks(whole, last)
<1>1. ChunkSize \in Nat \ {0} /\ Cardinality(S) \in Nat
  BY MailFolderAssumption, UidsFinite
<1>2. /\ c \in Seq(Versions) /\ Len(c) \in Nat
      /\ Len(c) = (Cardinality(S) + ChunkSize - 1) \div ChunkSize
      /\ \A i \in 1..Len(c) : c[i] \in Versions /\ \A u \in Uids : c[i][u] \in {0, whole[u]}
      /\ \A u \in Uids : whole[u] > 0 => \E i \in 1..Len(c) : c[i][u] > 0
  BY CutsFacts, Zenon
<1>3. full \in Nat /\ full <= Len(c) /\ Len(c) <= full + 1
  BY <1>1, <1>2, BatchCount, DivFacts
<1>4. d = Append(front, end)
  BY DEF GroupChunks
<1> HIDE DEF c, full
<1>5. rest \in Versions /\ \A u \in Uids : rest[u] \in {0, whole[u]}
  <2>1. full # Len(c) => Len(c) \in 1..Len(c)
    BY <1>2, <1>3
  <2> QED
    BY <2>1, <1>2, Constants
<1>6. full # Len(c) => rest = c[Len(c)] /\ Len(c) = full + 1
  BY <1>2, <1>3
<1> HIDE DEF rest
<1>7. /\ end \in Chunk /\ end.whole = rest /\ end.patched = Nothing /\ end.removed = {}
      /\ end.advance = last.advance /\ end.mode = last.mode
  BY <1>5 DEF Chunk, Versions
<1> HIDE DEF end
<1>8. ASSUME NEW i \in 1..full
      PROVE  /\ front[i] \in Chunk /\ front[i].whole = c[i] /\ front[i].patched = Nothing
             /\ front[i].removed = {} /\ front[i].advance = NoCursor
  <2>1. i \in 1..Len(c)
    BY <1>2, <1>3
  <2>2. c[i] \in Versions
    BY <2>1, <1>2
  <2>3. Additive(c[i], NoCursor) \in Chunk
    BY <2>2, Constants, ChunkFields DEF Additive
  <2> QED
    BY <2>3 DEF Additive
<1>9. front \in Seq(Chunk) /\ Len(front) = full
  <2>1. front \in [1..full -> Chunk]
    BY <1>8
  <2> QED
    BY <1>3, <2>1
<1> HIDE DEF front, d
<1>10. /\ d \in Seq(Chunk) /\ Len(d) = full + 1
       /\ \A i \in 1..full : d[i] = front[i]
       /\ d[full + 1] = end
  BY <1>4, <1>7, <1>9, AppendProperties
<1>11. ASSUME NEW i \in 1..Len(d)
       PROVE  /\ d[i].removed \subseteq {}
              /\ \A u \in Uids : d[i].whole[u] \in {0, whole[u]}
              /\ \A u \in Uids : d[i].patched[u] \in {0, Nothing[u]}
              /\ d[i].advance # NoCursor =>
                   i = Len(d) /\ d[i].advance = last.advance /\ d[i].mode = last.mode
  <2>1. CASE i = full + 1
    BY <2>1, <1>5, <1>7, <1>10
  <2>2. CASE i # full + 1
    <3>1. i \in 1..full /\ d[i] = front[i]
      BY <1>3, <1>10, <2>2
    <3>2. i \in 1..Len(c)
      BY <3>1, <1>2, <1>3
    <3> QED
      BY <3>1, <3>2, <1>2, <1>8
  <2> QED
    BY <2>1, <2>2
<1>12. ASSUME NEW u \in Uids, whole[u] > 0 PROVE \E i \in 1..Len(d) : d[i].whole[u] > 0
  <2>1. PICK i \in 1..Len(c) : c[i][u] > 0
    BY <1>2, <1>12
  <2>2. CASE i <= full
    <3>1. i \in 1..full /\ i \in 1..Len(d)
      BY <2>1, <2>2, <1>2, <1>3, <1>10
    <3>2. d[i].whole = c[i]
      BY <3>1, <1>8, <1>10
    <3> QED
      BY <3>1, <3>2, <2>1
  <2>3. CASE ~(i <= full)
    <3>1. i = Len(c) /\ full # Len(c) /\ full + 1 \in 1..Len(d)
      BY <2>1, <2>3, <1>2, <1>3, <1>10
    <3>2. d[full + 1].whole = c[i]
      BY <3>1, <1>6, <1>7, <1>10
    <3> QED
      BY <3>1, <3>2, <2>1
  <2> QED
    BY <2>2, <2>3
<1>13. \A u \in Uids : ~(Nothing[u] > 0)
  BY Constants
<1> QED
  BY <1>10, <1>11, <1>12, <1>13 DEF Carries, d

-------------------------------------------------------------------------------
(* The inductive invariant *)

Server == [validity : Validities, uidNext : 1..(MaxUid + 1), modseq : 1..MaxModseq,
           mail : [Uids -> 0..MaxModseq], gone : [Uids -> 0..MaxModseq]]

\* What a pass works on, in one value.
World == [server : Server, speaks : Dialects \cup {"upgraded"}, cursor : Cursor,
          rows : [Validities -> [Uids -> [ver : 0..MaxModseq, epoch : 0..MaxClears]]],
          epoch : 0..MaxClears, depth : Floors]

Now == [server |-> server, speaks |-> speaks, cursor |-> cursor, rows |-> rows,
        epoch |-> epoch, depth |-> depth]

On(s, u) == s.server.mail[u] > 0

Stored(s, u) == s.rows[s.server.validity][u]

\* The version x of u is right as of the mod-sequence m.
AsOf(s, u, x, m) ==
  (s.speaks # "upgraded" /\ s.server.mail[u] <= m) => (x = s.server.mail[u])

\* A stored copy read since the last clear.
Held(s, u) == Stored(s, u).ver > 0 /\ Stored(s, u).epoch = s.epoch

Good(s, u, m) == Held(s, u) /\ AsOf(s, u, Stored(s, u).ver, m)

\* The messages on the server that the cursor k covers, and those the host keeps.
Under(s, k, u) ==
  /\ On(s, u) /\ k.validity = s.server.validity
  /\ k.low <= u /\ u < k.uidNext /\ Date[u] >= k.floor

Kept(s, k, u) == Under(s, k, u) /\ Date[u] >= s.depth

CoveredGood(s, k) == \A u \in Uids : Kept(s, k, u) => Good(s, u, k.modseq)

\* A message that will not come back.
Gone(s, u) == s.server.mail[u] = 0 /\ u < s.server.uidNext

ServerSound(s) ==
  \A u \in Uids :
    /\ On(s, u) => u < s.server.uidNext
    /\ s.server.gone[u] > 0 => Gone(s, u)

\* What a cursor, or a SELECT, says of the server lies in its past.
Past(s, k) ==
  /\ k.validity <= s.server.validity /\ k.modseq <= s.server.modseq
  /\ k.validity = s.server.validity => k.uidNext <= s.server.uidNext
  /\ s.speaks = "plain" => k.modseq = 0
  /\ (s.speaks \in {"qresync", "xym"} /\ k.validity > 0) => k.modseq > 0

CursorSound(s, k) == Past(s, k) /\ (k.validity = 0 => k = NoCursor)

-------------------------------------------------------------------------------
(* What is promised of the pass whose token is current *)

ToWrite(p, u) == \E i \in 1..Len(p.chunks) : p.chunks[i].whole[u] > 0
ToPatch(p, u) == \E i \in 1..Len(p.chunks) : p.chunks[i].patched[u] > 0
ToFetch(p, u) == \E i \in 1..Len(p.todo) : u \in p.todo[i]

\* u is good as of m once the chunks of p are committed.
Due(s, p, u, m) ==
  \/ ToWrite(p, u)
  \/ Held(s, u) /\ (AsOf(s, u, Stored(s, u).ver, m) \/ ToPatch(p, u))

\* What was read since the SELECT is as it was then, or later.
ReadSound(s, sel, f) ==
  \A u \in Uids : (On(s, u) /\ f[u] > 0) => AsOf(s, u, f[u], sel.modseq)

AdvanceSound(s, p, k, mode) ==
  /\ k.validity = p.sel.validity /\ CursorSound(s, k) /\ k.floor = p.window
  /\ s.speaks # "upgraded" => k.modseq <= p.sel.modseq
  /\ \A u \in Uids : Kept(s, k, u) => Due(s, p, u, k.modseq)
  /\ mode = "Reconcile" => \A u \in Uids : Under(s, k, u) => u \in p.present

ChunkSound(s, p, c) ==
  /\ p.sel.validity > 0
  /\ p.sel.validity = s.server.validity =>
       /\ ReadSound(s, p.sel, c.whole) /\ ReadSound(s, p.sel, c.patched)
       /\ \A u \in c.removed : Gone(s, u)
  /\ c.advance # NoCursor => AdvanceSound(s, p, c.advance, c.mode)

ChunksSound(s, p) ==
  \A i \in 1..Len(p.chunks) :
    /\ ChunkSound(s, p, p.chunks[i])
    /\ i < Len(p.chunks) => p.chunks[i].advance = NoCursor

Descending(todo) ==
  /\ \A i \in 1..Len(todo) : todo[i] # {}
  /\ \A i, j \in 1..Len(todo) : i < j => \A u \in todo[i], v \in todo[j] : v < u

\* A pass with more to fetch tombstones nothing.
NoTombstones(p) ==
  \A i \in 1..Len(p.chunks) : p.chunks[i].mode = "Reconcile" => p.chunks[i].advance = NoCursor

BackfillSound(s, p) ==
  /\ p.sel.validity > 0 /\ p.todo # <<>> /\ Descending(p.todo) /\ NoTombstones(p)
  /\ ~Fresh(p) => p.prior.validity = p.sel.validity
  /\ \A u \in Uids : Kept(s, Frontier(p, p.sel), u) =>
       ToFetch(p, u) \/ Due(s, p, u, Frontier(p, p.sel).modseq)
  /\ Fresh(p) => \A u \in Uids : Under(s, Frontier(p, p.sel), u) =>
                   ToFetch(p, u) \/ u \in p.present

PageSound(s, p) ==
  /\ p.sel.validity > 0 /\ NoTombstones(p)
  /\ \A u \in Uids : Under(s, NextCursor(p, p.sel), u) => u < p.below \/ u \in p.present
  /\ \A u \in Uids : Kept(s, NextCursor(p, p.sel), u) =>
       u < p.below \/ Due(s, p, u, p.sel.modseq)

\* A delta has nothing to commit until its last fetch.
Delta(p) ==
  /\ p.chunks = <<>>
  /\ p.sel.validity > 0 /\ p.prior.validity = p.sel.validity /\ p.prior.low = 0

ArrivalsSound(s, p) ==
  p.sel.validity = s.server.validity =>
    /\ ReadSound(s, p.sel, p.patched) /\ \A u \in p.removed : Gone(s, u)
    /\ \A u \in Uids : Kept(s, p.prior, u) =>
         /\ Held(s, u)
         /\ p.patched[u] > 0 \/ AsOf(s, u, Stored(s, u).ver, p.sel.modseq)

FreshSound(s, p) ==
  p.sel.validity = s.server.validity =>
    /\ ReadSound(s, p.sel, p.patched)
    /\ \A u \in Uids : Kept(s, p.prior, u) => Held(s, u)
    /\ \A u \in Uids : (Under(s, p.prior, u) /\ Date[u] >= p.window) =>
         u \in p.present /\ p.patched[u] > 0

StageSound(s, p) ==
  /\ p.stage = "claimed" => p.chunks = <<>> /\ CoveredGood(s, p.prior)
  /\ p.stage = "backfill" => BackfillSound(s, p)
  /\ p.stage \in {"changes", "flags"} => Delta(p) /\ CoveredGood(s, p.prior)
  /\ p.stage = "arrivals" => Delta(p) /\ ArrivalsSound(s, p)
  /\ p.stage = "fresh" => Delta(p) /\ FreshSound(s, p)
  /\ p.stage = "page" => PageSound(s, p)

\* What the pass p starts from and has selected.
BaseSound(s, p) ==
  /\ p.prior.floor <= p.window /\ CursorSound(s, p.prior) /\ Past(s, p.sel)
  /\ (s.speaks # "upgraded" /\ p.sel.validity > 0) =>
       s.cursor.modseq <= p.sel.modseq /\ p.prior.modseq <= p.sel.modseq

PassSound(s, p) == BaseSound(s, p) /\ ChunksSound(s, p) /\ StageSound(s, p)

HolderSound ==
  \A w \in Workers : (holder = w /\ Running(w)) => PassSound(Now, pass[w])

FolderInv ==
  /\ TypeOK /\ ServerSound(Now)
  /\ CursorSound(Now, cursor) /\ CoveredGood(Now, cursor) /\ HolderSound

-------------------------------------------------------------------------------

LEMMA WorldFields ==
  ASSUME NEW s \in World
  PROVE  /\ s.server.validity \in Nat /\ s.server.validity \in Validities /\ s.server.validity >= 1
         /\ s.server.uidNext \in Nat /\ s.server.modseq \in Nat /\ s.server.modseq >= 1
         /\ \A u \in Uids : s.server.mail[u] \in Nat /\ s.server.gone[u] \in Nat
         /\ s.server.modseq <= MaxModseq
         /\ \A u \in Uids : s.server.mail[u] \in 0..MaxModseq
         /\ s.depth \in Nat /\ s.epoch \in Nat
         /\ s.speaks \in {"qresync", "xym", "plain", "upgraded"}
         /\ s.cursor \in Cursor
         /\ \A u \in Uids : Stored(s, u).ver \in Nat
<1>1. s.server \in Server /\ s.depth \in Floors /\ s.epoch \in 0..MaxClears /\ s.cursor \in Cursor
  BY DEF World
<1>2. s.speaks \in {"qresync", "xym", "plain", "upgraded"}
  BY MailFolderAssumption DEF World
<1>3. s.depth \in Nat /\ s.epoch \in Nat
  <2>1. Floors \subseteq Nat /\ MaxClears \in Nat
    BY MailFolderAssumption
  <2>2. s.depth \in Floors /\ s.epoch \in 0..MaxClears
    BY <1>1
  <2>3. s.depth \in Nat
    BY <2>1, <2>2, Zenon
  <2>4. s.epoch \in Nat
    BY <2>1, <2>2
  <2> QED
    BY <2>3, <2>4
<1>4. /\ s.server.validity \in Validities
      /\ s.server.validity \in Nat /\ s.server.validity >= 1
      /\ s.server.uidNext \in Nat /\ s.server.modseq \in Nat /\ s.server.modseq >= 1
      /\ s.server.modseq <= MaxModseq
  BY <1>1, Constants DEF Server, Validities
<1>5. \A u \in Uids : /\ s.server.mail[u] \in Nat /\ s.server.gone[u] \in Nat
                      /\ s.server.mail[u] \in 0..MaxModseq
  BY <1>1, Constants DEF Server
<1>6. \A u \in Uids : Stored(s, u).ver \in Nat
  BY <1>4, Constants DEF World, Stored
<1> QED
  BY <1>1, <1>2, <1>3, <1>4, <1>5, <1>6

LEMMA PassFields ==
  ASSUME NEW p \in Pass
  PROVE  /\ p.sel.validity \in Nat /\ p.sel.uidNext \in Nat /\ p.sel.modseq \in Nat
         /\ p.prior \in Cursor /\ p.left \in Cursor
         /\ p.window \in Nat /\ p.below \in Nat
         /\ p.todo \in Seq(SUBSET Uids) /\ p.chunks \in Seq(Chunk)
         /\ p.present \in SUBSET Uids /\ p.removed \in SUBSET Uids
         /\ p.patched \in Versions
         /\ p.stage \in Stages /\ p.reclaims \in 0..MaxReclaims
BY DEF Pass, Selected, Versions

LEMMA CursorFields ==
  ASSUME NEW k \in Cursor
  PROVE  /\ k.validity \in Nat /\ k.uidNext \in Nat /\ k.modseq \in Nat
         /\ k.low \in Nat /\ k.floor \in Nat
BY DEF Cursor

LEMMA UidFields ==
  ASSUME NEW u \in Uids
  PROVE  u \in Nat /\ u >= 1 /\ u <= MaxUid /\ Date[u] \in Nat
BY MailFolderAssumption DEF Uids

LEMMA FrontierTyped ==
  ASSUME NEW p \in Pass
  PROVE  /\ Frontier(p, p.sel) \in Cursor
         /\ Frontier(p, p.sel).validity = p.sel.validity
         /\ Frontier(p, p.sel).uidNext = IF Fresh(p) THEN p.sel.uidNext ELSE p.prior.uidNext
         /\ Frontier(p, p.sel).modseq = IF p.prior.modseq > 0 THEN p.prior.modseq ELSE p.sel.modseq
         /\ Frontier(p, p.sel).low = 0 /\ Frontier(p, p.sel).floor = p.window
         /\ Frontier(p, p.sel).reconciled = Fresh(p)
BY PassFields, CursorFields DEF Frontier, Cursor, Fresh

LEMMA NextTyped ==
  ASSUME NEW p \in Pass
  PROVE  /\ NextCursor(p, p.sel) \in Cursor
         /\ NextCursor(p, p.sel).validity = p.sel.validity
         /\ NextCursor(p, p.sel).uidNext = p.sel.uidNext
         /\ NextCursor(p, p.sel).modseq = p.sel.modseq
         /\ NextCursor(p, p.sel).low = 0 /\ NextCursor(p, p.sel).floor = p.window
BY PassFields DEF NextCursor, Cursor

LEMMA FrontierPast ==
  ASSUME NEW s \in World, NEW p \in Pass, BaseSound(s, p), p.sel.validity > 0,
         ~Fresh(p) => p.prior.validity = p.sel.validity
  PROVE  /\ CursorSound(s, Frontier(p, p.sel))
         /\ s.speaks # "upgraded" => Frontier(p, p.sel).modseq <= p.sel.modseq
<1> DEFINE F == Frontier(p, p.sel)
<1>1. /\ F.validity = p.sel.validity
      /\ F.uidNext = IF Fresh(p) THEN p.sel.uidNext ELSE p.prior.uidNext
      /\ F.modseq = IF p.prior.modseq > 0 THEN p.prior.modseq ELSE p.sel.modseq
  BY FrontierTyped
<1> HIDE DEF F
<1>2. p.sel.validity \in Nat /\ p.sel.modseq \in Nat /\ p.prior.modseq \in Nat
  BY PassFields, CursorFields
<1>3. Past(s, p.sel) /\ Past(s, p.prior)
  BY DEF BaseSound, CursorSound
<1>4. Past(s, F)
  BY <1>1, <1>2, <1>3 DEF Past
<1>5. s.speaks # "upgraded" => F.modseq <= p.sel.modseq
  BY <1>1, <1>2 DEF BaseSound
<1> QED
  BY <1>1, <1>2, <1>4, <1>5 DEF F, CursorSound

LEMMA NextPast ==
  ASSUME NEW s \in World, NEW p \in Pass, Past(s, p.sel), p.sel.validity > 0
  PROVE  CursorSound(s, NextCursor(p, p.sel))
<1> DEFINE F == NextCursor(p, p.sel)
<1>1. F.validity = p.sel.validity /\ F.uidNext = p.sel.uidNext /\ F.modseq = p.sel.modseq
  BY NextTyped
<1> HIDE DEF F
<1>2. p.sel.validity \in Nat
  BY PassFields
<1> QED
  BY <1>1, <1>2 DEF F, CursorSound, Past

-------------------------------------------------------------------------------
(* The server moves: what was promised still holds *)

-------------------------------------------------------------------------------
(* The server moves *)

\* The UID space is the same: no UID comes back, and what changed is newer than
\* anything was.
SameSpace(s, t) ==
  /\ t.server.validity = s.server.validity /\ s.server.uidNext <= t.server.uidNext
  /\ \A u \in Uids :
       /\ t.server.mail[u] \in {0, s.server.mail[u]} \/ t.server.mail[u] > s.server.modseq
       /\ On(t, u) => On(s, u) \/ u >= s.server.uidNext

Moves(s, t) ==
  /\ t.cursor = s.cursor /\ t.rows = s.rows /\ t.epoch = s.epoch /\ t.depth = s.depth
  /\ t.speaks \in {s.speaks, "upgraded"} /\ s.server.modseq <= t.server.modseq
  /\ s.server.validity < t.server.validity \/ SameSpace(s, t)

LEMMA PastAfter ==
  ASSUME NEW s \in World, NEW t \in World, Moves(s, t),
         NEW k, k.validity \in Nat, k.modseq \in Nat, k.uidNext \in Nat, Past(s, k)
  PROVE  Past(t, k)
BY WorldFields DEF Moves, SameSpace, Past

LEMMA UnderBefore ==
  ASSUME NEW s \in World, NEW t \in World, Moves(s, t),
         NEW k \in Cursor, Past(s, k), NEW u \in Uids, Under(t, k, u)
  PROVE  SameSpace(s, t) /\ Under(s, k, u)
<1>1. k.validity \in Nat /\ k.uidNext \in Nat
  BY CursorFields
<1>2. SameSpace(s, t)
  BY <1>1, WorldFields DEF Moves, Past, Under
<1>3. On(s, u)
  BY <1>1, <1>2, WorldFields, UidFields DEF Past, Under, SameSpace
<1> QED
  BY <1>2, <1>3 DEF Under, SameSpace

LEMMA AsOfAfter ==
  ASSUME NEW s \in World, NEW t \in World, Moves(s, t), SameSpace(s, t),
         NEW u \in Uids, On(t, u), NEW x, NEW m \in Nat, m <= s.server.modseq, AsOf(s, u, x, m)
  PROVE  AsOf(t, u, x, m)
<1>1. s.server.mail[u] \in Nat /\ t.server.mail[u] \in Nat /\ s.server.modseq \in Nat
  BY WorldFields
<1> QED
  BY <1>1 DEF AsOf, SameSpace, On, Moves

LEMMA HeldAfter ==
  ASSUME NEW s \in World, NEW t \in World, Moves(s, t), SameSpace(s, t), NEW u \in Uids
  PROVE  Stored(t, u) = Stored(s, u) /\ (Held(t, u) <=> Held(s, u))
BY DEF Moves, SameSpace, Held, Stored

LEMMA DueAfter ==
  ASSUME NEW s \in World, NEW t \in World, Moves(s, t), SameSpace(s, t),
         NEW u \in Uids, On(t, u), NEW m \in Nat, m <= s.server.modseq,
         NEW p, Due(s, p, u, m)
  PROVE  Due(t, p, u, m)
BY HeldAfter, AsOfAfter DEF Due

LEMMA GoodAfter ==
  ASSUME NEW s \in World, NEW t \in World, Moves(s, t), SameSpace(s, t),
         NEW u \in Uids, On(t, u), NEW m \in Nat, m <= s.server.modseq, Good(s, u, m)
  PROVE  Good(t, u, m)
BY HeldAfter, AsOfAfter DEF Good

LEMMA CoveredAfter ==
  ASSUME NEW s \in World, NEW t \in World, Moves(s, t),
         NEW k \in Cursor, Past(s, k), CoveredGood(s, k)
  PROVE  CoveredGood(t, k)
<1> SUFFICES ASSUME NEW u \in Uids, Kept(t, k, u) PROVE Good(t, u, k.modseq)
  BY DEF CoveredGood
<1>1. SameSpace(s, t) /\ Under(s, k, u) /\ On(t, u)
  BY UnderBefore DEF Kept, Under
<1>2. Good(s, u, k.modseq)
  BY <1>1 DEF CoveredGood, Kept, Moves
<1>3. k.modseq \in Nat /\ k.modseq <= s.server.modseq
  BY CursorFields DEF Past
<1> QED
  BY <1>1, <1>2, <1>3, GoodAfter

LEMMA ReadAfter ==
  ASSUME NEW s \in World, NEW t \in World, Moves(s, t), SameSpace(s, t),
         NEW sel, sel.modseq \in Nat, sel.modseq <= s.server.modseq,
         NEW f, ReadSound(s, sel, f)
  PROVE  ReadSound(t, sel, f)
<1> SUFFICES ASSUME NEW u \in Uids, On(t, u), f[u] > 0 PROVE AsOf(t, u, f[u], sel.modseq)
  BY DEF ReadSound
<1>1. CASE On(s, u)
  <2>1. AsOf(s, u, f[u], sel.modseq)
    BY <1>1 DEF ReadSound
  <2> QED
    BY <2>1, AsOfAfter
<1>2. CASE ~On(s, u)
  <2>1. s.server.mail[u] \in Nat /\ t.server.mail[u] \in Nat /\ s.server.modseq \in Nat
    BY WorldFields
  <2>2. t.server.mail[u] > s.server.modseq
    BY <1>2, <2>1 DEF SameSpace, On
  <2> QED
    BY <2>1, <2>2 DEF AsOf
<1> QED
  BY <1>1, <1>2

LEMMA GoneAfter ==
  ASSUME NEW s \in World, NEW t \in World, SameSpace(s, t), NEW u \in Uids, Gone(s, u)
  PROVE  Gone(t, u)
BY WorldFields, UidFields DEF SameSpace, Gone, On

LEMMA AdvanceAfter ==
  ASSUME NEW s \in World, NEW t \in World, Moves(s, t), NEW p \in Pass,
         NEW k \in Cursor, NEW mode, AdvanceSound(s, p, k, mode)
  PROVE  AdvanceSound(t, p, k, mode)
<1>1. Past(s, k) /\ k.validity \in Nat /\ k.modseq \in Nat /\ k.uidNext \in Nat
  BY CursorFields DEF AdvanceSound, CursorSound
<1>2. CursorSound(t, k)
  BY <1>1, PastAfter DEF AdvanceSound, CursorSound
<1>3. ASSUME NEW u \in Uids, Kept(t, k, u) PROVE Due(t, p, u, k.modseq)
  <2>1. SameSpace(s, t) /\ Under(s, k, u) /\ On(t, u)
    BY <1>1, <1>3, UnderBefore DEF Kept, Under
  <2>2. Due(s, p, u, k.modseq)
    BY <1>3, <2>1 DEF Kept, Moves, AdvanceSound
  <2>3. k.modseq <= s.server.modseq
    BY <1>1 DEF Past
  <2> QED
    BY <1>1, <2>1, <2>2, <2>3, DueAfter
<1>4. ASSUME NEW u \in Uids, Under(t, k, u), mode = "Reconcile" PROVE u \in p.present
  BY <1>1, <1>4, UnderBefore DEF AdvanceSound
<1>5. t.speaks # "upgraded" => k.modseq <= p.sel.modseq
  BY DEF AdvanceSound, Moves
<1> QED
  BY <1>2, <1>3, <1>4, <1>5 DEF AdvanceSound

LEMMA ChunksAfter ==
  ASSUME NEW s \in World, NEW t \in World, Moves(s, t), NEW p \in Pass,
         Past(s, p.sel), ChunksSound(s, p)
  PROVE  ChunksSound(t, p)
<1> SUFFICES ASSUME NEW i \in 1..Len(p.chunks)
             PROVE  /\ ChunkSound(t, p, p.chunks[i])
                    /\ i < Len(p.chunks) => p.chunks[i].advance = NoCursor
  BY DEF ChunksSound
<1> DEFINE c == p.chunks[i]
<1>1. c \in Chunk /\ c.advance \in Cursor /\ c.removed \in SUBSET Uids
  <2>1. p.chunks \in Seq(Chunk)
    BY PassFields
  <2>2. c \in Chunk
    BY <2>1
  <2> QED
    BY <2>2 DEF Chunk
<1>2. ChunkSound(s, p, c) /\ (i < Len(p.chunks) => c.advance = NoCursor)
  BY DEF ChunksSound
<1> HIDE DEF c
<1>3. ASSUME p.sel.validity = t.server.validity
      PROVE  ReadSound(t, p.sel, c.whole) /\ ReadSound(t, p.sel, c.patched) /\ \A u \in c.removed : Gone(t, u)
  <2>1. p.sel.validity \in Nat /\ p.sel.modseq \in Nat /\ p.sel.modseq <= s.server.modseq
    BY PassFields DEF Past
  <2>2. SameSpace(s, t)
    BY <1>3, <2>1, WorldFields DEF Past, Moves
  <2>3. p.sel.validity = s.server.validity
    BY <1>3, <2>2 DEF SameSpace
  <2>4. ReadSound(s, p.sel, c.whole) /\ ReadSound(s, p.sel, c.patched) /\ \A u \in c.removed : Gone(s, u)
    BY <1>2, <2>3 DEF ChunkSound
  <2>5. ReadSound(t, p.sel, c.whole) /\ ReadSound(t, p.sel, c.patched)
    BY <2>1, <2>2, <2>4, ReadAfter
  <2> QED
    BY <1>1, <2>2, <2>4, <2>5, GoneAfter
<1>4. ASSUME c.advance # NoCursor PROVE AdvanceSound(t, p, c.advance, c.mode)
  BY <1>1, <1>2, <1>4, AdvanceAfter DEF ChunkSound
<1> QED
  BY <1>2, <1>3, <1>4 DEF ChunkSound, c

LEMMA BackfillAfter ==
  ASSUME NEW s \in World, NEW t \in World, Moves(s, t), NEW p \in Pass,
         BaseSound(s, p), BackfillSound(s, p)
  PROVE  BackfillSound(t, p)
<1> DEFINE F == Frontier(p, p.sel)
<1>1. F \in Cursor /\ Past(s, F) /\ F.modseq \in Nat
  BY FrontierTyped, FrontierPast, CursorFields DEF BackfillSound, CursorSound
<1>2. ASSUME NEW u \in Uids, Kept(t, F, u) PROVE ToFetch(p, u) \/ Due(t, p, u, F.modseq)
  <2>1. SameSpace(s, t) /\ Under(s, F, u) /\ On(t, u)
    BY <1>1, <1>2, UnderBefore DEF Kept, Under
  <2>2. ToFetch(p, u) \/ Due(s, p, u, F.modseq)
    BY <1>2, <2>1 DEF Kept, Moves, BackfillSound
  <2>3. F.modseq <= s.server.modseq
    BY <1>1 DEF Past
  <2> QED
    BY <1>1, <2>1, <2>2, <2>3, DueAfter
<1>3. ASSUME NEW u \in Uids, Under(t, F, u), Fresh(p) PROVE ToFetch(p, u) \/ u \in p.present
  BY <1>1, <1>3, UnderBefore DEF BackfillSound
<1> QED
  BY <1>2, <1>3 DEF BackfillSound

LEMMA PageAfter ==
  ASSUME NEW s \in World, NEW t \in World, Moves(s, t), NEW p \in Pass,
         Past(s, p.sel), PageSound(s, p)
  PROVE  PageSound(t, p)
<1> DEFINE F == NextCursor(p, p.sel)
<1>1. F \in Cursor /\ Past(s, F) /\ p.sel.modseq \in Nat /\ p.sel.modseq <= s.server.modseq
  BY NextTyped, NextPast, PassFields DEF PageSound, CursorSound, Past
<1>2. ASSUME NEW u \in Uids, Kept(t, F, u) PROVE u < p.below \/ Due(t, p, u, p.sel.modseq)
  <2>1. SameSpace(s, t) /\ Under(s, F, u) /\ On(t, u)
    BY <1>1, <1>2, UnderBefore DEF Kept, Under
  <2>2. u < p.below \/ Due(s, p, u, p.sel.modseq)
    BY <1>2, <2>1 DEF Kept, Moves, PageSound
  <2> QED
    BY <1>1, <2>1, <2>2, DueAfter
<1>3. ASSUME NEW u \in Uids, Under(t, F, u) PROVE u < p.below \/ u \in p.present
  BY <1>1, <1>3, UnderBefore DEF PageSound
<1> QED
  BY <1>2, <1>3 DEF PageSound

LEMMA DeltaAfter ==
  ASSUME NEW s \in World, NEW t \in World, Moves(s, t), NEW p \in Pass,
         BaseSound(s, p), Delta(p)
  PROVE  /\ ArrivalsSound(s, p) => ArrivalsSound(t, p)
         /\ FreshSound(s, p) => FreshSound(t, p)
<1>1. /\ p.sel.validity \in Nat /\ p.sel.modseq \in Nat /\ p.sel.modseq <= s.server.modseq
      /\ p.prior \in Cursor /\ Past(s, p.prior) /\ p.removed \in SUBSET Uids
  BY PassFields DEF BaseSound, Past, CursorSound
<1> SUFFICES ASSUME p.sel.validity = t.server.validity
             PROVE  /\ ArrivalsSound(s, p) => ArrivalsSound(t, p)
                    /\ FreshSound(s, p) => FreshSound(t, p)
  BY DEF ArrivalsSound, FreshSound
<1>2. SameSpace(s, t) /\ p.sel.validity = s.server.validity
  BY <1>1, WorldFields DEF BaseSound, Past, Moves, SameSpace
<1>3. ReadSound(s, p.sel, p.patched) => ReadSound(t, p.sel, p.patched)
  BY <1>1, <1>2, ReadAfter
<1>4. \A u \in Uids : Under(t, p.prior, u) => Under(s, p.prior, u) /\ On(t, u)
  BY <1>1, UnderBefore DEF Under
<1>5. \A u \in Uids : Kept(t, p.prior, u) => Kept(s, p.prior, u) /\ On(t, u)
  BY <1>4 DEF Kept, Moves
<1>6. \A u \in Uids : Stored(t, u) = Stored(s, u) /\ (Held(t, u) <=> Held(s, u))
  BY <1>2, HeldAfter
<1>7. ASSUME ArrivalsSound(s, p) PROVE ArrivalsSound(t, p)
  <2>1. \A u \in p.removed : Gone(t, u)
    BY <1>1, <1>2, <1>7, GoneAfter DEF ArrivalsSound
  <2>2. ASSUME NEW u \in Uids, Kept(t, p.prior, u)
        PROVE  /\ Held(t, u)
               /\ p.patched[u] > 0 \/ AsOf(t, u, Stored(t, u).ver, p.sel.modseq)
    <3>1. /\ Held(s, u) /\ On(t, u)
          /\ p.patched[u] > 0 \/ AsOf(s, u, Stored(s, u).ver, p.sel.modseq)
      BY <1>2, <1>5, <1>7, <2>2 DEF ArrivalsSound
    <3> QED
      BY <1>1, <1>2, <1>6, <3>1, AsOfAfter
  <2> QED
    BY <1>2, <1>3, <1>7, <2>1, <2>2 DEF ArrivalsSound
<1>8. ASSUME FreshSound(s, p) PROVE FreshSound(t, p)
  BY <1>2, <1>3, <1>4, <1>5, <1>6, <1>8 DEF FreshSound
<1> QED
  BY <1>7, <1>8

LEMMA PassAfter ==
  ASSUME NEW s \in World, NEW t \in World, Moves(s, t), NEW p \in Pass, PassSound(s, p)
  PROVE  PassSound(t, p)
<1>1. BaseSound(s, p) /\ ChunksSound(s, p) /\ StageSound(s, p)
  BY DEF PassSound
<1>2. BaseSound(t, p)
  <2>1. Past(t, p.prior) /\ Past(t, p.sel)
    BY <1>1, PassFields, CursorFields, PastAfter DEF BaseSound, CursorSound
  <2> QED
    BY <1>1, <2>1 DEF BaseSound, CursorSound, Moves
<1>3. ChunksSound(t, p)
  BY <1>1, ChunksAfter DEF BaseSound
<1>4. StageSound(t, p)
  <2>1. CoveredGood(s, p.prior) => CoveredGood(t, p.prior)
    BY <1>1, PassFields, CoveredAfter DEF BaseSound, CursorSound
  <2>2. BackfillSound(s, p) => BackfillSound(t, p)
    BY <1>1, BackfillAfter
  <2>3. PageSound(s, p) => PageSound(t, p)
    BY <1>1, PageAfter DEF BaseSound
  <2>4. Delta(p) => /\ ArrivalsSound(s, p) => ArrivalsSound(t, p)
                    /\ FreshSound(s, p) => FreshSound(t, p)
    BY <1>1, DeltaAfter
  <2> QED
    BY <1>1, <2>1, <2>2, <2>3, <2>4 DEF StageSound
<1> QED
  BY <1>2, <1>3, <1>4 DEF PassSound

-------------------------------------------------------------------------------
(* A prune, and what the commit of one chunk does to a message *)

-------------------------------------------------------------------------------
(* A prune *)

Pruned(s, t) ==
  /\ t.server = s.server /\ t.speaks = s.speaks /\ t.cursor = s.cursor /\ t.epoch = s.epoch
  /\ s.depth <= t.depth
  /\ \A u \in Uids : Date[u] >= t.depth => Stored(t, u) = Stored(s, u)

LEMMA PrunedSame ==
  ASSUME NEW s \in World, NEW t \in World, Pruned(s, t)
  PROVE  /\ \A k : (Past(t, k) <=> Past(s, k)) /\ (CursorSound(t, k) <=> CursorSound(s, k))
         /\ \A k, u : Under(t, k, u) <=> Under(s, k, u)
         /\ \A u, x, m : AsOf(t, u, x, m) <=> AsOf(s, u, x, m)
         /\ \A sel, f : ReadSound(t, sel, f) <=> ReadSound(s, sel, f)
         /\ \A u : Gone(t, u) <=> Gone(s, u)
         /\ \A k : \A u \in Uids : Kept(t, k, u) => Kept(s, k, u) /\ Stored(t, u) = Stored(s, u)
                                                    /\ (Held(s, u) => Held(t, u))
<1>1. t.server = s.server /\ t.speaks = s.speaks /\ t.epoch = s.epoch
  BY DEF Pruned
<1>2. \A u : On(t, u) <=> On(s, u)
  BY <1>1 DEF On
<1>3. \A k : (Past(t, k) <=> Past(s, k)) /\ (CursorSound(t, k) <=> CursorSound(s, k))
  BY <1>1 DEF Past, CursorSound
<1>4. \A k, u : Under(t, k, u) <=> Under(s, k, u)
  BY <1>1, <1>2 DEF Under
<1>5. \A u, x, m : AsOf(t, u, x, m) <=> AsOf(s, u, x, m)
  BY <1>1 DEF AsOf
<1>6. \A sel, f : ReadSound(t, sel, f) <=> ReadSound(s, sel, f)
  BY <1>2, <1>5 DEF ReadSound
<1>7. \A u : Gone(t, u) <=> Gone(s, u)
  BY <1>1 DEF Gone
<1>8. ASSUME NEW k, NEW u \in Uids, Kept(t, k, u)
      PROVE  Kept(s, k, u) /\ Stored(t, u) = Stored(s, u) /\ (Held(s, u) => Held(t, u))
  <2>1. Stored(t, u) = Stored(s, u)
    BY <1>8 DEF Pruned, Kept
  <2>2. Date[u] >= s.depth
    BY <1>8, WorldFields, UidFields DEF Pruned, Kept
  <2> QED
    BY <1>1, <1>4, <1>8, <2>1, <2>2 DEF Kept, Held
<1> QED
  BY <1>3, <1>4, <1>5, <1>6, <1>7, <1>8

LEMMA PrunedCovered ==
  ASSUME NEW s \in World, NEW t \in World, Pruned(s, t), NEW k, CoveredGood(s, k)
  PROVE  CoveredGood(t, k)
BY PrunedSame DEF CoveredGood, Good

LEMMA PrunedDue ==
  ASSUME NEW s \in World, NEW t \in World, Pruned(s, t), NEW k, NEW u \in Uids, Kept(t, k, u),
         NEW p, NEW m, Due(s, p, u, m)
  PROVE  Due(t, p, u, m)
BY PrunedSame DEF Due

LEMMA PrunedPass ==
  ASSUME NEW s \in World, NEW t \in World, Pruned(s, t), NEW p \in Pass, PassSound(s, p)
  PROVE  PassSound(t, p)
<1>1. BaseSound(s, p) /\ ChunksSound(s, p) /\ StageSound(s, p)
  BY DEF PassSound
<1>2. t.speaks = s.speaks /\ t.server = s.server /\ t.cursor = s.cursor
  BY DEF Pruned
<1>3. BaseSound(t, p)
  BY <1>1, <1>2, PrunedSame DEF BaseSound
<1>4. ASSUME NEW k, NEW mode, AdvanceSound(s, p, k, mode) PROVE AdvanceSound(t, p, k, mode)
  <2>1. CursorSound(t, k)
    BY <1>4, PrunedSame DEF AdvanceSound
  <2>2. ASSUME NEW u \in Uids, Kept(t, k, u) PROVE Due(t, p, u, k.modseq)
    BY <1>4, <2>2, PrunedSame, PrunedDue DEF AdvanceSound
  <2>3. ASSUME NEW u \in Uids, Under(t, k, u), mode = "Reconcile" PROVE u \in p.present
    BY <1>4, <2>3, PrunedSame DEF AdvanceSound
  <2> QED
    BY <1>2, <1>4, <2>1, <2>2, <2>3 DEF AdvanceSound
<1>5. ChunksSound(t, p)
  <2>1. ASSUME NEW c, ChunkSound(s, p, c) PROVE ChunkSound(t, p, c)
    BY <1>2, <1>4, <2>1, PrunedSame DEF ChunkSound
  <2> QED
    BY <1>1, <2>1 DEF ChunksSound
<1>6. BackfillSound(s, p) => BackfillSound(t, p)
  BY PrunedSame, PrunedDue DEF BackfillSound
<1>7. PageSound(s, p) => PageSound(t, p)
  BY PrunedSame, PrunedDue DEF PageSound
<1>8. CoveredGood(s, p.prior) => CoveredGood(t, p.prior)
  BY PrunedCovered
<1>9. ArrivalsSound(s, p) => ArrivalsSound(t, p)
  BY <1>2, PrunedSame DEF ArrivalsSound
<1>10. FreshSound(s, p) => FreshSound(t, p)
  BY <1>2, PrunedSame DEF FreshSound
<1>11. StageSound(t, p)
  BY <1>1, <1>6, <1>7, <1>8, <1>9, <1>10 DEF StageSound
<1> QED
  BY <1>3, <1>5, <1>11 DEF PassSound

-------------------------------------------------------------------------------
(* A commit *)

Tombstones(c) == c.mode = "Reconcile" /\ c.advance # NoCursor

\* The chunk c of p is applied.
Applied(s, t, p, c) ==
  /\ t.server = s.server /\ t.speaks = s.speaks /\ t.epoch = s.epoch /\ t.depth = s.depth
  /\ t.cursor = IF c.advance = NoCursor THEN s.cursor ELSE c.advance
  /\ p.sel.validity = s.server.validity =>
       \A u \in Uids :
         Stored(t, u) =
           IF (Tombstones(c) /\ u \notin p.present) \/ u \in c.removed THEN NoRow
           ELSE IF c.whole[u] > 0 /\ Admitted(p, c, u)
             THEN [ver |-> c.whole[u], epoch |-> s.epoch]
           ELSE IF c.patched[u] > 0 /\ Stored(s, u) # NoRow
             THEN [Stored(s, u) EXCEPT !.ver = c.patched[u]]
           ELSE Stored(s, u)
  /\ (p.sel.validity # s.server.validity /\ ~Tombstones(c)) =>
       \A u \in Uids : Stored(t, u) = Stored(s, u)

\* p once it has committed the first of its chunks.
Committed(p, q) ==
  /\ q.stage = p.stage /\ q.window = p.window /\ q.prior = p.prior /\ q.sel = p.sel
  /\ q.todo = p.todo /\ q.present = p.present /\ q.below = p.below
  /\ q.chunks = Tail(p.chunks)

LEMMA SameServer ==
  ASSUME NEW s, NEW t, t.server = s.server, t.speaks = s.speaks, t.depth = s.depth
  PROVE  /\ \A k : (Past(t, k) <=> Past(s, k)) /\ (CursorSound(t, k) <=> CursorSound(s, k))
         /\ \A k, u : (Under(t, k, u) <=> Under(s, k, u)) /\ (Kept(t, k, u) <=> Kept(s, k, u))
         /\ \A u, x, m : AsOf(t, u, x, m) <=> AsOf(s, u, x, m)
         /\ \A sel, f : ReadSound(t, sel, f) <=> ReadSound(s, sel, f)
         /\ \A u : (Gone(t, u) <=> Gone(s, u)) /\ (On(t, u) <=> On(s, u))
<1>2. \A u : On(t, u) <=> On(s, u)
  BY DEF On
<1>3. \A k : (Past(t, k) <=> Past(s, k)) /\ (CursorSound(t, k) <=> CursorSound(s, k))
  BY DEF Past, CursorSound
<1>4. \A k, u : Under(t, k, u) <=> Under(s, k, u)
  BY <1>2 DEF Under
<1>5. \A u, x, m : AsOf(t, u, x, m) <=> AsOf(s, u, x, m)
  BY DEF AsOf
<1>6. \A sel, f : ReadSound(t, sel, f) <=> ReadSound(s, sel, f)
  BY <1>2, <1>5 DEF ReadSound
<1>7. \A u : Gone(t, u) <=> Gone(s, u)
  BY DEF Gone
<1> QED
  BY <1>2, <1>3, <1>4, <1>5, <1>6, <1>7 DEF Kept

\* What one commit does to the stored copy of a message the server has.
LEMMA AppliedTo ==
  ASSUME NEW s \in World, NEW t \in World, NEW p \in Pass, NEW c \in Chunk,
         Applied(s, t, p, c), ChunkSound(s, p, c), p.sel.validity = s.server.validity,
         NEW u \in Uids, On(s, u), Tombstones(c) => u \in p.present
  PROVE  \/ /\ c.whole[u] > 0 /\ Held(t, u)
            /\ AsOf(t, u, Stored(t, u).ver, p.sel.modseq)
         \/ /\ ~(c.whole[u] > 0 /\ Admitted(p, c, u))
            /\ Held(s, u) => Held(t, u)
            /\ c.patched[u] > 0 /\ Held(s, u) => AsOf(t, u, Stored(t, u).ver, p.sel.modseq)
            /\ ~(c.patched[u] > 0) => Stored(t, u) = Stored(s, u)
<1>1. u \notin c.removed
  BY DEF ChunkSound, Gone, On
<1>2. /\ Stored(s, u) \in [ver : 0..MaxModseq, epoch : 0..MaxClears]
      /\ s.server.validity \in Validities
  BY WorldFields DEF World, Stored
<1>3. /\ c.whole[u] > 0 => AsOf(t, u, c.whole[u], p.sel.modseq)
      /\ c.patched[u] > 0 => AsOf(t, u, c.patched[u], p.sel.modseq)
  BY DEF ChunkSound, ReadSound, AsOf, Applied
<1>4. t.epoch = s.epoch
  BY DEF Applied
<1>5. CASE c.whole[u] > 0 /\ Admitted(p, c, u)
  <2>1. Stored(t, u) = [ver |-> c.whole[u], epoch |-> s.epoch]
    BY <1>1, <1>5 DEF Applied
  <2> QED
    BY <1>3, <1>4, <1>5, <2>1 DEF Held
<1>6. CASE ~(c.whole[u] > 0 /\ Admitted(p, c, u)) /\ c.patched[u] > 0 /\ Stored(s, u) # NoRow
  <2>1. Stored(t, u) = [Stored(s, u) EXCEPT !.ver = c.patched[u]]
    BY <1>1, <1>6 DEF Applied
  <2>2. Stored(t, u).ver = c.patched[u] /\ Stored(t, u).epoch = Stored(s, u).epoch
    BY <1>2, <2>1
  <2> QED
    BY <1>3, <1>4, <1>6, <2>2 DEF Held
<1>7. CASE ~(c.whole[u] > 0 /\ Admitted(p, c, u)) /\ ~(c.patched[u] > 0 /\ Stored(s, u) # NoRow)
  <2>1. Stored(t, u) = Stored(s, u)
    BY <1>1, <1>7 DEF Applied
  <2>2. Held(s, u) => Stored(s, u) # NoRow
    BY DEF Held, NoRow
  <2> QED
    BY <1>4, <1>7, <2>1, <2>2 DEF Held
<1> QED
  BY <1>5, <1>6, <1>7

LEMMA AsOfEarlier ==
  ASSUME NEW s \in World, NEW u \in Uids, NEW x, NEW m \in Nat, NEW n \in Nat,
         s.speaks # "upgraded" => m <= n, AsOf(s, u, x, n)
  PROVE  AsOf(s, u, x, m)
<1>1. s.server.mail[u] \in Nat
  BY WorldFields
<1> QED
  BY <1>1 DEF AsOf

LEMMA GoodCommitted ==
  ASSUME NEW s \in World, NEW t \in World, NEW p \in Pass, NEW c \in Chunk,
         Applied(s, t, p, c), ChunkSound(s, p, c), p.sel.validity = s.server.validity,
         NEW u \in Uids, On(s, u), Tombstones(c) => u \in p.present,
         NEW m \in Nat, s.speaks # "upgraded" => m <= p.sel.modseq, Good(s, u, m)
  PROVE  Good(t, u, m)
<1>1. t.speaks = s.speaks /\ t.server = s.server /\ p.sel.modseq \in Nat
  BY PassFields DEF Applied
<1>2. AsOf(t, u, Stored(t, u).ver, p.sel.modseq) => AsOf(t, u, Stored(t, u).ver, m)
  BY <1>1, AsOfEarlier
<1>3. AsOf(s, u, Stored(s, u).ver, m) => AsOf(t, u, Stored(s, u).ver, m)
  BY <1>1 DEF AsOf
<1> QED
  BY <1>2, <1>3, AppliedTo DEF Good

-------------------------------------------------------------------------------
(* A commit keeps every promise *)

\* The chunks after the first, and where they were.
LEMMA TailChunks ==
  ASSUME NEW p \in Pass, p.chunks # <<>>
  PROVE  /\ Head(p.chunks) = p.chunks[1] /\ Head(p.chunks) \in Chunk
         /\ 1 \in 1..Len(p.chunks) /\ Len(p.chunks) \in Nat
         /\ Tail(p.chunks) \in Seq(Chunk) /\ Len(Tail(p.chunks)) = Len(p.chunks) - 1
         /\ \A i \in 1..Len(Tail(p.chunks)) :
              i + 1 \in 1..Len(p.chunks) /\ Tail(p.chunks)[i] = p.chunks[i + 1]
         /\ \A i \in 1..Len(p.chunks) :
              i # 1 => i - 1 \in 1..Len(Tail(p.chunks)) /\ Tail(p.chunks)[i - 1] = p.chunks[i]
<1>1. p.chunks \in Seq(Chunk) /\ Len(p.chunks) \in Nat
  BY PassFields
<1>2. /\ Head(p.chunks) \in Chunk /\ Tail(p.chunks) \in Seq(Chunk)
      /\ Len(Tail(p.chunks)) = Len(p.chunks) - 1
      /\ \A i \in 1..Len(Tail(p.chunks)) : Tail(p.chunks)[i] = p.chunks[i + 1]
  BY <1>1, HeadTailProperties
<1>3. Head(p.chunks) = p.chunks[1] /\ 1 \in 1..Len(p.chunks)
  BY <1>1
<1>4. \A i \in 1..Len(Tail(p.chunks)) : i + 1 \in 1..Len(p.chunks)
  BY <1>1, <1>2
<1>5. ASSUME NEW i \in 1..Len(p.chunks), i # 1
      PROVE  i - 1 \in 1..Len(Tail(p.chunks)) /\ Tail(p.chunks)[i - 1] = p.chunks[i]
  <2>1. i - 1 \in 1..Len(Tail(p.chunks)) /\ (i - 1) + 1 = i
    BY <1>1, <1>2, <1>5
  <2>2. Tail(p.chunks)[i - 1] = p.chunks[(i - 1) + 1]
    BY <1>2, <2>1
  <2> QED
    BY <2>1, <2>2
<1> QED
  BY <1>1, <1>2, <1>3, <1>4, <1>5

LEMMA DueCommitted ==
  ASSUME NEW s \in World, NEW t \in World, NEW p \in Pass, NEW q, p.chunks # <<>>,
         Committed(p, q), Applied(s, t, p, Head(p.chunks)),
         ChunkSound(s, p, Head(p.chunks)), p.sel.validity = s.server.validity,
         NEW u \in Uids, On(s, u), Tombstones(Head(p.chunks)) => u \in p.present,
         Date[u] >= p.window,
         NEW m \in Nat, s.speaks # "upgraded" => m <= p.sel.modseq, Due(s, p, u, m)
  PROVE  Due(t, q, u, m)
<1> DEFINE c == Head(p.chunks)
<1>1. c \in Chunk /\ c = p.chunks[1]
  BY TailChunks
<1>2. q.chunks = Tail(p.chunks)
  BY DEF Committed
<1>3. t.speaks = s.speaks /\ t.server = s.server /\ p.sel.modseq \in Nat
  BY PassFields DEF Applied
<1>4. AsOf(t, u, Stored(t, u).ver, p.sel.modseq) => AsOf(t, u, Stored(t, u).ver, m)
  BY <1>3, AsOfEarlier
<1>5. AsOf(s, u, Stored(s, u).ver, m) => AsOf(t, u, Stored(s, u).ver, m)
  BY <1>3 DEF AsOf
<1>6. (c.whole[u] > 0) => Admitted(p, c, u)
  BY DEF Admitted
<1>7. ToWrite(p, u) => (c.whole[u] > 0 \/ ToWrite(q, u))
  <2> SUFFICES ASSUME NEW i \in 1..Len(p.chunks), p.chunks[i].whole[u] > 0
               PROVE  c.whole[u] > 0 \/ ToWrite(q, u)
    BY DEF ToWrite
  <2>1. CASE i = 1
    BY <1>1, <2>1
  <2>2. CASE i # 1
    <3>1. i - 1 \in 1..Len(q.chunks) /\ q.chunks[i - 1] = p.chunks[i]
      BY <1>2, <2>2, TailChunks
    <3> QED
      BY <3>1 DEF ToWrite
  <2> QED
    BY <2>1, <2>2
<1>8. ToPatch(p, u) => (c.patched[u] > 0 \/ ToPatch(q, u))
  <2> SUFFICES ASSUME NEW i \in 1..Len(p.chunks), p.chunks[i].patched[u] > 0
               PROVE  c.patched[u] > 0 \/ ToPatch(q, u)
    BY DEF ToPatch
  <2>1. CASE i = 1
    BY <1>1, <2>1
  <2>2. CASE i # 1
    <3>1. i - 1 \in 1..Len(q.chunks) /\ q.chunks[i - 1] = p.chunks[i]
      BY <1>2, <2>2, TailChunks
    <3> QED
      BY <3>1 DEF ToPatch
  <2> QED
    BY <2>1, <2>2
<1> HIDE DEF c
<1>9. \/ /\ c.whole[u] > 0 /\ Held(t, u)
         /\ AsOf(t, u, Stored(t, u).ver, p.sel.modseq)
      \/ /\ ~(c.whole[u] > 0 /\ Admitted(p, c, u))
         /\ Held(s, u) => Held(t, u)
         /\ c.patched[u] > 0 /\ Held(s, u) => AsOf(t, u, Stored(t, u).ver, p.sel.modseq)
         /\ ~(c.patched[u] > 0) => Stored(t, u) = Stored(s, u)
  <2>1. c \in Chunk /\ Applied(s, t, p, c) /\ ChunkSound(s, p, c) /\ (Tombstones(c) => u \in p.present)
    BY <1>1 DEF c
  <2> QED
    BY <2>1, AppliedTo
<1> QED
  BY <1>4, <1>5, <1>6, <1>7, <1>8, <1>9 DEF Due

\* With nothing left to commit, what is due is stored.
LEMMA DueDone ==
  ASSUME NEW s, NEW p, Len(p.chunks) = 0, NEW u, NEW m, Due(s, p, u, m)
  PROVE  Good(s, u, m)
<1>1. 1..0 = {}
  OBVIOUS
<1>2. ~ToWrite(p, u) /\ ~ToPatch(p, u)
  BY <1>1 DEF ToWrite, ToPatch
<1> QED
  BY <1>2 DEF Due, Good

LEMMA CommitKeeps ==
  ASSUME NEW s \in World, NEW t \in World, NEW p \in Pass, NEW q \in Pass, p.chunks # <<>>,
         Committed(p, q), Applied(s, t, p, Head(p.chunks)),
         PassSound(s, p), CursorSound(s, s.cursor), CoveredGood(s, s.cursor)
  PROVE  PassSound(t, q) /\ CursorSound(t, t.cursor) /\ CoveredGood(t, t.cursor)
<1> DEFINE c == Head(p.chunks)
<1>1. BaseSound(s, p) /\ ChunksSound(s, p) /\ StageSound(s, p)
  BY DEF PassSound
<1>2. /\ c = p.chunks[1] /\ c \in Chunk /\ 1 \in 1..Len(p.chunks) /\ Len(p.chunks) \in Nat
      /\ Len(q.chunks) = Len(p.chunks) - 1
      /\ \A i \in 1..Len(q.chunks) : i + 1 \in 1..Len(p.chunks) /\ q.chunks[i] = p.chunks[i + 1]
  BY TailChunks DEF Committed
<1>3. ChunkSound(s, p, c) /\ (1 < Len(p.chunks) => c.advance = NoCursor)
  BY <1>1, <1>2 DEF ChunksSound
<1>4. /\ q.stage = p.stage /\ q.window = p.window /\ q.prior = p.prior /\ q.sel = p.sel
      /\ q.todo = p.todo /\ q.present = p.present /\ q.below = p.below
  BY DEF Committed
<1>5. /\ t.server = s.server /\ t.speaks = s.speaks /\ t.epoch = s.epoch /\ t.depth = s.depth
      /\ t.cursor = IF c.advance = NoCursor THEN s.cursor ELSE c.advance
  BY DEF Applied
<1>6. Applied(s, t, p, c) /\ c.advance \in Cursor
  BY <1>2 DEF Chunk
<1> HIDE DEF c
<1>7. p.sel.modseq \in Nat /\ s.cursor \in Cursor /\ p.sel.validity > 0
  BY <1>3, PassFields, WorldFields DEF ChunkSound
<1>8. ASSUME NEW u \in Uids, NEW k \in Cursor, Kept(t, k, u), k.validity = p.sel.validity,
             k.floor = p.window, NEW m \in Nat, s.speaks # "upgraded" => m <= p.sel.modseq,
             Due(s, p, u, m), Tombstones(c) => u \in p.present
      PROVE  Due(t, q, u, m)
  <2>1. Kept(s, k, u)
    BY <1>5, <1>8, SameServer
  <2>2. On(s, u) /\ p.sel.validity = s.server.validity /\ Date[u] >= p.window
    BY <1>8, <2>1 DEF Kept, Under
  <2> QED
    BY <1>3, <1>6, <1>8, <2>2, DueCommitted DEF c
<1>9. CursorSound(t, t.cursor)
  <2>1. CASE c.advance = NoCursor
    BY <1>5, <2>1, SameServer
  <2>2. CASE c.advance # NoCursor
    BY <1>3, <1>5, <2>2, SameServer DEF ChunkSound, AdvanceSound
  <2> QED
    BY <2>1, <2>2
<1>10. CoveredGood(t, t.cursor)
  <2>1. CASE c.advance = NoCursor
    <3> SUFFICES ASSUME NEW u \in Uids, Kept(t, s.cursor, u) PROVE Good(t, u, s.cursor.modseq)
      BY <1>5, <2>1 DEF CoveredGood
    <3>1. Kept(s, s.cursor, u) /\ On(s, u) /\ ~Tombstones(c)
      BY <1>5, <2>1, SameServer DEF Kept, Under, Tombstones
    <3>2. Good(s, u, s.cursor.modseq) /\ s.cursor.modseq \in Nat
      BY <1>7, <3>1, CursorFields DEF CoveredGood
    <3>3. CASE p.sel.validity = s.server.validity
      <4>1. s.speaks # "upgraded" => s.cursor.modseq <= p.sel.modseq
        BY <1>1, <1>7 DEF BaseSound
      <4> QED
        BY <1>2, <1>3, <1>6, <3>1, <3>2, <3>3, <4>1, GoodCommitted
    <3>4. CASE p.sel.validity # s.server.validity
      <4>1. Stored(t, u) = Stored(s, u)
        BY <1>6, <3>1, <3>4 DEF Applied
      <4> QED
        BY <1>5, <3>2, <4>1 DEF Good, Held, AsOf
    <3> QED
      BY <3>3, <3>4
  <2>2. CASE c.advance # NoCursor
    <3> DEFINE k == c.advance
    <3>1. AdvanceSound(s, p, k, c.mode) /\ t.cursor = k /\ k \in Cursor
      BY <1>3, <1>5, <1>6, <2>2 DEF ChunkSound
    <3>2. Len(q.chunks) = 0
      <4>1. ~(1 < Len(p.chunks))
        BY <1>3, <2>2
      <4>2. Len(p.chunks) >= 1
        BY <1>2
      <4>3. Len(p.chunks) \in Nat /\ Len(q.chunks) = Len(p.chunks) - 1
        BY <1>2
      <4>4. \A a \in Nat : \A b : (~(1 < a) /\ a >= 1 /\ b = a - 1) => b = 0
        OBVIOUS
      <4> QED
        BY <4>1, <4>2, <4>3, <4>4, Zenon
    <3> HIDE DEF k
    <3> SUFFICES ASSUME NEW u \in Uids, Kept(t, k, u) PROVE Good(t, u, k.modseq)
      BY <3>1 DEF CoveredGood
    <3>3. Kept(s, k, u)
      BY <1>5, SameServer
    <3>4. /\ k.validity = p.sel.validity /\ k.floor = p.window /\ k.modseq \in Nat
          /\ s.speaks # "upgraded" => k.modseq <= p.sel.modseq
          /\ Due(s, p, u, k.modseq)
      BY <3>1, <3>3, CursorFields DEF AdvanceSound
    <3>5. Tombstones(c) => u \in p.present
      BY <3>1, <3>3 DEF AdvanceSound, Tombstones, Kept
    <3>6. Due(t, q, u, k.modseq)
      BY <1>8, <3>1, <3>4, <3>5
    <3> QED
      BY <3>2, <3>6, DueDone
  <2> QED
    BY <2>1, <2>2
<1>11. BaseSound(t, q)
  <2>1. s.speaks # "upgraded" => t.cursor.modseq <= p.sel.modseq
    BY <1>1, <1>3, <1>5, <1>7 DEF BaseSound, ChunkSound, AdvanceSound
  <2>2. CursorSound(t, p.prior) /\ Past(t, p.sel)
    BY <1>1, <1>5, SameServer DEF BaseSound
  <2> QED
    BY <1>1, <1>4, <1>5, <2>1, <2>2 DEF BaseSound
<1>12. ChunksSound(t, q)
  <2> SUFFICES ASSUME NEW i \in 1..Len(q.chunks)
               PROVE  /\ ChunkSound(t, q, q.chunks[i])
                      /\ i < Len(q.chunks) => q.chunks[i].advance = NoCursor
    BY DEF ChunksSound
  <2> DEFINE d == q.chunks[i]
  <2>1. /\ i + 1 \in 1..Len(p.chunks) /\ d = p.chunks[i + 1]
        /\ i < Len(q.chunks) => i + 1 < Len(p.chunks)
        /\ 1 < Len(p.chunks)
    BY <1>2
  <2>2. ChunkSound(s, p, d) /\ (i + 1 < Len(p.chunks) => d.advance = NoCursor)
    BY <1>1, <2>1 DEF ChunksSound
  <2>3. d \in Chunk /\ d.advance \in Cursor
    <3>1. d \in Chunk
      BY <2>1, PassFields
    <3> QED
      BY <3>1 DEF Chunk
  <2>4. ~Tombstones(c)
    BY <1>3, <2>1 DEF Tombstones
  <2> HIDE DEF d
  <2>5. ASSUME d.advance # NoCursor PROVE AdvanceSound(t, q, d.advance, d.mode)
    <3> DEFINE k == d.advance
    <3>1. AdvanceSound(s, p, k, d.mode) /\ k \in Cursor /\ k.modseq \in Nat
      BY <2>2, <2>3, <2>5, CursorFields DEF ChunkSound
    <3> HIDE DEF k
    <3>2. CursorSound(t, k)
      BY <1>5, <3>1, SameServer DEF AdvanceSound
    <3>3. ASSUME NEW u \in Uids, Kept(t, k, u) PROVE Due(t, q, u, k.modseq)
      <4>1. Kept(s, k, u)
        BY <1>5, <3>3, SameServer
      <4>2. /\ k.validity = p.sel.validity /\ k.floor = p.window
            /\ s.speaks # "upgraded" => k.modseq <= p.sel.modseq
            /\ Due(s, p, u, k.modseq)
        BY <3>1, <4>1 DEF AdvanceSound
      <4> QED
        BY <1>8, <2>4, <3>1, <3>3, <4>2
    <3>4. ASSUME NEW u \in Uids, Under(t, k, u), d.mode = "Reconcile" PROVE u \in q.present
      BY <1>4, <1>5, <3>1, <3>4, SameServer DEF AdvanceSound
    <3> QED
      BY <1>4, <1>5, <3>1, <3>2, <3>3, <3>4 DEF AdvanceSound, k
  <2>6. q.sel.validity = t.server.validity =>
          /\ ReadSound(t, q.sel, d.whole) /\ ReadSound(t, q.sel, d.patched)
          /\ \A u \in d.removed : Gone(t, u)
    BY <1>4, <1>5, <2>2, SameServer DEF ChunkSound
  <2> QED
    BY <1>4, <1>7, <2>1, <2>2, <2>5, <2>6 DEF ChunkSound, d
<1>13. BackfillSound(s, p) => BackfillSound(t, q)
  <2> SUFFICES ASSUME BackfillSound(s, p) PROVE BackfillSound(t, q)
    OBVIOUS
  <2> DEFINE F == Frontier(p, p.sel)
  <2>1. Frontier(q, q.sel) = F /\ (Fresh(q) <=> Fresh(p)) /\ \A u : ToFetch(q, u) <=> ToFetch(p, u)
    BY <1>4 DEF Frontier, Fresh, ToFetch
  <2>2. /\ F \in Cursor /\ F.modseq \in Nat /\ F.floor = p.window /\ F.validity = p.sel.validity
        /\ s.speaks # "upgraded" => F.modseq <= p.sel.modseq
    BY <1>1, FrontierTyped, FrontierPast, CursorFields DEF BackfillSound
  <2> HIDE DEF F
  <2>3. ~Tombstones(c) /\ NoTombstones(q)
    BY <1>2 DEF BackfillSound, NoTombstones, Tombstones
  <2>4. ASSUME NEW u \in Uids, Kept(t, F, u) PROVE ToFetch(q, u) \/ Due(t, q, u, F.modseq)
    <3>1. Kept(s, F, u)
      BY <1>5, <2>4, SameServer
    <3>2. ToFetch(p, u) \/ Due(s, p, u, F.modseq)
      BY <3>1 DEF BackfillSound, F
    <3> QED
      BY <1>8, <2>1, <2>2, <2>3, <2>4, <3>2
  <2>5. ASSUME NEW u \in Uids, Under(t, F, u), Fresh(p) PROVE ToFetch(q, u) \/ u \in q.present
    BY <1>4, <1>5, <2>1, <2>5, SameServer DEF BackfillSound, F
  <2> QED
    BY <1>4, <2>1, <2>3, <2>4, <2>5 DEF BackfillSound
<1>14. PageSound(s, p) => PageSound(t, q)
  <2> SUFFICES ASSUME PageSound(s, p) PROVE PageSound(t, q)
    OBVIOUS
  <2> DEFINE F == NextCursor(p, p.sel)
  <2>1. NextCursor(q, q.sel) = F
    BY <1>4 DEF NextCursor
  <2>2. F \in Cursor /\ F.floor = p.window /\ F.validity = p.sel.validity
    BY NextTyped
  <2> HIDE DEF F
  <2>3. ~Tombstones(c) /\ NoTombstones(q)
    BY <1>2 DEF PageSound, NoTombstones, Tombstones
  <2>4. ASSUME NEW u \in Uids, Kept(t, F, u) PROVE u < q.below \/ Due(t, q, u, q.sel.modseq)
    <3>1. Kept(s, F, u)
      BY <1>5, <2>4, SameServer
    <3>2. u < p.below \/ Due(s, p, u, p.sel.modseq)
      BY <3>1 DEF PageSound, F
    <3>3. s.speaks # "upgraded" => p.sel.modseq <= p.sel.modseq
      BY <1>7
    <3>4. Due(s, p, u, p.sel.modseq) => Due(t, q, u, p.sel.modseq)
      BY <1>7, <1>8, <2>2, <2>3, <2>4, <3>3
    <3> QED
      BY <1>4, <3>2, <3>4
  <2>5. ASSUME NEW u \in Uids, Under(t, F, u) PROVE u < q.below \/ u \in q.present
    BY <1>4, <1>5, <2>5, SameServer DEF PageSound, F
  <2> QED
    BY <1>4, <2>1, <2>3, <2>4, <2>5 DEF PageSound
<1>15. StageSound(t, q)
  BY <1>1, <1>4, <1>13, <1>14 DEF StageSound, Delta
<1> QED
  BY <1>9, <1>10, <1>11, <1>12, <1>15 DEF PassSound

-------------------------------------------------------------------------------
(* A fetch: chunks that carry what was read; the group of a backfill *)

-------------------------------------------------------------------------------
(* A fetch *)

\* q follows p on the same session.
SameSession(p, q) == q.window = p.window /\ q.prior = p.prior /\ q.sel = p.sel

\* f holds messages as the server has them.
ReadOf(s, f) == \A u \in Uids : f[u] \in {0, s.server.mail[u]}

LEMMA ReadOfSound ==
  ASSUME NEW s \in World, NEW sel, NEW f, ReadOf(s, f)
  PROVE  ReadSound(s, sel, f)
<1>1. \A u \in Uids : f[u] > 0 => f[u] = s.server.mail[u]
  BY DEF ReadOf
<1> QED
  BY <1>1 DEF ReadSound, AsOf

LEMMA CarriedSound ==
  ASSUME NEW s \in World, NEW q, q.sel.validity > 0,
         NEW whole, NEW patched, NEW removed, NEW k, NEW mode,
         Carries(q.chunks, whole, patched, removed, k, mode),
         ReadSound(s, q.sel, whole), ReadSound(s, q.sel, patched), \A u \in removed : Gone(s, u),
         k # NoCursor => AdvanceSound(s, q, k, mode)
  PROVE  ChunksSound(s, q)
<1> SUFFICES ASSUME NEW i \in 1..Len(q.chunks)
             PROVE  /\ ChunkSound(s, q, q.chunks[i])
                    /\ i < Len(q.chunks) => q.chunks[i].advance = NoCursor
  BY DEF ChunksSound
<1> DEFINE c == q.chunks[i]
<1>1. /\ c.removed \subseteq removed
      /\ \A u \in Uids : c.whole[u] \in {0, whole[u]}
      /\ \A u \in Uids : c.patched[u] \in {0, patched[u]}
      /\ c.advance # NoCursor => i = Len(q.chunks) /\ c.advance = k /\ c.mode = mode
  BY DEF Carries
<1>2. Len(q.chunks) \in Nat
  BY DEF Carries
<1> HIDE DEF c
<1>3. ReadSound(s, q.sel, c.whole)
  <2>1. \A u \in Uids : c.whole[u] > 0 => c.whole[u] = whole[u]
    BY <1>1
  <2> QED
    BY <2>1 DEF ReadSound
<1>4. ReadSound(s, q.sel, c.patched)
  <2>1. \A u \in Uids : c.patched[u] > 0 => c.patched[u] = patched[u]
    BY <1>1
  <2> QED
    BY <2>1 DEF ReadSound
<1>5. i < Len(q.chunks) => c.advance = NoCursor
  BY <1>1, <1>2
<1> QED
  BY <1>1, <1>3, <1>4, <1>5 DEF ChunkSound, c

LEMMA CarriedReads ==
  ASSUME NEW s \in World, NEW q, q.sel.validity > 0,
         NEW whole, NEW patched, NEW none, none = {}, NEW k, NEW mode,
         Carries(q.chunks, whole, patched, none, k, mode),
         ReadSound(s, q.sel, whole), ReadSound(s, q.sel, patched),
         k # NoCursor => AdvanceSound(s, q, k, mode)
  PROVE  ChunksSound(s, q)
<1>1. \A u \in none : Gone(s, u)
  OBVIOUS
<1> QED
  BY <1>1, CarriedSound

LEMMA CarriedDue ==
  ASSUME NEW s, NEW q, NEW whole, NEW patched, NEW removed, NEW k, NEW mode,
         Carries(q.chunks, whole, patched, removed, k, mode), NEW u \in Uids, NEW m
  PROVE  /\ whole[u] > 0 => Due(s, q, u, m)
         /\ Held(s, u) /\ patched[u] > 0 => Due(s, q, u, m)
         /\ Good(s, u, m) => Due(s, q, u, m)
<1>1. whole[u] > 0 => ToWrite(q, u)
  BY DEF Carries, ToWrite
<1>2. patched[u] > 0 => ToPatch(q, u)
  BY DEF Carries, ToPatch
<1> QED
  BY <1>1, <1>2 DEF Due, Good

LEMMA NoChunks ==
  ASSUME NEW s, NEW q, q.chunks = <<>>
  PROVE  /\ ChunksSound(s, q) /\ Len(q.chunks) = 0 /\ NoTombstones(q)
         /\ \A u, m : Due(s, q, u, m) <=> Good(s, u, m)
<1>1. Len(q.chunks) = 0 /\ 1..0 = {}
  OBVIOUS
<1>2. \A u : ~ToWrite(q, u) /\ ~ToPatch(q, u)
  BY <1>1 DEF ToWrite, ToPatch
<1> QED
  BY <1>1, <1>2 DEF ChunksSound, Due, Good, NoTombstones

LEMMA EndSound ==
  ASSUME NEW s, NEW q, q.stage = "end"
  PROVE  StageSound(s, q)
BY DEF StageSound

LEMMA BaseFollows ==
  ASSUME NEW s, NEW p, NEW q, SameSession(p, q), BaseSound(s, p)
  PROVE  BaseSound(s, q)
BY DEF SameSession, BaseSound

\* The rest of a backfill once its first group is fetched.
LEMMA TailTodo ==
  ASSUME NEW p \in Pass, p.todo # <<>>, Descending(p.todo)
  PROVE  /\ Head(p.todo) \in SUBSET Uids /\ Head(p.todo) # {}
         /\ Tail(p.todo) \in Seq(SUBSET Uids) /\ Descending(Tail(p.todo))
         /\ Len(p.todo) # 1 => Tail(p.todo) # <<>>
         /\ \A i \in 1..Len(Tail(p.todo)) : \A u \in Tail(p.todo)[i], v \in Head(p.todo) : u < v
         /\ \A u : ToFetch(p, u) =>
              u \in Head(p.todo) \/ (\E i \in 1..Len(Tail(p.todo)) : u \in Tail(p.todo)[i])
         /\ Len(p.todo) = 1 => \A u : ToFetch(p, u) => u \in Head(p.todo)
<1> DEFINE d == p.todo
           e == Tail(d)
<1>1. d \in Seq(SUBSET Uids) /\ Len(d) \in Nat /\ d # <<>>
  BY PassFields
<1>2. /\ Head(d) \in SUBSET Uids /\ e \in Seq(SUBSET Uids) /\ Len(e) = Len(d) - 1
      /\ \A i \in 1..Len(e) : e[i] = d[i + 1]
  BY <1>1, HeadTailProperties
<1>3. Head(d) = d[1] /\ 1 \in 1..Len(d)
  BY <1>1
<1>4. \A i \in 1..Len(e) : i + 1 \in 1..Len(d) /\ 1 < i + 1
  BY <1>1, <1>2
<1>5. \A i, j \in 1..Len(e) : i < j => i + 1 < j + 1
  BY <1>1, <1>2
<1>a. (\A i \in 1..Len(d) : d[i] # {})
      /\ (\A i, j \in 1..Len(d) : i < j => \A u \in d[i], v \in d[j] : v < u)
  BY DEF Descending
<1>b. \A u : ToFetch(p, u) => \E i \in 1..Len(d) : u \in d[i]
  BY DEF ToFetch
<1>c. e = Tail(p.todo) /\ d = p.todo
  OBVIOUS
<1> HIDE DEF d, e
<1>6. \A i \in 1..Len(e) : e[i] # {}
  BY <1>2, <1>4, <1>a
<1>7. \A i, j \in 1..Len(e) : i < j => \A u \in e[i], v \in e[j] : v < u
  BY <1>2, <1>4, <1>5, <1>a
<1>8. Descending(e)
  BY <1>6, <1>7 DEF Descending
<1>9. \A i \in 1..Len(e) : \A u \in e[i], v \in Head(d) : u < v
  BY <1>2, <1>3, <1>4, <1>a
<1>10. ASSUME NEW u, ToFetch(p, u)
       PROVE  /\ u \in Head(d) \/ (\E i \in 1..Len(e) : u \in e[i])
              /\ Len(d) = 1 => u \in Head(d)
  <2>1. PICK i \in 1..Len(d) : u \in d[i]
    BY <1>b, <1>10
  <2>2. CASE i = 1
    BY <1>3, <2>1, <2>2
  <2>3. CASE i # 1
    <3>a. \A n \in Nat : \A j \in 1..n :
            j # 1 => (j - 1 \in 1..(n - 1) /\ (j - 1) + 1 = j /\ n # 1)
      OBVIOUS
    <3>b. Len(d) \in Nat /\ Len(e) = Len(d) - 1
      BY <1>1, <1>2
    <3>1. i - 1 \in 1..Len(e) /\ (i - 1) + 1 = i /\ Len(d) # 1
      BY <2>1, <2>3, <3>a, <3>b
    <3>2. e[i - 1] = d[(i - 1) + 1]
      BY <1>2, <3>1
    <3> QED
      BY <2>1, <3>1, <3>2
  <2> QED
    BY <2>2, <2>3
<1>11. Len(d) # 1 => e # <<>>
  <2>1. Len(d) # 1 => Len(e) # 0
    BY <1>1, <1>2, <1>3
  <2>2. Len(<<>>) = 0
    OBVIOUS
  <2> QED
    BY <2>1, <2>2
<1> QED
  BY <1>2, <1>3, <1>a, <1>8, <1>9, <1>10, <1>11, <1>c

LEMMA GroupSound ==
  ASSUME NEW s \in World, NEW p \in Pass, NEW q \in Pass, PassSound(s, p),
         p.stage = "backfill", p.chunks = <<>>, p.sel.validity = s.server.validity,
         SameSession(p, q), q.todo = Tail(p.todo),
         q.present = IF Fresh(p) THEN p.present \cup {u \in Head(p.todo) : On(s, u)} ELSE p.present,
         NEW whole, \A u \in Uids : whole[u] = IF u \in Head(p.todo) THEN s.server.mail[u] ELSE 0,
         NEW k \in Cursor, NEW mode, NEW none, none = {},
         Carries(q.chunks, whole, Nothing, none, k, mode),
         \/ /\ Len(p.todo) = 1 /\ q.stage = "end" /\ k = Frontier(p, p.sel)
            /\ mode = "Reconcile" => Fresh(p)
         \/ /\ Len(p.todo) # 1 /\ q.stage = "backfill" /\ mode = "Additive"
            /\ k = [Frontier(p, p.sel) EXCEPT !.low = Min(Head(p.todo)), !.reconciled = FALSE]
  PROVE  PassSound(s, q)
<1> DEFINE F == Frontier(p, p.sel)
           group == Head(p.todo)
<1>1. BaseSound(s, p) /\ BackfillSound(s, p)
  BY DEF PassSound, StageSound
<1>2. /\ p.sel.validity > 0 /\ p.todo # <<>> /\ Descending(p.todo)
      /\ ~Fresh(p) => p.prior.validity = p.sel.validity
      /\ \A u \in Uids : Kept(s, F, u) => ToFetch(p, u) \/ Due(s, p, u, F.modseq)
      /\ Fresh(p) => \A u \in Uids : Under(s, F, u) => ToFetch(p, u) \/ u \in p.present
  BY <1>1 DEF BackfillSound
<1>3. /\ F \in Cursor /\ CursorSound(s, F)
      /\ s.speaks # "upgraded" => F.modseq <= p.sel.modseq
      /\ F.validity = p.sel.validity /\ F.low = 0 /\ F.floor = p.window
  BY <1>1, <1>2, FrontierTyped, FrontierPast
<1>4. /\ Frontier(q, q.sel) = F /\ (Fresh(q) <=> Fresh(p))
      /\ q.sel = p.sel /\ q.prior = p.prior /\ q.window = p.window
  BY DEF SameSession, Frontier, Fresh
<1>5. /\ group \in SUBSET Uids /\ group # {}
      /\ Len(p.todo) # 1 => Tail(p.todo) # <<>>
      /\ Descending(Tail(p.todo))
      /\ \A i \in 1..Len(Tail(p.todo)) : \A u \in Tail(p.todo)[i], v \in group : u < v
      /\ \A u : ToFetch(p, u) => u \in group \/ ToFetch(q, u)
      /\ Len(p.todo) = 1 => \A u : ToFetch(p, u) => u \in group
  BY <1>2, TailTodo DEF ToFetch
<1>6. ReadSound(s, q.sel, whole) /\ ReadSound(s, q.sel, Nothing)
  <2>1. ReadOf(s, whole) /\ ReadOf(s, Nothing)
    BY Constants DEF ReadOf
  <2> QED
    BY <2>1, ReadOfSound
<1> HIDE DEF F, group
<1>7. ASSUME NEW u \in Uids, Kept(s, F, u) PROVE ToFetch(q, u) \/ Due(s, q, u, F.modseq)
  <2>1. On(s, u)
    BY <1>7 DEF Kept, Under
  <2>2. CASE u \in group
    <3>1. whole[u] > 0
      BY <2>1, <2>2 DEF On, group
    <3> QED
      BY <3>1, CarriedDue
  <2>3. CASE Due(s, p, u, F.modseq)
    <3>1. Good(s, u, F.modseq)
      BY <2>3, NoChunks
    <3> QED
      BY <3>1, CarriedDue
  <2> QED
    BY <1>2, <1>5, <1>7, <2>2, <2>3
<1>8. ASSUME NEW u \in Uids, Under(s, F, u), Fresh(p) PROVE ToFetch(q, u) \/ u \in q.present
  <2>1. On(s, u)
    BY <1>8 DEF Under
  <2> QED
    BY <1>2, <1>5, <1>8, <2>1 DEF group
<1>9. BaseSound(s, q)
  BY <1>1, BaseFollows
<1>12. q.sel.validity > 0
  BY <1>2, <1>4
<1>10. CASE Len(p.todo) = 1
  <2>1. q.stage = "end" /\ k = F /\ (mode = "Reconcile" => Fresh(p))
    BY <1>10 DEF F
  <2>2. \A u \in Uids : ~ToFetch(q, u)
    <3>1. p.todo \in Seq(SUBSET Uids)
      BY PassFields
    <3>2. Len(q.todo) = 0 /\ 1..0 = {}
      BY <1>2, <1>10, <3>1, HeadTailProperties
    <3> QED
      BY <3>2 DEF ToFetch
  <2>3. AdvanceSound(s, q, F, mode)
    BY <1>3, <1>4, <1>7, <1>8, <2>1, <2>2 DEF AdvanceSound
  <2>4. ChunksSound(s, q)
    <3>1. k # NoCursor => AdvanceSound(s, q, k, mode)
      BY <2>1, <2>3
    <3> QED
      BY <1>6, <1>12, <3>1, CarriedReads
  <2> QED
    BY <1>9, <2>1, <2>4, EndSound DEF PassSound
<1>11. CASE Len(p.todo) # 1
  <2>1. /\ q.stage = "backfill" /\ mode = "Additive"
        /\ k = [F EXCEPT !.low = Min(group), !.reconciled = FALSE]
    BY <1>11 DEF F, group
  <2>2. /\ k.validity = F.validity /\ k.uidNext = F.uidNext /\ k.modseq = F.modseq
        /\ k.low = Min(group) /\ k.floor = F.floor
    BY <1>3, <2>1 DEF Cursor
  <2>3. Min(group) \in group
    BY <1>5, MinFacts
  <2>4. CursorSound(s, k)
    <3>1. k.validity # 0
      BY <1>2, <1>3, <2>2
    <3> QED
      BY <1>3, <2>2, <3>1 DEF CursorSound, Past
  <2>5. ASSUME NEW u \in Uids, Kept(s, k, u) PROVE Due(s, q, u, k.modseq)
    <3>1. Kept(s, F, u)
      BY <1>3, <2>2, <2>5, UidFields DEF Kept, Under
    <3>2. ~ToFetch(q, u)
      <4> SUFFICES ASSUME NEW i \in 1..Len(Tail(p.todo)), u \in Tail(p.todo)[i] PROVE FALSE
        BY DEF ToFetch
      <4>1. u < Min(group)
        BY <1>5, <2>3
      <4>2. Min(group) <= u
        BY <2>2, <2>5 DEF Kept, Under
      <4>3. Min(group) \in Nat /\ u \in Nat
        BY <1>5, <2>3, UidFields
      <4> QED
        BY <4>1, <4>2, <4>3
    <3> QED
      BY <1>7, <2>2, <3>1, <3>2
  <2>6. AdvanceSound(s, q, k, mode)
    BY <1>3, <1>4, <2>1, <2>2, <2>4, <2>5 DEF AdvanceSound
  <2>7. ChunksSound(s, q)
    BY <1>6, <1>12, <2>6, CarriedReads
  <2>8. NoTombstones(q)
    BY <2>1 DEF NoTombstones, Carries
  <2>9. q.todo # <<>> /\ Descending(q.todo)
    BY <1>5, <1>11
  <2>10. BackfillSound(s, q)
    BY <1>2, <1>4, <1>7, <1>8, <2>8, <2>9 DEF BackfillSound
  <2> QED
    BY <1>9, <2>1, <2>7, <2>10 DEF PassSound, StageSound
<1> QED
  BY <1>10, <1>11

-------------------------------------------------------------------------------
(* The fetches of a delta and of a snapshot *)

LEMMA ChangesSound ==
  ASSUME NEW s \in World, ServerSound(s), NEW p \in Pass, NEW q \in Pass, PassSound(s, p),
         p.stage = "changes", SameSession(p, q), q.chunks = p.chunks, q.stage = "arrivals",
         \A u \in Uids : q.patched[u] = IF u < p.prior.uidNext /\ s.server.mail[u] > p.prior.modseq
                                          THEN s.server.mail[u] ELSE 0,
         q.removed = {u \in Uids : u < p.prior.uidNext /\ s.server.gone[u] > p.prior.modseq}
  PROVE  PassSound(s, q)
<1>1. BaseSound(s, p) /\ Delta(p) /\ CoveredGood(s, p.prior)
  BY DEF PassSound, StageSound
<1>2. q.sel = p.sel /\ q.prior = p.prior /\ Delta(q) /\ BaseSound(s, q)
  BY <1>1, BaseFollows DEF SameSession, Delta
<1>3. p.prior.modseq \in Nat
  BY PassFields, CursorFields
<1>4. ReadSound(s, q.sel, q.patched)
  <2>1. ReadOf(s, q.patched)
    BY DEF ReadOf
  <2> QED
    BY <2>1, ReadOfSound
<1>5. ASSUME NEW u \in q.removed PROVE Gone(s, u)
  <2>1. u \in Uids /\ s.server.gone[u] > p.prior.modseq /\ s.server.gone[u] \in Nat
    BY <1>5, WorldFields
  <2>2. s.server.gone[u] > 0
    BY <1>3, <2>1
  <2> QED
    BY <2>1, <2>2 DEF ServerSound
<1>6. ASSUME NEW u \in Uids, Kept(s, q.prior, u)
      PROVE  /\ Held(s, u)
             /\ q.patched[u] > 0 \/ AsOf(s, u, Stored(s, u).ver, q.sel.modseq)
  <2>1. Good(s, u, p.prior.modseq) /\ On(s, u) /\ u < p.prior.uidNext
    BY <1>1, <1>2, <1>6 DEF CoveredGood, Kept, Under
  <2>2. s.server.mail[u] \in Nat
    BY WorldFields
  <2>3. CASE s.server.mail[u] > p.prior.modseq
    BY <2>1, <2>3 DEF Good, On
  <2>4. CASE ~(s.server.mail[u] > p.prior.modseq)
    BY <1>3, <2>1, <2>2, <2>4 DEF Good, AsOf
  <2> QED
    BY <2>3, <2>4
<1>7. ArrivalsSound(s, q)
  BY <1>4, <1>5, <1>6 DEF ArrivalsSound
<1>8. ChunksSound(s, q)
  BY <1>2, NoChunks DEF Delta
<1> QED
  BY <1>2, <1>7, <1>8 DEF PassSound, StageSound

\* A delta's next cursor covers what its prior did, and what came after.
LEMMA NextKept ==
  ASSUME NEW s \in World, NEW p \in Pass, BaseSound(s, p), Delta(p),
         NEW u \in Uids
  PROVE  /\ (Kept(s, NextCursor(p, p.sel), u) /\ u < p.prior.uidNext) => Kept(s, p.prior, u)
         /\ (Under(s, NextCursor(p, p.sel), u) /\ u < p.prior.uidNext) =>
              Under(s, p.prior, u) /\ Date[u] >= p.window
         /\ Under(s, NextCursor(p, p.sel), u) => /\ On(s, u) /\ u < p.sel.uidNext /\ Date[u] >= p.window
                                                 /\ p.sel.validity = s.server.validity
<1>1. /\ p.prior.floor \in Nat /\ p.window \in Nat /\ p.prior.uidNext \in Nat
      /\ u \in Nat /\ Date[u] \in Nat
  BY PassFields, CursorFields, UidFields
<1>2. p.prior.floor <= p.window /\ p.prior.validity = p.sel.validity /\ p.prior.low = 0
  BY DEF BaseSound, Delta
<1> QED
  BY <1>1, <1>2, NextTyped DEF Kept, Under

LEMMA ArrivalSound ==
  ASSUME NEW s \in World, NEW p \in Pass, NEW q \in Pass, PassSound(s, p),
         p.stage = "arrivals", p.sel.validity = s.server.validity,
         SameSession(p, q), q.stage = "end",
         NEW whole, \A u \in Uids : whole[u] = IF On(s, u) /\ p.sel.uidNext > p.prior.uidNext
                                                  /\ u >= p.prior.uidNext
                                                THEN s.server.mail[u] ELSE 0,
         NEW patched, \A u \in Uids : IF p.patched[u] > 0 THEN patched[u] = p.patched[u]
                                                            ELSE patched[u] \in {0, s.server.mail[u]},
         Carries(q.chunks, whole, patched, p.removed, NextCursor(p, p.sel), "Additive")
  PROVE  PassSound(s, q)
<1> DEFINE k == NextCursor(p, p.sel)
<1>1. BaseSound(s, p) /\ Delta(p) /\ ArrivalsSound(s, p)
  BY DEF PassSound, StageSound
<1>2. q.sel = p.sel /\ q.prior = p.prior /\ q.window = p.window /\ BaseSound(s, q)
  BY <1>1, BaseFollows DEF SameSession
<1>3. ReadSound(s, q.sel, whole)
  <2>1. ReadOf(s, whole)
    BY DEF ReadOf
  <2> QED
    BY <2>1, ReadOfSound
<1>4. ReadSound(s, q.sel, patched)
  <2> SUFFICES ASSUME NEW u \in Uids, On(s, u), patched[u] > 0
               PROVE  AsOf(s, u, patched[u], p.sel.modseq)
    BY <1>2 DEF ReadSound
  <2>1. CASE p.patched[u] > 0
    BY <1>1, <2>1 DEF ArrivalsSound, ReadSound
  <2>2. CASE ~(p.patched[u] > 0)
    BY <2>2 DEF AsOf
  <2> QED
    BY <2>1, <2>2
<1>5. \A u \in p.removed : Gone(s, u)
  BY <1>1 DEF ArrivalsSound
<1>6. ASSUME NEW u \in Uids, Kept(s, k, u) PROVE Due(s, q, u, k.modseq)
  <2>1. /\ On(s, u) /\ u < p.sel.uidNext
        /\ u < p.prior.uidNext => Kept(s, p.prior, u)
    BY <1>1, <1>6, NextKept DEF Kept
  <2>2. CASE u < p.prior.uidNext
    <3>1. Held(s, u) /\ (p.patched[u] > 0 \/ AsOf(s, u, Stored(s, u).ver, p.sel.modseq))
      BY <1>1, <2>1, <2>2 DEF ArrivalsSound
    <3>2. CASE p.patched[u] > 0
      <4>1. patched[u] > 0
        BY <3>2
      <4> QED
        BY <3>1, <4>1, CarriedDue
    <3>3. CASE AsOf(s, u, Stored(s, u).ver, p.sel.modseq)
      <4>1. Good(s, u, k.modseq)
        BY <3>1, <3>3, NextTyped DEF Good
      <4> QED
        BY <4>1, CarriedDue
    <3> QED
      BY <3>1, <3>2, <3>3
  <2>3. CASE ~(u < p.prior.uidNext)
    <3>1. u >= p.prior.uidNext /\ p.sel.uidNext > p.prior.uidNext
      BY <2>1, <2>3, UidFields, PassFields, CursorFields
    <3>2. whole[u] > 0
      BY <2>1, <3>1 DEF On
    <3> QED
      BY <3>2, CarriedDue
  <2> QED
    BY <2>2, <2>3
<1>7. AdvanceSound(s, q, k, "Additive")
  <2>1. /\ k.validity = p.sel.validity /\ k.floor = p.window /\ k.modseq = p.sel.modseq
        /\ p.sel.modseq \in Nat
    BY NextTyped, PassFields
  <2>2. CursorSound(s, k)
    BY <1>1, NextPast DEF BaseSound, Delta
  <2> HIDE DEF k
  <2> QED
    BY <1>2, <1>6, <2>1, <2>2 DEF AdvanceSound
<1>8. ChunksSound(s, q)
  <2>1. q.sel.validity > 0
    BY <1>1, <1>2 DEF Delta
  <2> QED
    BY <1>3, <1>4, <1>5, <1>7, <2>1, CarriedSound
<1> QED
  BY <1>2, <1>8, EndSound DEF PassSound

LEMMA FlagsSound ==
  ASSUME NEW s \in World, NEW p \in Pass, NEW q \in Pass, PassSound(s, p),
         p.stage = "flags", SameSession(p, q), q.chunks = p.chunks, q.stage = "fresh",
         NEW held, held = {u \in Uids : On(s, u) /\ Date[u] >= p.window /\ u < p.prior.uidNext},
         \A u \in Uids : q.patched[u] = IF u \in held THEN s.server.mail[u] ELSE 0,
         q.present = held
  PROVE  PassSound(s, q)
<1>1. BaseSound(s, p) /\ Delta(p) /\ CoveredGood(s, p.prior)
  BY DEF PassSound, StageSound
<1>2. q.sel = p.sel /\ q.prior = p.prior /\ q.window = p.window /\ Delta(q) /\ BaseSound(s, q)
  BY <1>1, BaseFollows DEF SameSession, Delta
<1>3. ReadSound(s, q.sel, q.patched)
  <2>1. ReadOf(s, q.patched)
    BY DEF ReadOf
  <2> QED
    BY <2>1, ReadOfSound
<1>4. \A u \in Uids : Kept(s, q.prior, u) => Held(s, u)
  BY <1>1, <1>2 DEF CoveredGood, Good
<1>5. ASSUME NEW u \in Uids, Under(s, q.prior, u), Date[u] >= q.window
      PROVE  u \in q.present /\ q.patched[u] > 0
  <2>1. u \in held /\ On(s, u)
    BY <1>2, <1>5 DEF Under
  <2> QED
    BY <2>1 DEF On
<1>6. FreshSound(s, q)
  BY <1>3, <1>4, <1>5 DEF FreshSound
<1>7. ChunksSound(s, q)
  BY <1>2, NoChunks DEF Delta
<1> QED
  BY <1>2, <1>6, <1>7 DEF PassSound, StageSound

LEMMA FreshFetchSound ==
  ASSUME NEW s \in World, NEW p \in Pass, NEW q \in Pass, PassSound(s, p),
         p.stage = "fresh", p.sel.validity = s.server.validity,
         SameSession(p, q), q.stage = "end",
         NEW arrivals, arrivals = {u \in Uids : On(s, u) /\ Date[u] >= p.window
                                                /\ u >= p.prior.uidNext /\ u < p.sel.uidNext},
         NEW whole, \A u \in Uids : whole[u] = IF u \in arrivals THEN s.server.mail[u] ELSE 0,
         q.present = p.present \cup arrivals,
         NEW none, none = {},
         Carries(q.chunks, whole, p.patched, none, NextCursor(p, p.sel), "Reconcile")
  PROVE  PassSound(s, q)
<1> DEFINE k == NextCursor(p, p.sel)
<1>1. BaseSound(s, p) /\ Delta(p) /\ FreshSound(s, p)
  BY DEF PassSound, StageSound
<1>2. q.sel = p.sel /\ q.prior = p.prior /\ q.window = p.window /\ BaseSound(s, q)
  BY <1>1, BaseFollows DEF SameSession
<1>3. ReadSound(s, q.sel, whole)
  <2>1. ReadOf(s, whole)
    BY DEF ReadOf
  <2> QED
    BY <2>1, ReadOfSound
<1>4. ReadSound(s, q.sel, p.patched)
  BY <1>1, <1>2 DEF FreshSound
<1>5. ASSUME NEW u \in Uids, Under(s, k, u)
      PROVE  /\ u < p.prior.uidNext => u \in p.present /\ p.patched[u] > 0
             /\ ~(u < p.prior.uidNext) => u \in arrivals
             /\ On(s, u)
  <2>1. /\ On(s, u) /\ u < p.sel.uidNext /\ Date[u] >= p.window
        /\ u < p.prior.uidNext => Under(s, p.prior, u)
    BY <1>1, <1>5, NextKept
  <2>2. ~(u < p.prior.uidNext) => u >= p.prior.uidNext
    BY UidFields, PassFields, CursorFields
  <2> QED
    BY <1>1, <2>1, <2>2 DEF FreshSound
<1>6. ASSUME NEW u \in Uids, Kept(s, k, u) PROVE Due(s, q, u, k.modseq)
  <2>1. CASE u < p.prior.uidNext
    <3>1. Held(s, u)
      BY <1>1, <1>6, <2>1, NextKept DEF FreshSound
    <3>2. p.patched[u] > 0
      BY <1>5, <1>6, <2>1 DEF Kept
    <3> QED
      BY <3>1, <3>2, CarriedDue
  <2>2. CASE ~(u < p.prior.uidNext)
    <3>1. u \in arrivals /\ On(s, u)
      BY <1>5, <1>6, <2>2 DEF Kept
    <3>2. whole[u] > 0
      BY <3>1 DEF On
    <3> QED
      BY <3>2, CarriedDue
  <2> QED
    BY <2>1, <2>2
<1>7. AdvanceSound(s, q, k, "Reconcile")
  <2>1. /\ k.validity = p.sel.validity /\ k.floor = p.window /\ k.modseq = p.sel.modseq
        /\ p.sel.modseq \in Nat
    BY NextTyped, PassFields
  <2>2. CursorSound(s, k)
    BY <1>1, NextPast DEF BaseSound, Delta
  <2>3. \A u \in Uids : Under(s, k, u) => u \in q.present
    BY <1>5
  <2> HIDE DEF k
  <2> QED
    BY <1>2, <1>6, <2>1, <2>2, <2>3 DEF AdvanceSound
<1>8. ChunksSound(s, q)
  <2>1. q.sel.validity > 0
    BY <1>1, <1>2 DEF Delta
  <2> QED
    BY <1>3, <1>4, <1>7, <2>1, CarriedReads
<1> QED
  BY <1>2, <1>8, EndSound DEF PassSound

LEMMA PageFetchSound ==
  ASSUME NEW s \in World, NEW p \in Pass, NEW q \in Pass, PassSound(s, p),
         p.stage = "page", p.chunks = <<>>, p.sel.validity = s.server.validity,
         SameSession(p, q),
         NEW kept \in SUBSET Uids, \A u \in kept : On(s, u),
         NEW whole, \A u \in Uids : whole[u] = IF u \in kept THEN s.server.mail[u] ELSE 0,
         q.present = p.present \cup kept,
         \A u \in Uids : (On(s, u) /\ Date[u] >= p.window /\ u < p.below) =>
                            u \in kept \/ (q.stage = "page" /\ u < q.below),
         NEW none, none = {},
         NEW k, Carries(q.chunks, whole, Nothing, none, k, "Reconcile"),
         \/ q.stage = "end" /\ k = NextCursor(p, p.sel)
         \/ q.stage = "page" /\ k = NoCursor
  PROVE  PassSound(s, q)
<1> DEFINE F == NextCursor(p, p.sel)
<1>1. BaseSound(s, p) /\ PageSound(s, p)
  BY DEF PassSound, StageSound
<1>2. q.sel = p.sel /\ q.prior = p.prior /\ q.window = p.window /\ BaseSound(s, q)
  BY <1>1, BaseFollows DEF SameSession
<1>3. ReadSound(s, q.sel, whole) /\ ReadSound(s, q.sel, Nothing)
  <2>1. ReadOf(s, whole) /\ ReadOf(s, Nothing)
    BY Constants DEF ReadOf
  <2> QED
    BY <2>1, ReadOfSound
<1>4. /\ F.validity = p.sel.validity /\ F.floor = p.window /\ F.modseq = p.sel.modseq
      /\ p.sel.modseq \in Nat
  BY NextTyped, PassFields
<1>5. CursorSound(s, F)
  BY <1>1, NextPast DEF BaseSound, PageSound
<1>6. NextCursor(q, q.sel) = F
  BY <1>2 DEF NextCursor
<1>7. /\ \A u \in Uids : Under(s, F, u) => u < p.below \/ u \in p.present
      /\ \A u \in Uids : Kept(s, F, u) => u < p.below \/ Due(s, p, u, p.sel.modseq)
  BY <1>1 DEF PageSound
<1>8. q.stage = "page" => k = NoCursor
  OBVIOUS
<1>9. q.stage = "end" => k = F
  OBVIOUS
<1> HIDE DEF F
<1>10. ASSUME NEW u \in Uids, Under(s, F, u) PROVE u \in q.present \/ (q.stage = "page" /\ u < q.below)
  <2>1. On(s, u) /\ Date[u] >= p.window
    BY <1>4, <1>10 DEF Under
  <2> QED
    BY <1>7, <1>10, <2>1
<1>11. ASSUME NEW u \in Uids, Kept(s, F, u)
       PROVE  Due(s, q, u, p.sel.modseq) \/ (q.stage = "page" /\ u < q.below)
  <2>1. On(s, u) /\ Date[u] >= p.window
    BY <1>4, <1>11 DEF Kept, Under
  <2>2. CASE u \in kept
    <3>1. whole[u] > 0
      BY <2>1, <2>2 DEF On
    <3> QED
      BY <3>1, CarriedDue
  <2>3. CASE Due(s, p, u, p.sel.modseq)
    <3>1. Good(s, u, p.sel.modseq)
      BY <2>3, NoChunks
    <3> QED
      BY <3>1, CarriedDue
  <2> QED
    BY <1>7, <1>11, <2>1, <2>2, <2>3
<1>12. k # NoCursor => AdvanceSound(s, q, k, "Reconcile")
  <2> SUFFICES ASSUME k # NoCursor PROVE AdvanceSound(s, q, F, "Reconcile")
    BY <1>9
  <2>1. q.stage # "page"
    BY <1>8
  <2>2. \A u \in Uids : Kept(s, F, u) => Due(s, q, u, F.modseq)
    BY <1>4, <1>11, <2>1
  <2>3. \A u \in Uids : Under(s, F, u) => u \in q.present
    BY <1>10, <2>1
  <2> QED
    BY <1>2, <1>4, <1>5, <2>2, <2>3 DEF AdvanceSound
<1>13. ChunksSound(s, q) /\ q.sel.validity > 0
  <2>1. q.sel.validity > 0
    BY <1>1, <1>2 DEF PageSound
  <2> QED
    BY <1>3, <1>12, <2>1, CarriedReads
<1>14. q.stage = "page" => PageSound(s, q)
  <2> SUFFICES ASSUME q.stage = "page" PROVE PageSound(s, q)
    OBVIOUS
  <2>1. NoTombstones(q)
    BY <1>8 DEF NoTombstones, Carries
  <2> QED
    BY <1>2, <1>6, <1>10, <1>11, <1>13, <2>1 DEF PageSound
<1>15. StageSound(s, q)
  BY <1>14 DEF StageSound
<1> QED
  BY <1>2, <1>13, <1>15 DEF PassSound

-------------------------------------------------------------------------------
(* SELECT and the claim *)

-------------------------------------------------------------------------------
(* SELECT *)

SelectedNow(s, sel) ==
  /\ sel.validity = s.server.validity /\ sel.uidNext = s.server.uidNext
  /\ sel.modseq = IF s.speaks = "plain" THEN 0 ELSE s.server.modseq

\* q has selected where p had claimed.
Selects(s, p, q) ==
  /\ PassSound(s, p) /\ CursorSound(s, s.cursor) /\ p.stage = "claimed"
  /\ q.window = p.window /\ q.prior = p.prior /\ SelectedNow(s, q.sel)

LEMMA SelectBase ==
  ASSUME NEW s \in World, NEW p \in Pass, NEW q \in Pass, Selects(s, p, q)
  PROVE  /\ BaseSound(s, q) /\ CoveredGood(s, q.prior) /\ p.chunks = <<>>
         /\ q.sel.validity > 0 /\ q.sel.validity = s.server.validity
<1>1. BaseSound(s, p) /\ p.chunks = <<>> /\ CoveredGood(s, p.prior)
  BY DEF Selects, PassSound, StageSound
<1>2. s.server.validity \in Nat /\ s.server.validity >= 1 /\ s.server.modseq \in Nat
      /\ s.server.modseq >= 1 /\ s.server.uidNext \in Nat
      /\ s.speaks \in {"qresync", "xym", "plain", "upgraded"}
  BY WorldFields
<1>3. Past(s, q.sel)
  BY <1>2 DEF Selects, SelectedNow, Past
<1>4. ASSUME NEW k, Past(s, k), s.speaks # "upgraded" PROVE k.modseq <= q.sel.modseq
  <2>1. CASE s.speaks = "plain"
    BY <1>4, <2>1 DEF Past, Selects, SelectedNow
  <2>2. CASE s.speaks # "plain"
    BY <1>4, <2>2 DEF Past, Selects, SelectedNow
  <2> QED
    BY <2>1, <2>2
<1>5. BaseSound(s, q)
  BY <1>1, <1>3, <1>4 DEF BaseSound, CursorSound, Selects
<1> QED
  BY <1>1, <1>2, <1>5 DEF Selects, SelectedNow

\* What a backfill need not fetch, the cursor it resumes from covers.
LEMMA BackfillCovers ==
  ASSUME NEW s \in World, NEW p \in Pass, NEW q \in Pass, Selects(s, p, q),
         IsBackfill(q, q.sel),
         NEW B,
         \A u \in Uids : u \in B <=>
           (u <= BackfillHigh(q, q.sel) /\ (q.window = 0 \/ (On(s, u) /\ Date[u] >= q.window)))
  PROVE  /\ ~Fresh(q) => q.prior.validity = q.sel.validity
         /\ \A u \in Uids : Kept(s, Frontier(q, q.sel), u) =>
              u \in B \/ Good(s, u, Frontier(q, q.sel).modseq)
         /\ Fresh(q) => \A u \in Uids : Under(s, Frontier(q, q.sel), u) => u \in B
<1> DEFINE F == Frontier(q, q.sel)
<1>1. BaseSound(s, q) /\ CoveredGood(s, q.prior) /\ q.sel.validity > 0
  BY SelectBase
<1>2. ~Fresh(q) => q.prior.validity = q.sel.validity
  BY DEF IsBackfill
<1>3. /\ F.validity = q.sel.validity /\ F.low = 0 /\ F.floor = q.window
      /\ F.uidNext = IF Fresh(q) THEN q.sel.uidNext ELSE q.prior.uidNext
      /\ F.modseq = IF q.prior.modseq > 0 THEN q.prior.modseq ELSE q.sel.modseq
  BY FrontierTyped
<1>4. /\ q.sel.uidNext \in Nat /\ q.prior.low \in Nat /\ q.prior.modseq \in Nat
      /\ q.window \in Nat /\ q.prior.floor \in Nat
  BY PassFields, CursorFields
<1> HIDE DEF F
<1>5. ASSUME NEW u \in Uids, Under(s, F, u), Fresh(q) PROVE u \in B
  <2>1. On(s, u) /\ u < q.sel.uidNext /\ Date[u] >= q.window
    BY <1>3, <1>5 DEF Under
  <2>2. u <= BackfillHigh(q, q.sel)
    BY <1>4, <1>5, <2>1, UidFields DEF BackfillHigh
  <2> QED
    BY <2>1, <2>2
<1>6. ASSUME NEW u \in Uids, Kept(s, F, u), ~Fresh(q), u \notin B PROVE Good(s, u, F.modseq)
  <2>1. On(s, u) /\ u < q.prior.uidNext /\ Date[u] >= q.window /\ Date[u] >= s.depth
        /\ q.sel.validity = s.server.validity
    BY <1>3, <1>6 DEF Kept, Under
  <2>2. ~(u <= q.prior.low - 1)
    BY <1>6, <2>1 DEF BackfillHigh
  <2>3. q.prior.low <= u /\ Date[u] >= q.prior.floor
    BY <1>1, <1>4, <2>1, <2>2, UidFields DEF BaseSound
  <2>4. Good(s, u, q.prior.modseq)
    BY <1>1, <1>2, <1>6, <2>1, <2>3 DEF CoveredGood, Kept, Under
  <2>5. CASE q.prior.modseq > 0
    BY <1>3, <2>4, <2>5
  <2>6. CASE ~(q.prior.modseq > 0)
    <3>1. s.speaks \notin {"qresync", "xym"}
      BY <1>1, <1>2, <1>6, <2>6 DEF BaseSound, CursorSound, Past
    <3>2. s.speaks = "plain" => F.modseq = q.prior.modseq
      BY <1>1, <1>3, <1>4, <2>6 DEF BaseSound, CursorSound, Past
    <3>3. s.speaks \in {"plain", "upgraded"}
      BY <3>1, WorldFields
    <3> QED
      BY <2>4, <3>2, <3>3 DEF Good, AsOf
  <2> QED
    BY <2>5, <2>6
<1> QED
  BY <1>2, <1>5, <1>6 DEF F, Kept

LEMMA SelectBackfill ==
  ASSUME NEW s \in World, NEW p \in Pass, NEW q \in Pass, Selects(s, p, q),
         IsBackfill(q, q.sel), q.stage = "backfill", q.chunks = <<>>,
         NEW B \in SUBSET Uids,
         \A u \in Uids : u \in B <=>
           (u <= BackfillHigh(q, q.sel) /\ (q.window = 0 \/ (On(s, u) /\ Date[u] >= q.window))),
         q.todo = Groups(B), q.todo # <<>>
  PROVE  PassSound(s, q)
<1>1. BaseSound(s, q) /\ q.sel.validity > 0
  BY SelectBase
<1>2. /\ ~Fresh(q) => q.prior.validity = q.sel.validity
      /\ \A u \in Uids : Kept(s, Frontier(q, q.sel), u) =>
           u \in B \/ Good(s, u, Frontier(q, q.sel).modseq)
      /\ Fresh(q) => \A u \in Uids : Under(s, Frontier(q, q.sel), u) => u \in B
  BY BackfillCovers
<1>3. FetchBatch \in Nat \ {0}
  BY MailFolderAssumption
<1>4. Descending(q.todo)
  BY <1>3, BatchesDescend DEF Descending, Groups
<1>5. \A u \in B : ToFetch(q, u)
  BY <1>3, BatchesFacts DEF ToFetch, Groups
<1>6. ChunksSound(s, q) /\ NoTombstones(q) /\ \A u, m : Good(s, u, m) => Due(s, q, u, m)
  BY NoChunks
<1>7. BackfillSound(s, q)
  BY <1>1, <1>2, <1>4, <1>5, <1>6 DEF BackfillSound
<1> QED
  BY <1>1, <1>6, <1>7 DEF PassSound, StageSound

\* A pass that ends with the one chunk SELECT left it, and nothing to fetch.
LEMMA SelectEnds ==
  ASSUME NEW s \in World, NEW p \in Pass, NEW q \in Pass, Selects(s, p, q),
         q.stage = "end", NEW c \in Chunk, q.chunks = <<c>>,
         c.whole = Nothing, c.patched = Nothing, c.removed = {},
         c.advance.validity = q.sel.validity, CursorSound(s, c.advance),
         c.advance.floor = q.window,
         s.speaks # "upgraded" => c.advance.modseq <= q.sel.modseq,
         \A u \in Uids : Kept(s, c.advance, u) => Good(s, u, c.advance.modseq),
         c.mode = "Reconcile" => \A u \in Uids : ~Under(s, c.advance, u)
  PROVE  PassSound(s, q)
<1>1. BaseSound(s, q) /\ q.sel.validity > 0
  BY SelectBase
<1>2. Carries(q.chunks, Nothing, Nothing, {}, c.advance, c.mode)
  BY OneCarried
<1>3. ReadSound(s, q.sel, Nothing)
  <2>1. ReadOf(s, Nothing)
    BY Constants DEF ReadOf
  <2> QED
    BY <2>1, ReadOfSound
<1>4. \A u \in Uids : Kept(s, c.advance, u) => Due(s, q, u, c.advance.modseq)
  BY <1>2, CarriedDue
<1>5. AdvanceSound(s, q, c.advance, c.mode)
  BY <1>4 DEF AdvanceSound
<1>6. ChunksSound(s, q)
  BY <1>1, <1>2, <1>3, <1>5, CarriedReads
<1> QED
  BY <1>1, <1>6, EndSound DEF PassSound

\* A backfill with nothing to fetch.
LEMMA SelectEmpty ==
  ASSUME NEW s \in World, NEW p \in Pass, NEW q \in Pass, Selects(s, p, q),
         IsBackfill(q, q.sel), q.stage = "end",
         NEW B \in SUBSET Uids,
         \A u \in Uids : u \in B <=>
           (u <= BackfillHigh(q, q.sel) /\ (q.window = 0 \/ (On(s, u) /\ Date[u] >= q.window))),
         Groups(B) = <<>>,
         NEW c \in Chunk, q.chunks = <<c>>,
         c.whole = Nothing, c.patched = Nothing, c.removed = {},
         c.advance = Frontier(q, q.sel), c.mode = "Reconcile" => Fresh(q)
  PROVE  PassSound(s, q)
<1> DEFINE F == Frontier(q, q.sel)
<1>1. BaseSound(s, q) /\ q.sel.validity > 0
  BY SelectBase
<1>2. /\ ~Fresh(q) => q.prior.validity = q.sel.validity
      /\ \A u \in Uids : Kept(s, F, u) => u \in B \/ Good(s, u, F.modseq)
      /\ Fresh(q) => \A u \in Uids : Under(s, F, u) => u \in B
  BY BackfillCovers
<1>3. B = {}
  <2>1. FetchBatch \in Nat \ {0}
    BY MailFolderAssumption
  <2>2. Len(Groups(B)) = 0 /\ 1..0 = {}
    OBVIOUS
  <2> QED
    BY <2>1, <2>2, BatchesFacts DEF Groups
<1>4. /\ CursorSound(s, F) /\ F.validity = q.sel.validity /\ F.floor = q.window
      /\ s.speaks # "upgraded" => F.modseq <= q.sel.modseq
  BY <1>1, <1>2, FrontierPast, FrontierTyped
<1>5. c.advance = F
  OBVIOUS
<1> HIDE DEF F
<1>6. \A u \in Uids : Kept(s, F, u) => Good(s, u, F.modseq)
  BY <1>2, <1>3
<1>7. c.mode = "Reconcile" => \A u \in Uids : ~Under(s, F, u)
  BY <1>2, <1>3
<1> QED
  BY <1>4, <1>5, <1>6, <1>7, SelectEnds

LEMMA SelectPage ==
  ASSUME NEW s \in World, NEW p \in Pass, NEW q \in Pass, Selects(s, p, q),
         q.stage = "page", q.chunks = <<>>,
         q.below = IF q.window = 0 THEN q.sel.uidNext ELSE MaxUid + 1
  PROVE  PassSound(s, q)
<1>1. BaseSound(s, q) /\ q.sel.validity > 0
  BY SelectBase
<1>2. ChunksSound(s, q) /\ NoTombstones(q)
  BY NoChunks
<1>3. ASSUME NEW u \in Uids, Under(s, NextCursor(q, q.sel), u) PROVE u < q.below
  <2>1. u < q.sel.uidNext
    BY <1>3, NextTyped DEF Under
  <2>2. u < MaxUid + 1
    BY UidFields, Constants
  <2> QED
    BY <2>1, <2>2
<1>4. PageSound(s, q)
  BY <1>1, <1>2, <1>3 DEF PageSound, Kept
<1> QED
  BY <1>1, <1>2, <1>4 DEF PassSound, StageSound

LEMMA SelectDelta ==
  ASSUME NEW s \in World, NEW p \in Pass, NEW q \in Pass, Selects(s, p, q),
         ~IsBackfill(q, q.sel), IsDelta(q, q.sel),
         q.stage \in {"changes", "flags"}, q.chunks = <<>>
  PROVE  PassSound(s, q)
<1>1. BaseSound(s, q) /\ CoveredGood(s, q.prior) /\ q.sel.validity > 0
  BY SelectBase
<1>2. ChunksSound(s, q)
  BY NoChunks
<1>3. Delta(q)
  <2>1. q.prior.low \in Nat
    BY PassFields, CursorFields
  <2> QED
    BY <1>1, <2>1 DEF Delta, IsDelta, IsBackfill
<1> QED
  BY <1>1, <1>2, <1>3 DEF PassSound, StageSound

LEMMA SelectUnchanged ==
  ASSUME NEW s \in World, NEW p \in Pass, NEW q \in Pass, Selects(s, p, q),
         ~IsBackfill(q, q.sel), IsDelta(q, q.sel), Unchanged(q, q.sel), q.stage = "end",
         NEW c \in Chunk, q.chunks = <<c>>,
         c.whole = Nothing, c.patched = Nothing, c.removed = {},
         c.advance = NextCursor(q, q.sel), c.mode = "Additive"
  PROVE  PassSound(s, q)
<1> DEFINE F == NextCursor(q, q.sel)
<1>1. BaseSound(s, q) /\ CoveredGood(s, q.prior) /\ q.sel.validity > 0
  BY SelectBase
<1>2. /\ q.prior.low \in Nat /\ q.sel.modseq \in Nat /\ q.prior.floor \in Nat /\ q.window \in Nat
      /\ F.validity = q.sel.validity /\ F.floor = q.window /\ F.modseq = q.sel.modseq
      /\ F.uidNext = q.sel.uidNext
  BY PassFields, CursorFields, NextTyped
<1>3. /\ q.prior.low = 0 /\ q.prior.validity = q.sel.validity
      /\ q.prior.modseq = q.sel.modseq /\ q.prior.uidNext = q.sel.uidNext
      /\ q.prior.floor <= q.window
  BY <1>1, <1>2 DEF IsDelta, IsBackfill, Unchanged, BaseSound
<1>4. CursorSound(s, F)
  BY <1>1, NextPast DEF BaseSound
<1>5. c.advance = F
  OBVIOUS
<1> HIDE DEF F
<1>6. ASSUME NEW u \in Uids, Kept(s, F, u) PROVE Good(s, u, F.modseq)
  <2>1. Kept(s, q.prior, u)
    BY <1>2, <1>3, <1>6, UidFields DEF Kept, Under
  <2> QED
    BY <1>1, <1>2, <1>3, <2>1 DEF CoveredGood
<1>7. c.mode # "Reconcile" /\ (s.speaks # "upgraded" => F.modseq <= q.sel.modseq)
  BY <1>2
<1> QED
  BY <1>2, <1>4, <1>5, <1>6, <1>7, SelectEnds

-------------------------------------------------------------------------------
(* A claim *)

LEMMA ClaimSound ==
  ASSUME NEW s \in World, NEW q \in Pass, CursorSound(s, s.cursor), CoveredGood(s, s.cursor),
         q.stage = "claimed", q.prior = Resume(s.cursor, q.window), q.sel = NotSelected,
         q.chunks = <<>>
  PROVE  PassSound(s, q)
<1>1. s.cursor \in Cursor /\ q.window \in Nat /\ s.cursor.floor \in Nat
  BY WorldFields, PassFields, CursorFields
<1>2. CursorSound(s, NoCursor) /\ CoveredGood(s, NoCursor)
  <2>1. s.server.validity \in Nat /\ s.server.validity >= 1 /\ s.server.modseq \in Nat
        /\ s.server.uidNext \in Nat
    BY WorldFields
  <2>2. Past(s, NoCursor)
    BY <2>1, Constants DEF Past
  <2>3. \A u \in Uids : ~Kept(s, NoCursor, u)
    BY <2>1, Constants DEF Kept, Under
  <2> QED
    BY <2>2, <2>3 DEF CursorSound, CoveredGood
<1>3. q.prior.floor <= q.window /\ CursorSound(s, q.prior) /\ CoveredGood(s, q.prior)
  BY <1>1, <1>2, Constants DEF Resume
<1>4. Past(s, q.sel) /\ q.sel.validity = 0
  <2>1. s.server.validity \in Nat /\ s.server.validity >= 1 /\ s.server.modseq \in Nat
        /\ s.server.uidNext \in Nat
    BY WorldFields
  <2>2. NotSelected.validity = 0 /\ NotSelected.modseq = 0 /\ NotSelected.uidNext = 0
    BY DEF NotSelected
  <2> QED
    BY <2>1, <2>2 DEF Past
<1>5. BaseSound(s, q)
  BY <1>3, <1>4 DEF BaseSound
<1>6. ChunksSound(s, q)
  BY NoChunks
<1>7. StageSound(s, q)
  BY <1>3 DEF StageSound
<1> QED
  BY <1>5, <1>6, <1>7 DEF PassSound

\* A pass that reclaimed a scope whose cursor had moved does nothing with it.
LEMMA IdleEndSound ==
  ASSUME NEW s \in World, NEW q, q = [Idle EXCEPT !.stage = "end"]
  PROVE  PassSound(s, q)
<1>1. /\ q.stage = "end" /\ q.window = 0 /\ q.prior = NoCursor /\ q.sel = NotSelected
      /\ q.chunks = <<>>
  BY DEF Idle
<1>2. s.server.validity \in Nat /\ s.server.validity >= 1 /\ s.server.modseq \in Nat
      /\ s.server.uidNext \in Nat
  BY WorldFields
<1>3. NotSelected.validity = 0 /\ NotSelected.modseq = 0 /\ NotSelected.uidNext = 0
  BY DEF NotSelected
<1>4. Past(s, q.sel) /\ CursorSound(s, q.prior)
  BY <1>1, <1>2, <1>3, Constants DEF Past, CursorSound
<1>5. BaseSound(s, q)
  BY <1>1, <1>3, <1>4, Constants DEF BaseSound
<1> QED
  BY <1>1, <1>5, NoChunks, EndSound DEF PassSound

-------------------------------------------------------------------------------
(* Steps that claim, end or give up a pass *)

\* A pass with groups to fetch has one, whoever holds the token.
TodoSound ==
  \A w \in Workers : pass[w].stage = "backfill" =>
    pass[w].todo # <<>> /\ Descending(pass[w].todo)

FolderIndInv == FolderInv /\ TodoSound

LEMMA NowWorld ==
  ASSUME TypeOK
  PROVE  /\ Now \in World
         /\ Now.server = server /\ Now.speaks = speaks /\ Now.cursor = cursor
         /\ Now.rows = rows /\ Now.epoch = epoch /\ Now.depth = depth
BY DEF TypeOK, World, Now, Server

LEMMA NowWorldNext ==
  ASSUME TypeOK'
  PROVE  /\ Now' \in World
         /\ Now'.server = server' /\ Now'.speaks = speaks' /\ Now'.cursor = cursor'
         /\ Now'.rows = rows' /\ Now'.epoch = epoch' /\ Now'.depth = depth'
BY DEF TypeOK, World, Now, Server

LEMMA IdleTyped ==
  Idle \in Pass /\ Idle.stage = "idle" /\ Idle.chunks = <<>>
<1>1. Nothing \in Versions /\ NoCursor \in Cursor
  BY Constants
<1>2. <<>> \in Seq(Chunk) /\ <<>> \in Seq(SUBSET Uids)
  OBVIOUS
<1>3. NotSelected \in Selected
  BY DEF Selected, NotSelected
<1>4. 0 \in 0..MaxReclaims
  <2>1. MaxReclaims \in Nat
    BY MailFolderAssumption
  <2> QED
    BY <2>1
<1> QED
  BY <1>1, <1>2, <1>3, <1>4 DEF Idle, Pass, Stages, Versions

\* A step of one worker that leaves the server and the store alone keeps the
\* invariant if what it makes of its pass is typed and, for the holder, sound.
LEMMA PassStep ==
  ASSUME FolderIndInv, NEW w \in Workers, NEW q \in Pass, pass' = [pass EXCEPT ![w] = q],
         UNCHANGED <<server, speaks, cursor, rows, epoch, depth>>,
         holder' \in {holder, w}, lease' \in {"none", "live", "lapsed"}, faults' \in 0..MaxFaults,
         (holder' = w /\ q.stage \notin {"idle", "fenced"}) => PassSound(Now, q),
         q.stage = "backfill" => q.todo # <<>> /\ Descending(q.todo)
  PROVE  FolderIndInv'
<1>1. TypeOK /\ pass \in [Workers -> Pass]
  BY DEF FolderIndInv, FolderInv, TypeOK
<1>2. Now' = Now
  BY DEF Now
<1>3. pass' \in [Workers -> Pass] /\ pass'[w] = q /\ \A x \in Workers : x # w => pass'[x] = pass[x]
  BY <1>1
<1>4. TypeOK'
  <2>1. holder' \in Workers \cup {Nobody}
    BY <1>1 DEF TypeOK
  <2> QED
    BY <1>1, <1>3, <2>1 DEF TypeOK
<1>5. HolderSound'
  <2>1. ASSUME NEW x \in Workers, holder' = x, pass'[x].stage \notin {"idle", "fenced"}
        PROVE  PassSound(Now', pass'[x])
    <3>1. CASE x = w
      BY <1>2, <1>3, <2>1, <3>1
    <3>2. CASE x # w
      <4>1. holder = x /\ pass'[x] = pass[x]
        BY <1>3, <2>1, <3>2
      <4>2. PassSound(Now, pass[x])
        BY <2>1, <4>1 DEF FolderIndInv, FolderInv, HolderSound, Running
      <4> QED
        BY <1>2, <4>1, <4>2
    <3> QED
      BY <3>1, <3>2
  <2> QED
    BY <2>1 DEF HolderSound, Running
<1>6. TodoSound'
  BY <1>3 DEF FolderIndInv, TodoSound
<1>7. ServerSound(Now) /\ CursorSound(Now, cursor) /\ CoveredGood(Now, cursor)
  BY DEF FolderIndInv, FolderInv
<1>8. ServerSound(Now') /\ CursorSound(Now', cursor') /\ CoveredGood(Now', cursor')
  BY <1>2, <1>7
<1> QED
  BY <1>4, <1>5, <1>6, <1>8 DEF FolderIndInv, FolderInv

\* What the holder's running pass promises, and its type.
LEMMA HoldersPass ==
  ASSUME FolderIndInv, NEW w \in Workers
  PROVE  /\ TypeOK /\ pass[w] \in Pass /\ Now \in World
         /\ (holder = w /\ Running(w)) => PassSound(Now, pass[w])
BY NowWorld DEF FolderIndInv, FolderInv, HolderSound, TypeOK

LEMMA EndingSteps ==
  ASSUME FolderIndInv, NEW w \in Workers, Finish(w) \/ ProviderFails(w) \/ Dies(w) \/ StaleCommit(w)
  PROVE  FolderIndInv'
<1>1. TypeOK /\ pass[w] \in Pass
  BY HoldersPass
<1>2. lease \in {"none", "live", "lapsed"} /\ faults \in 0..MaxFaults
  BY <1>1 DEF TypeOK
<1>3. Released(w) \in {"none", "live", "lapsed"}
  BY <1>2 DEF Released
<1>4. /\ UNCHANGED <<server, speaks, cursor, rows, epoch, depth>> /\ holder' = holder
      /\ lease' \in {lease, Released(w)} /\ (Fault \/ UNCHANGED faults)
      /\ pass' = [pass EXCEPT ![w] = IF StaleCommit(w) THEN Fenced(pass[w]) ELSE Idle]
  <2>1. CASE StaleCommit(w)
    BY <2>1 DEF StaleCommit
  <2>2. CASE ~StaleCommit(w)
    BY <2>2 DEF Finish, ProviderFails, Dies
  <2> QED
    BY <2>1, <2>2
<1>5. Fault => faults' \in 0..MaxFaults
  <2>1. MaxFaults \in Nat
    BY MailFolderAssumption
  <2> QED
    BY <1>2, <2>1 DEF Fault
<1>6. Fenced(pass[w]) \in Pass /\ Fenced(pass[w]).stage \in {"idle", "fenced"}
  <2>1. MaxReclaims \in Nat
    BY MailFolderAssumption
  <2>2. pass[w].window \in Nat /\ pass[w].left \in Cursor /\ pass[w].reclaims \in 0..MaxReclaims
    BY <1>1, PassFields
  <2>3. pass[w].reclaims < MaxReclaims => pass[w].reclaims + 1 \in 0..MaxReclaims
    BY <2>1, <2>2
  <2> QED
    BY <2>2, <2>3, IdleTyped DEF Fenced, Pass, Stages
<1> DEFINE q == IF StaleCommit(w) THEN Fenced(pass[w]) ELSE Idle
<1>7. q \in Pass /\ q.stage \in {"idle", "fenced"}
  BY <1>6, IdleTyped
<1>8. /\ pass' = [pass EXCEPT ![w] = q] /\ lease' \in {"none", "live", "lapsed"}
      /\ faults' \in 0..MaxFaults /\ holder' \in {holder, w}
  BY <1>2, <1>3, <1>4, <1>5
<1> HIDE DEF q
<1>9. /\ (holder' = w /\ q.stage \notin {"idle", "fenced"}) => PassSound(Now, q)
      /\ q.stage = "backfill" => q.todo # <<>> /\ Descending(q.todo)
  BY <1>7
<1> QED
  BY <1>4, <1>7, <1>8, <1>9, PassStep

LEMMA StartedTyped ==
  ASSUME TypeOK, NEW window \in Nat, NEW r \in 0..MaxReclaims
  PROVE  /\ Started(window, r) \in Pass /\ Started(window, r).stage = "claimed"
         /\ Started(window, r).prior = Resume(cursor, window)
         /\ Started(window, r).window = window
         /\ Started(window, r).sel = NotSelected /\ Started(window, r).chunks = <<>>
<1>1. cursor \in Cursor /\ Resume(cursor, window) \in Cursor
  BY Constants DEF TypeOK, Resume
<1>2. /\ Idle \in Pass /\ Idle.sel = NotSelected /\ Idle.chunks = <<>>
  BY IdleTyped DEF Idle
<1> HIDE DEF Idle, Resume
<1> QED
  BY <1>1, <1>2 DEF Started, Pass, Stages

LEMMA StartedSound ==
  ASSUME FolderIndInv, NEW window \in Nat, NEW r \in 0..MaxReclaims
  PROVE  PassSound(Now, Started(window, r))
<1> DEFINE q == Started(window, r)
<1>1. TypeOK /\ CursorSound(Now, cursor) /\ CoveredGood(Now, cursor)
  BY DEF FolderIndInv, FolderInv
<1>2. Now \in World /\ Now.cursor = cursor
  BY <1>1, NowWorld
<1>3. /\ q \in Pass /\ q.stage = "claimed" /\ q.prior = Resume(Now.cursor, q.window)
      /\ q.sel = NotSelected /\ q.chunks = <<>>
  BY <1>1, <1>2, StartedTyped
<1>4. CursorSound(Now, Now.cursor) /\ CoveredGood(Now, Now.cursor)
  BY <1>1, <1>2
<1> HIDE DEF q
<1>5. PassSound(Now, q)
  BY <1>2, <1>3, <1>4, ClaimSound
<1> QED
  BY <1>5 DEF q

LEMMA ClaimStep ==
  ASSUME FolderIndInv, NEW w \in Workers, NEW window \in Floors, Claim(w, window)
  PROVE  FolderIndInv'
<1>1. TypeOK
  BY HoldersPass
<1>2. window \in Nat /\ 0 \in 0..MaxReclaims
  <2>1. Floors \subseteq Nat /\ MaxReclaims \in Nat
    BY MailFolderAssumption
  <2> QED
    BY <2>1
<1> DEFINE q == Started(window, 0)
<1>3. q \in Pass /\ q.stage = "claimed" /\ PassSound(Now, q)
  BY <1>1, <1>2, StartedTyped, StartedSound
<1>4. /\ pass' = [pass EXCEPT ![w] = q] /\ holder' \in {holder, w}
      /\ lease' \in {"none", "live", "lapsed"} /\ faults' \in 0..MaxFaults
      /\ UNCHANGED <<server, speaks, cursor, rows, epoch, depth>>
  BY <1>1 DEF Claim, TypeOK
<1> HIDE DEF q
<1>5. q.stage = "backfill" => q.todo # <<>> /\ Descending(q.todo)
  BY <1>3
<1> QED
  BY <1>3, <1>4, <1>5, PassStep

LEMMA ReclaimStep ==
  ASSUME FolderIndInv, NEW w \in Workers, Reclaim(w)
  PROVE  FolderIndInv'
<1>1. TypeOK /\ pass[w] \in Pass /\ Now \in World
  BY HoldersPass
<1>2. /\ UNCHANGED <<server, speaks, cursor, rows, epoch, depth>>
      /\ lease' \in {"none", "live", "lapsed"} /\ faults' \in 0..MaxFaults
      /\ holder' \in {holder, w}
  BY <1>1 DEF Reclaim, TypeOK
<1>3. pass[w].window \in Nat /\ pass[w].reclaims \in 0..MaxReclaims
  BY <1>1, PassFields
<1> DEFINE done == [Idle EXCEPT !.stage = "end"]
           again == Started(pass[w].window, pass[w].reclaims)
<1>4. done \in Pass /\ done.stage = "end" /\ PassSound(Now, done)
  BY <1>1, IdleTyped, IdleEndSound DEF Pass, Stages
<1>5. again \in Pass /\ again.stage = "claimed" /\ PassSound(Now, again)
  BY <1>1, <1>3, StartedTyped, StartedSound
<1>6. \E q \in {Idle, done, again} : pass' = [pass EXCEPT ![w] = q]
  BY DEF Reclaim
<1> HIDE DEF done, again
<1>7. PICK q \in {Idle, done, again} : pass' = [pass EXCEPT ![w] = q]
  BY <1>6
<1>8. /\ q \in Pass /\ q.stage # "backfill"
      /\ q.stage \notin {"idle", "fenced"} => PassSound(Now, q)
  BY <1>4, <1>5, <1>7, IdleTyped
<1> QED
  BY <1>2, <1>7, <1>8, PassStep

-------------------------------------------------------------------------------
(* The fetches of a delta, as steps *)

LEMMA ReadFacts ==
  ASSUME TypeOK, NEW S
  PROVE  /\ Read(S) \in Versions
         /\ \A u \in Uids : Read(S)[u] = IF u \in S THEN Now.server.mail[u] ELSE 0
<1>1. server.mail \in [Uids -> 0..MaxModseq] /\ Now.server = server
  BY NowWorld DEF TypeOK
<1>2. 0 \in 0..MaxModseq
  BY Constants
<1> QED
  BY <1>1, <1>2 DEF Read, Versions

LEMMA LastChunks ==
  ASSUME NEW k \in Cursor
  PROVE  /\ Additive(Nothing, k) \in Chunk /\ Additive(Nothing, k).whole = Nothing
         /\ Additive(Nothing, k).patched = Nothing /\ Additive(Nothing, k).removed = {}
         /\ Additive(Nothing, k).advance = k /\ Additive(Nothing, k).mode = "Additive"
         /\ ReconcileLast(Nothing, k) \in Chunk /\ ReconcileLast(Nothing, k).whole = Nothing
         /\ ReconcileLast(Nothing, k).patched = Nothing /\ ReconcileLast(Nothing, k).removed = {}
         /\ ReconcileLast(Nothing, k).advance = k /\ ReconcileLast(Nothing, k).mode = "Reconcile"
<1>1. Nothing \in Versions
  BY Constants
<1> HIDE DEF Nothing
<1> QED
  BY <1>1 DEF Additive, ReconcileLast, Chunk, Versions

\* A step that asks the server: what it leaves as it was, and what it may rely on.
LEMMA AsksFacts ==
  ASSUME FolderIndInv, NEW w \in Workers, NEW stage, Asks(w, stage)
  PROVE  /\ UNCHANGED <<server, speaks, cursor, rows, epoch, depth>>
         /\ holder' \in {holder, w} /\ holder' = holder
         /\ lease' \in {"none", "live", "lapsed"} /\ faults' \in 0..MaxFaults
         /\ pass[w].stage = stage /\ pass[w].chunks = <<>>
         /\ pass[w].sel.validity \in {0, Now.server.validity}
         /\ OnServer = {u \in Uids : On(Now, u)}
<1>1. TypeOK /\ Now.server = server
  BY HoldersPass, NowWorld
<1> QED
  BY <1>1 DEF Asks, TypeOK, OnServer, On

LEMMA ChangesStep ==
  ASSUME FolderIndInv, NEW w \in Workers, FetchChanges(w)
  PROVE  FolderIndInv'
<1> DEFINE p == pass[w]
           synced == {u \in Uids : u < p.prior.uidNext}
           read == Read({u \in synced : server.mail[u] > p.prior.modseq})
           vanished == {u \in synced : server.gone[u] > p.prior.modseq}
           q == [p EXCEPT !.stage = "arrivals", !.patched = read, !.removed = vanished]
<1>1. Asks(w, "changes") /\ pass' = [pass EXCEPT ![w] = q]
  BY DEF FetchChanges
<1>2. TypeOK /\ p \in Pass /\ Now \in World /\ ServerSound(Now) /\ Now.server = server
  BY HoldersPass, NowWorld DEF FolderIndInv, FolderInv
<1>3. read \in Versions /\ vanished \in SUBSET Uids
  BY <1>2, ReadFacts
<1>4. \A u \in Uids : read[u] = IF u < p.prior.uidNext /\ Now.server.mail[u] > p.prior.modseq
                                  THEN Now.server.mail[u] ELSE 0
  BY <1>2, ReadFacts
<1>5. vanished = {u \in Uids : u < p.prior.uidNext /\ Now.server.gone[u] > p.prior.modseq}
  BY <1>2
<1> HIDE DEF read, vanished
<1>6. q \in Pass /\ q.stage = "arrivals" /\ q.patched = read /\ q.removed = vanished
      /\ q.chunks = p.chunks /\ SameSession(p, q)
  BY <1>2, <1>3 DEF Pass, Versions, Stages, SameSession
<1>7. ASSUME holder' = w PROVE PassSound(Now, q)
  <2>1. PassSound(Now, p) /\ p.stage = "changes"
    BY <1>1, <1>7, AsksFacts, HoldersPass DEF Running
  <2> HIDE DEF p, q
  <2> QED
    BY <1>2, <1>4, <1>5, <1>6, <2>1, ChangesSound
<1> HIDE DEF q
<1> QED
  BY <1>1, <1>6, <1>7, AsksFacts, PassStep

LEMMA FlagsStep ==
  ASSUME FolderIndInv, NEW w \in Workers, FetchFlags(w)
  PROVE  FolderIndInv'
<1> DEFINE p == pass[w]
           held == {u \in OnServer \cap InWindow(p.window) : u < p.prior.uidNext}
           q == [p EXCEPT !.stage = "fresh", !.patched = Read(held), !.present = held]
<1>1. Asks(w, "flags") /\ pass' = [pass EXCEPT ![w] = q]
  BY DEF FetchFlags
<1>2. TypeOK /\ p \in Pass /\ Now \in World
  BY HoldersPass
<1>3. held = {u \in Uids : On(Now, u) /\ Date[u] >= p.window /\ u < p.prior.uidNext}
  BY <1>1, AsksFacts DEF InWindow
<1> HIDE DEF held
<1>4. /\ Read(held) \in Versions /\ held \in SUBSET Uids
      /\ \A u \in Uids : Read(held)[u] = IF u \in held THEN Now.server.mail[u] ELSE 0
  BY <1>2, <1>3, ReadFacts
<1>6. q \in Pass /\ q.stage = "fresh" /\ q.patched = Read(held) /\ q.present = held
      /\ q.chunks = p.chunks /\ SameSession(p, q)
  BY <1>2, <1>4 DEF Pass, Versions, Stages, SameSession
<1>7. ASSUME holder' = w PROVE PassSound(Now, q)
  <2>1. PassSound(Now, p) /\ p.stage = "flags"
    BY <1>1, <1>7, AsksFacts, HoldersPass DEF Running
  <2> HIDE DEF p, q
  <2>2. \A u \in Uids : q.patched[u] = IF u \in held THEN Now.server.mail[u] ELSE 0
    BY <1>4, <1>6
  <2> QED
    BY <1>2, <1>3, <1>6, <2>1, <2>2, FlagsSound
<1> HIDE DEF q
<1> QED
  BY <1>1, <1>6, <1>7, AsksFacts, PassStep

LEMMA ArrivalsStep ==
  ASSUME FolderIndInv, NEW w \in Workers, FetchArrivals(w)
  PROVE  FolderIndInv'
<1> DEFINE p == pass[w]
           asked == p.sel.uidNext > p.prior.uidNext
           arrivals == {u \in OnServer : asked /\ u >= p.prior.uidNext}
           newest == {u \in OnServer : asked /\ arrivals = {} /\ \A v \in OnServer : v <= u}
           patched == [u \in Uids |-> IF p.patched[u] > 0 THEN p.patched[u]
                                                          ELSE Read(newest)[u]]
           whole == Read(arrivals)
           last == Additive(Nothing, NextCursor(p, p.sel))
           cs == Append(SplitPage("Additive", whole, patched, p.removed), last)
           q == [p EXCEPT !.stage = "end", !.patched = Nothing, !.removed = {}, !.chunks = cs]
<1>1. Asks(w, "arrivals") /\ pass' = [pass EXCEPT ![w] = q]
  BY DEF FetchArrivals
<1>2. TypeOK /\ p \in Pass /\ Now \in World
  BY HoldersPass
<1>3. /\ p.patched \in Versions /\ p.removed \in SUBSET Uids
      /\ NextCursor(p, p.sel) \in Cursor
  BY <1>2, PassFields, NextTyped
<1>4. /\ whole \in Versions
      /\ \A u \in Uids : whole[u] = IF u \in arrivals THEN Now.server.mail[u] ELSE 0
  BY <1>2, ReadFacts
<1>5. \A u \in Uids : u \in arrivals <=>
                        On(Now, u) /\ p.sel.uidNext > p.prior.uidNext /\ u >= p.prior.uidNext
  BY <1>1, AsksFacts
<1>6. \A u \in Uids : whole[u] = IF On(Now, u) /\ p.sel.uidNext > p.prior.uidNext
                                    /\ u >= p.prior.uidNext
                                  THEN Now.server.mail[u] ELSE 0
  BY <1>4, <1>5
<1>7. /\ Read(newest) \in Versions
      /\ \A u \in Uids : Read(newest)[u] \in {0, Now.server.mail[u]}
  BY <1>2, ReadFacts
<1> HIDE DEF whole, newest
<1>8. /\ patched \in Versions
      /\ \A u \in Uids : IF p.patched[u] > 0 THEN patched[u] = p.patched[u]
                                             ELSE patched[u] \in {0, Now.server.mail[u]}
  BY <1>3, <1>7 DEF Versions
<1> HIDE DEF patched
<1>9. /\ last \in Chunk /\ last.whole = Nothing /\ last.patched = Nothing /\ last.removed = {}
      /\ last.advance = NextCursor(p, p.sel) /\ last.mode = "Additive"
  BY <1>3, LastChunks
<1> HIDE DEF last
<1>10. Carries(SplitPage("Additive", whole, patched, p.removed), whole, patched, p.removed,
               NoCursor, "Additive")
  BY <1>3, <1>4, <1>8, SplitCarries
<1>11. Carries(cs, whole, patched, p.removed, last.advance, last.mode)
  BY <1>4, <1>8, <1>9, <1>10, AppendCarries
<1>12. cs \in Seq(Chunk)
  BY <1>11 DEF Carries
<1> HIDE DEF cs
<1>13. q \in Pass /\ q.stage = "end" /\ q.chunks = cs /\ SameSession(p, q)
  <2>1. Nothing \in Versions
    BY Constants
  <2> HIDE DEF Nothing
  <2> QED
    BY <1>2, <1>12, <2>1 DEF Pass, Versions, Stages, SameSession
<1>14. ASSUME holder' = w PROVE PassSound(Now, q)
  <2>1. PassSound(Now, p) /\ p.stage = "arrivals" /\ p.sel.validity \in {0, Now.server.validity}
    BY <1>1, <1>14, AsksFacts, HoldersPass DEF Running
  <2> HIDE DEF p, q
  <2>2. p.sel.validity = Now.server.validity
    BY <2>1 DEF PassSound, StageSound, Delta
  <2>3. Carries(q.chunks, whole, patched, p.removed, NextCursor(p, p.sel), "Additive")
    BY <1>9, <1>11, <1>13
  <2> QED
    BY <1>2, <1>6, <1>8, <1>13, <2>1, <2>2, <2>3, ArrivalSound
<1> HIDE DEF q
<1> QED
  BY <1>1, <1>13, <1>14, AsksFacts, PassStep

LEMMA FreshStep ==
  ASSUME FolderIndInv, NEW w \in Workers, FetchFresh(w)
  PROVE  FolderIndInv'
<1> DEFINE p == pass[w]
           arrivals == {u \in OnServer \cap InWindow(p.window) :
                          u >= p.prior.uidNext /\ u < p.sel.uidNext}
           whole == Read(arrivals)
           none == {}
           last == ReconcileLast(Nothing, NextCursor(p, p.sel))
           cs == Append(SplitPage("Reconcile", whole, p.patched, none), last)
           q == [p EXCEPT !.stage = "end", !.patched = Nothing,
                          !.present = @ \cup arrivals, !.chunks = cs]
<1>1. Asks(w, "fresh") /\ pass' = [pass EXCEPT ![w] = q]
  BY DEF FetchFresh
<1>2. TypeOK /\ p \in Pass /\ Now \in World
  BY HoldersPass
<1>3. p.patched \in Versions /\ p.present \in SUBSET Uids /\ NextCursor(p, p.sel) \in Cursor
  BY <1>2, PassFields, NextTyped
<1>4. arrivals = {u \in Uids : On(Now, u) /\ Date[u] >= p.window
                               /\ u >= p.prior.uidNext /\ u < p.sel.uidNext}
  BY <1>1, AsksFacts DEF InWindow
<1> HIDE DEF arrivals
<1>5. /\ whole \in Versions /\ arrivals \in SUBSET Uids
      /\ \A u \in Uids : whole[u] = IF u \in arrivals THEN Now.server.mail[u] ELSE 0
  BY <1>2, <1>4, ReadFacts
<1> HIDE DEF whole
<1>6. /\ last \in Chunk /\ last.whole = Nothing /\ last.patched = Nothing /\ last.removed = {}
      /\ last.advance = NextCursor(p, p.sel) /\ last.mode = "Reconcile"
  BY <1>3, LastChunks
<1> HIDE DEF last
<1>7. none \in SUBSET Uids /\ none = {}
  OBVIOUS
<1> HIDE DEF none
<1>8. Carries(SplitPage("Reconcile", whole, p.patched, none), whole, p.patched, none,
              NoCursor, "Reconcile")
  BY <1>3, <1>5, <1>7, SplitCarries
<1>9. Carries(cs, whole, p.patched, none, last.advance, last.mode)
  BY <1>3, <1>5, <1>6, <1>8, AppendCarries
<1>10. cs \in Seq(Chunk)
  BY <1>9 DEF Carries
<1> HIDE DEF cs
<1>11. q \in Pass /\ q.stage = "end" /\ q.chunks = cs /\ q.present = p.present \cup arrivals
       /\ SameSession(p, q)
  <2>1. Nothing \in Versions
    BY Constants
  <2> HIDE DEF Nothing
  <2> QED
    BY <1>2, <1>3, <1>5, <1>10, <2>1 DEF Pass, Versions, Stages, SameSession
<1>12. ASSUME holder' = w PROVE PassSound(Now, q)
  <2>1. PassSound(Now, p) /\ p.stage = "fresh" /\ p.sel.validity \in {0, Now.server.validity}
    BY <1>1, <1>12, AsksFacts, HoldersPass DEF Running
  <2> HIDE DEF p, q
  <2>2. p.sel.validity = Now.server.validity
    BY <2>1 DEF PassSound, StageSound, Delta
  <2>3. Carries(q.chunks, whole, p.patched, none, NextCursor(p, p.sel), "Reconcile")
    BY <1>6, <1>9, <1>11
  <2> QED
    BY <1>2, <1>4, <1>5, <1>7, <1>11, <2>1, <2>2, <2>3, FreshFetchSound
<1> HIDE DEF q
<1> QED
  BY <1>1, <1>11, <1>12, AsksFacts, PassStep

-------------------------------------------------------------------------------
(* The group of a backfill and the page of a snapshot, as steps *)

LEMMA GroupStep ==
  ASSUME FolderIndInv, NEW w \in Workers, FetchGroup(w)
  PROVE  FolderIndInv'
<1> DEFINE p == pass[w]
           group == Head(p.todo)
           front == Frontier(p, p.sel)
           checkpoint == [front EXCEPT !.low = Min(group), !.reconciled = FALSE]
           last == Len(p.todo) = 1
           ending == IF ~last THEN Additive(Nothing, checkpoint)
                     ELSE IF Fresh(p) THEN ReconcileLast(Nothing, front)
                     ELSE Additive(Nothing, front)
           present == IF Fresh(p) THEN p.present \cup (group \cap OnServer) ELSE p.present
           whole == Read(group)
           none == {}
           cs == GroupChunks(whole, ending)
           q == [p EXCEPT !.stage = IF last THEN "end" ELSE @, !.todo = Tail(@),
                          !.present = present, !.chunks = cs]
<1>1. Asks(w, "backfill") /\ pass' = [pass EXCEPT ![w] = q]
  BY DEF FetchGroup
<1>2. TypeOK /\ p \in Pass /\ Now \in World
  BY HoldersPass
<1>3. p.todo # <<>> /\ Descending(p.todo) /\ p.stage = "backfill" /\ p.chunks = <<>>
  BY <1>1, AsksFacts DEF FolderIndInv, TodoSound
<1>4. /\ group \in SUBSET Uids /\ group # {} /\ Tail(p.todo) \in Seq(SUBSET Uids)
      /\ Descending(Tail(p.todo)) /\ (~last => Tail(p.todo) # <<>>)
  BY <1>2, <1>3, TailTodo
<1>5. front \in Cursor /\ checkpoint \in Cursor
  <2>1. front \in Cursor
    BY <1>2, FrontierTyped
  <2>2. Min(group) \in Nat
    BY <1>4, MinFacts, UidFields
  <2> HIDE DEF front
  <2> QED
    BY <2>1, <2>2 DEF Cursor
<1>6. /\ whole \in Versions
      /\ \A u \in Uids : whole[u] = IF u \in group THEN Now.server.mail[u] ELSE 0
  BY <1>2, ReadFacts
<1> HIDE DEF whole
<1>7. /\ present = IF Fresh(p) THEN p.present \cup {u \in group : On(Now, u)} ELSE p.present
      /\ present \in SUBSET Uids
  <2>1. group \cap OnServer = {u \in group : On(Now, u)}
    BY <1>1, <1>4, AsksFacts
  <2>2. p.present \in SUBSET Uids
    BY <1>2, PassFields
  <2> QED
    BY <1>4, <2>1, <2>2
<1> HIDE DEF present
<1>8. /\ ending \in Chunk /\ ending.patched = Nothing /\ ending.removed = {}
      /\ ending.advance \in Cursor
      /\ \/ last /\ ending.advance = front /\ (ending.mode = "Reconcile" => Fresh(p))
         \/ ~last /\ ending.advance = checkpoint /\ ending.mode = "Additive"
  <2> HIDE DEF front, checkpoint
  <2>1. CASE ~last
    BY <1>5, <2>1, LastChunks
  <2>2. CASE last /\ Fresh(p)
    BY <1>5, <2>2, LastChunks
  <2>3. CASE last /\ ~Fresh(p)
    <3>1. ending = Additive(Nothing, front)
      BY <2>3
    <3>2. Additive(Nothing, front).mode # "Reconcile"
      BY <1>5, LastChunks
    <3> QED
      BY <1>5, <2>3, <3>1, <3>2, LastChunks
  <2> QED
    BY <2>1, <2>2, <2>3
<1> HIDE DEF ending
<1>9. Carries(cs, whole, Nothing, none, ending.advance, ending.mode) /\ cs \in Seq(Chunk)
  <2>1. Carries(cs, whole, Nothing, none, ending.advance, ending.mode)
    BY <1>6, <1>8, GroupCarries
  <2> QED
    BY <2>1 DEF Carries
<1>10. none = {}
  OBVIOUS
<1> HIDE DEF cs, none
<1>11. /\ q \in Pass /\ q.stage = (IF last THEN "end" ELSE "backfill") /\ q.todo = Tail(p.todo)
       /\ q.present = present /\ q.chunks = cs /\ SameSession(p, q)
  BY <1>2, <1>3, <1>4, <1>7, <1>9 DEF Pass, Stages, SameSession
<1>12. ASSUME holder' = w PROVE PassSound(Now, q)
  <2>1. PassSound(Now, p) /\ p.sel.validity \in {0, Now.server.validity}
    BY <1>1, <1>12, AsksFacts, HoldersPass DEF Running
  <2>2. p.sel.validity = Now.server.validity
    BY <1>3, <2>1 DEF PassSound, StageSound, BackfillSound
  <2>3. Carries(q.chunks, whole, Nothing, none, ending.advance, ending.mode)
    BY <1>9, <1>11
  <2>4. \A u \in Uids : whole[u] = IF u \in Head(p.todo) THEN Now.server.mail[u] ELSE 0
    BY <1>6
  <2>5. q.present = IF Fresh(p) THEN p.present \cup {u \in Head(p.todo) : On(Now, u)} ELSE p.present
    BY <1>7, <1>11
  <2> HIDE DEF q
  <2>6. \/ /\ Len(p.todo) = 1 /\ q.stage = "end" /\ ending.advance = Frontier(p, p.sel)
           /\ ending.mode = "Reconcile" => Fresh(p)
        \/ /\ Len(p.todo) # 1 /\ q.stage = "backfill" /\ ending.mode = "Additive"
           /\ ending.advance = [Frontier(p, p.sel) EXCEPT !.low = Min(Head(p.todo)), !.reconciled = FALSE]
    BY <1>8, <1>11
  <2> HIDE DEF p
  <2> QED
    BY <1>2, <1>3, <1>8, <1>10, <1>11, <2>1, <2>2, <2>3, <2>4, <2>5, <2>6, GroupSound
<1>13. q.stage = "backfill" => q.todo # <<>> /\ Descending(q.todo)
  <2> HIDE DEF q
  <2> QED
    BY <1>4, <1>11
<1> HIDE DEF q
<1> QED
  BY <1>1, <1>11, <1>12, <1>13, AsksFacts, PassStep

\* The first of the batches of a set holds what is newest of it.
LEMMA FirstBatch ==
  ASSUME NEW S \in SUBSET Uids, S # {}
  PROVE  /\ Groups(S)[1] \in SUBSET Uids /\ Groups(S)[1] # {} /\ Groups(S)[1] \subseteq S
         /\ \A u \in S \ Groups(S)[1] : u < Min(Groups(S)[1])
<1> DEFINE n == FetchBatch
           B == Batches(S, n)
<1>1. n \in Nat \ {0}
  BY MailFolderAssumption
<1> HIDE DEF n
<1>2. /\ B \in Seq(SUBSET Uids) /\ Len(B) \in Nat
      /\ \A i \in 1..Len(B) : B[i] \subseteq S
      /\ \A u \in S : \E i \in 1..Len(B) : u \in B[i]
      /\ \A i \in 1..Len(B) : B[i] # {}
      /\ \A i, j \in 1..Len(B) : i < j => \A u \in B[i], v \in B[j] : v < u
  BY <1>1, BatchesFacts, BatchesDescend
<1> HIDE DEF B
<1>3. PICK x : x \in S
  OBVIOUS
<1>4. 1 \in 1..Len(B)
  <2>1. PICK i \in 1..Len(B) : x \in B[i]
    BY <1>2, <1>3
  <2> QED
    BY <1>2, <2>1
<1>5. B[1] \in SUBSET Uids /\ B[1] # {} /\ B[1] \subseteq S
  BY <1>2, <1>4
<1>6. Min(B[1]) \in B[1]
  BY <1>5, MinFacts
<1>7. ASSUME NEW u \in S, u \notin B[1] PROVE u < Min(B[1])
  <2>1. PICK i \in 1..Len(B) : u \in B[i]
    BY <1>2
  <2>2. 1 < i
    BY <1>7, <2>1
  <2> QED
    BY <1>2, <1>4, <1>6, <2>1, <2>2
<1>8. Groups(S) = B
  BY DEF Groups, B, n
<1> QED
  BY <1>5, <1>7, <1>8

LEMMA PageStep ==
  ASSUME FolderIndInv, NEW w \in Workers, FetchPage(w)
  PROVE  FolderIndInv'
<1> DEFINE p == pass[w]
           left == PageLeft(p)
           kept == IF left = {} THEN {} ELSE Groups(left)[1]
           last == kept = left
           whole == Read(kept)
           none == {}
           page == SplitPage("Reconcile", whole, Nothing, none)
           ending == ReconcileLast(Nothing, NextCursor(p, p.sel))
           below == IF last THEN 0 ELSE Min(kept)
           cs == IF last THEN Append(page, ending) ELSE page
           q == [p EXCEPT !.stage = IF last THEN "end" ELSE @, !.below = below,
                          !.present = @ \cup kept, !.chunks = cs]
<1>1. Asks(w, "page") /\ pass' = [pass EXCEPT ![w] = q]
  BY DEF FetchPage
<1>2. TypeOK /\ p \in Pass /\ Now \in World /\ p.stage = "page" /\ p.chunks = <<>>
  BY <1>1, HoldersPass, AsksFacts
<1>3. left = {u \in Uids : On(Now, u) /\ Date[u] >= p.window /\ u < p.below}
  BY <1>1, AsksFacts DEF PageLeft, InWindow
<1> HIDE DEF left
<1>4. /\ kept \in SUBSET Uids /\ kept \subseteq left
      /\ ~last => (kept # {} /\ \A u \in left : u \in kept \/ u < Min(kept))
  <2>1. left \in SUBSET Uids
    BY <1>3
  <2>2. CASE left = {}
    BY <2>2
  <2>3. CASE left # {}
    BY <2>1, <2>3, FirstBatch
  <2> QED
    BY <2>2, <2>3
<1> HIDE DEF kept
<1>5. below \in Nat
  <2>1. ~last => Min(kept) \in Nat
    BY <1>4, MinFacts, UidFields
  <2> QED
    BY <2>1
<1>6. \A u \in left : u \in kept \/ (~last /\ u < below)
  BY <1>4
<1> HIDE DEF below
<1>7. /\ whole \in Versions
      /\ \A u \in Uids : whole[u] = IF u \in kept THEN Now.server.mail[u] ELSE 0
  BY <1>2, ReadFacts
<1> HIDE DEF whole
<1>8. /\ ending \in Chunk /\ ending.whole = Nothing /\ ending.patched = Nothing
      /\ ending.removed = {} /\ ending.advance = NextCursor(p, p.sel) /\ ending.mode = "Reconcile"
  BY <1>2, NextTyped, LastChunks
<1> HIDE DEF ending
<1>9. none \in SUBSET Uids /\ none = {} /\ Nothing \in Versions
  BY Constants
<1> HIDE DEF none
<1>10. Carries(page, whole, Nothing, none, NoCursor, "Reconcile")
  BY <1>7, <1>9, SplitCarries
<1> HIDE DEF page
<1>11. Carries(Append(page, ending), whole, Nothing, none, ending.advance, ending.mode)
  BY <1>7, <1>8, <1>9, <1>10, AppendCarries
<1> DEFINE k == IF last THEN NextCursor(p, p.sel) ELSE NoCursor
<1>12. Carries(cs, whole, Nothing, none, k, "Reconcile")
  BY <1>8, <1>10, <1>11
<1>13. cs \in Seq(Chunk)
  BY <1>12 DEF Carries
<1> HIDE DEF cs
<1>14. /\ q \in Pass /\ q.stage = (IF last THEN "end" ELSE "page") /\ q.below = below
       /\ q.present = p.present \cup kept /\ q.chunks = cs /\ SameSession(p, q)
  <2>1. p.present \in SUBSET Uids
    BY <1>2, PassFields
  <2> QED
    BY <1>2, <1>4, <1>5, <1>13, <2>1 DEF Pass, Stages, SameSession
<1>15. ASSUME holder' = w PROVE PassSound(Now, q)
  <2>1. PassSound(Now, p) /\ p.sel.validity \in {0, Now.server.validity}
    BY <1>1, <1>2, <1>15, AsksFacts, HoldersPass DEF Running
  <2>2. p.sel.validity = Now.server.validity
    BY <1>2, <2>1 DEF PassSound, StageSound, PageSound
  <2>3. Carries(q.chunks, whole, Nothing, none, k, "Reconcile")
    BY <1>12, <1>14
  <2>4. \/ q.stage = "end" /\ k = NextCursor(p, p.sel)
        \/ q.stage = "page" /\ k = NoCursor
    BY <1>14
  <2>5. \A u \in Uids : (On(Now, u) /\ Date[u] >= p.window /\ u < p.below) =>
                           u \in kept \/ (q.stage = "page" /\ u < q.below)
    BY <1>3, <1>6, <1>14
  <2>6. \A u \in kept : On(Now, u)
    BY <1>3, <1>4
  <2> HIDE DEF p, q, k, last
  <2> QED
    BY <1>2, <1>4, <1>7, <1>9, <1>14, <2>1, <2>2, <2>3, <2>4, <2>5, <2>6, PageFetchSound
<1>16. q.stage # "backfill"
  BY <1>14
<1> HIDE DEF q
<1> QED
  BY <1>1, <1>14, <1>15, <1>16, AsksFacts, PassStep

-------------------------------------------------------------------------------
(* SELECT, as a step *)

LEMMA SelectDataFacts ==
  ASSUME TypeOK
  PROVE  SelectData \in Selected /\ SelectedNow(Now, SelectData)
<1>1. Now.server = server /\ Now.speaks = speaks /\ Now \in World
  BY NowWorld
<1>2. /\ server.validity \in Nat /\ server.uidNext \in Nat /\ server.modseq \in Nat
      /\ speaks \in {"qresync", "xym", "plain", "upgraded"}
  BY <1>1, WorldFields
<1>3. SelectData \in Selected
  BY <1>2 DEF SelectData, Selected
<1>4. SelectedNow(Now, SelectData)
  BY <1>1 DEF SelectedNow, SelectData
<1> QED
  BY <1>3, <1>4

\* The pass p gone to `stage` with what SELECT reported.
To(p, sel, stage, todo, chunks, below) ==
  [p EXCEPT !.stage = stage, !.sel = sel, !.todo = todo, !.chunks = chunks, !.below = below]

\* The kind of pass depends on what it starts from, its window and SELECT alone.
LEMMA SameKind ==
  ASSUME NEW p, NEW q, NEW sel, q.prior = p.prior, q.window = p.window
  PROVE  /\ Fresh(q) <=> Fresh(p)
         /\ IsBackfill(q, sel) <=> IsBackfill(p, sel)
         /\ BackfillHigh(q, sel) = BackfillHigh(p, sel)
         /\ Frontier(q, sel) = Frontier(p, sel)
         /\ NextCursor(q, sel) = NextCursor(p, sel)
         /\ IsDelta(q, sel) <=> IsDelta(p, sel)
         /\ Unchanged(q, sel) <=> Unchanged(p, sel)
BY DEF Fresh, IsBackfill, BackfillHigh, Frontier, NextCursor, IsDelta, NeedsBaseline, Unchanged

LEMMA OneChunk ==
  ASSUME NEW c \in Chunk
  PROVE  <<c>> \in Seq(Chunk)
OBVIOUS

LEMMA SelectStep ==
  ASSUME FolderIndInv, NEW w \in Workers, Select(w)
  PROVE  FolderIndInv'
<1> DEFINE p == pass[w]
           sel == SelectData
           B == BackfillUids(p, sel)
           groups == Groups(B)
           front == Frontier(p, sel)
           empty == IF Fresh(p) THEN ReconcileLast(Nothing, front) ELSE Additive(Nothing, front)
           next == NextCursor(p, sel)
           below == IF p.window = 0 THEN sel.uidNext ELSE MaxUid + 1
           to(stage) == [p EXCEPT !.stage = stage, !.sel = sel]
           ends(chunk) == [to("end") EXCEPT !.chunks = <<chunk>>]
           q == IF IsBackfill(p, sel)
                  THEN IF groups # <<>> THEN [to("backfill") EXCEPT !.todo = groups]
                       ELSE ends(empty)
                ELSE IF ~IsDelta(p, sel) THEN [to("page") EXCEPT !.below = below]
                ELSE IF sel.dialect = "qresync" THEN to("changes")
                ELSE IF Unchanged(p, sel) THEN ends(Additive(Nothing, next))
                ELSE to("flags")
<1>1. Asks(w, "claimed") /\ pass' = [pass EXCEPT ![w] = q]
  BY DEF Select
<1>2. TypeOK /\ p \in Pass /\ Now \in World /\ p.stage = "claimed" /\ p.chunks = <<>>
  BY <1>1, HoldersPass, AsksFacts
<1>3. sel \in Selected /\ SelectedNow(Now, sel)
  BY <1>2, SelectDataFacts
<1>4. /\ B \in SUBSET Uids
      /\ \A u \in Uids : u \in B <=>
           (u <= BackfillHigh(p, sel) /\ (p.window = 0 \/ (On(Now, u) /\ Date[u] >= p.window)))
  BY <1>1, AsksFacts DEF BackfillUids, InWindow
<1>5. B \in SUBSET Uids /\ groups \in Seq(SUBSET Uids)
      /\ (groups # <<>> => Descending(groups))
  <2>1. B \in SUBSET Uids
    BY <1>4
  <2>2. FetchBatch \in Nat \ {0}
    BY MailFolderAssumption
  <2> HIDE DEF B
  <2>3. groups \in Seq(SUBSET Uids)
    BY <2>1, <2>2, BatchesFacts DEF Groups
  <2>4. Descending(groups)
    BY <2>1, <2>2, BatchesDescend DEF Groups, Descending
  <2> QED
    BY <2>1, <2>3, <2>4
<1> HIDE DEF sel, B, groups
<1>6. /\ front \in Cursor /\ next \in Cursor /\ below \in Nat
      /\ p.todo \in Seq(SUBSET Uids) /\ p.below \in Nat
  <2>1. /\ p.prior \in Cursor /\ p.window \in Nat /\ p.todo \in Seq(SUBSET Uids) /\ p.below \in Nat
    BY <1>2, PassFields
  <2>2. sel.validity \in Nat /\ sel.uidNext \in Nat /\ sel.modseq \in Nat
    BY <1>3 DEF Selected
  <2>3. p.prior.uidNext \in Nat /\ p.prior.modseq \in Nat
    BY <2>1, CursorFields
  <2>4. MaxUid \in Nat
    BY Constants
  <2>5. front \in Cursor
    BY <2>1, <2>2, <2>3 DEF Frontier, Cursor, Fresh
  <2>6. next \in Cursor
    BY <2>1, <2>2 DEF NextCursor, Cursor
  <2> QED
    BY <2>1, <2>2, <2>4, <2>5, <2>6
<1> HIDE DEF below, front, next
<1>7. /\ empty \in Chunk /\ empty.whole = Nothing /\ empty.patched = Nothing /\ empty.removed = {}
      /\ empty.advance = front /\ (empty.mode = "Reconcile" => Fresh(p))
  <2>1. CASE Fresh(p)
    BY <1>6, <2>1, LastChunks
  <2>2. CASE ~Fresh(p)
    <3>1. empty = Additive(Nothing, front)
      BY <2>2
    <3>2. Additive(Nothing, front).mode # "Reconcile"
      BY <1>6, LastChunks
    <3> QED
      BY <1>6, <3>1, <3>2, LastChunks
  <2> QED
    BY <2>1, <2>2
<1> DEFINE skip == Additive(Nothing, next)
<1>8. /\ skip \in Chunk /\ skip.whole = Nothing /\ skip.patched = Nothing /\ skip.removed = {}
      /\ skip.advance = next /\ skip.mode = "Additive"
  BY <1>6, LastChunks
<1> HIDE DEF empty, skip
<1>9. <<empty>> \in Seq(Chunk) /\ <<skip>> \in Seq(Chunk) /\ <<>> \in Seq(Chunk)
  BY <1>7, <1>8, OneChunk
<1>10. {"end", "backfill", "page", "changes", "flags"} \subseteq Stages
  BY DEF Stages
<1> DEFINE done(c) == To(p, sel, "end", p.todo, <<c>>, p.below)
           back == To(p, sel, "backfill", groups, <<>>, p.below)
           page == To(p, sel, "page", p.todo, <<>>, below)
           delta(stage) == To(p, sel, stage, p.todo, <<>>, p.below)
<1>11. q = IF IsBackfill(p, sel) THEN IF groups # <<>> THEN back ELSE done(empty)
           ELSE IF ~IsDelta(p, sel) THEN page
           ELSE IF sel.dialect = "qresync" THEN delta("changes")
           ELSE IF Unchanged(p, sel) THEN done(skip)
           ELSE delta("flags")
  <2>1. /\ [to("backfill") EXCEPT !.todo = groups] = back
        /\ ends(empty) = done(empty) /\ ends(skip) = done(skip)
        /\ [to("page") EXCEPT !.below = below] = page
        /\ to("changes") = delta("changes") /\ to("flags") = delta("flags")
    BY <1>2 DEF To, Pass
  <2>2. q = IF IsBackfill(p, sel)
              THEN IF groups # <<>> THEN [to("backfill") EXCEPT !.todo = groups]
                   ELSE ends(empty)
            ELSE IF ~IsDelta(p, sel) THEN [to("page") EXCEPT !.below = below]
            ELSE IF sel.dialect = "qresync" THEN to("changes")
            ELSE IF Unchanged(p, sel) THEN ends(skip)
            ELSE to("flags")
    BY DEF skip, empty
  <2> QED
    BY <2>1, <2>2, Zenon
<1> HIDE DEF q, to, ends
<1>12. \A stage \in {"changes", "flags"} :
         /\ delta(stage) \in Pass /\ delta(stage).stage = stage /\ delta(stage).chunks = <<>>
         /\ delta(stage).window = p.window /\ delta(stage).prior = p.prior /\ delta(stage).sel = sel
  BY <1>2, <1>3, <1>6, <1>9, <1>10 DEF To, Pass
<1>13. \A c \in {empty, skip} :
         /\ done(c) \in Pass /\ done(c).stage = "end" /\ done(c).chunks = <<c>>
         /\ done(c).window = p.window /\ done(c).prior = p.prior /\ done(c).sel = sel
  BY <1>2, <1>3, <1>6, <1>9, <1>10 DEF To, Pass
<1>14. /\ back \in Pass /\ back.stage = "backfill" /\ back.chunks = <<>> /\ back.todo = groups
       /\ back.window = p.window /\ back.prior = p.prior /\ back.sel = sel
  BY <1>2, <1>3, <1>5, <1>6, <1>9, <1>10 DEF To, Pass
<1>15. /\ page \in Pass /\ page.stage = "page" /\ page.chunks = <<>> /\ page.below = below
       /\ page.window = p.window /\ page.prior = p.prior /\ page.sel = sel
  BY <1>2, <1>3, <1>6, <1>9, <1>10 DEF To, Pass
<1> HIDE DEF done, back, page, delta
<1>16. /\ q \in Pass /\ q.window = p.window /\ q.prior = p.prior /\ q.sel = sel
       /\ q.stage = "backfill" => q.todo # <<>> /\ Descending(q.todo)
  BY <1>5, <1>11, <1>12, <1>13, <1>14, <1>15
<1>17. ASSUME holder' = w PROVE PassSound(Now, q)
  <2>1. PassSound(Now, p) /\ CursorSound(Now, Now.cursor)
    BY <1>1, <1>2, <1>17, AsksFacts, HoldersPass, NowWorld DEF Running, FolderIndInv, FolderInv
  <2>2. Selects(Now, p, q)
    BY <1>2, <1>3, <1>16, <2>1 DEF Selects
  <2>3. /\ Fresh(q) <=> Fresh(p)
        /\ IsBackfill(q, q.sel) <=> IsBackfill(p, sel)
        /\ BackfillHigh(q, q.sel) = BackfillHigh(p, sel)
        /\ Frontier(q, q.sel) = front
        /\ NextCursor(q, q.sel) = next
        /\ IsDelta(q, q.sel) <=> IsDelta(p, sel)
        /\ Unchanged(q, q.sel) <=> Unchanged(p, sel)
    BY <1>16, SameKind DEF front, next
  <2>4. \A u \in Uids : u \in B <=>
           (u <= BackfillHigh(q, q.sel) /\ (q.window = 0 \/ (On(Now, u) /\ Date[u] >= q.window)))
    BY <1>4, <1>16, <2>3
  <2> HIDE DEF p
  <2>5. CASE IsBackfill(p, sel) /\ groups # <<>>
    <3>1. q.stage = "backfill" /\ q.chunks = <<>> /\ q.todo = Groups(B) /\ q.todo # <<>>
      BY <1>11, <1>14, <2>5 DEF groups
    <3> QED
      BY <1>2, <1>5, <1>16, <2>2, <2>3, <2>4, <2>5, <3>1, SelectBackfill
  <2>6. CASE IsBackfill(p, sel) /\ groups = <<>>
    <3>1. q.stage = "end" /\ q.chunks = <<empty>> /\ Groups(B) = <<>>
      BY <1>11, <1>13, <2>6 DEF groups
    <3>2. empty.advance = Frontier(q, q.sel) /\ (empty.mode = "Reconcile" => Fresh(q))
      BY <1>7, <2>3
    <3> QED
      BY <1>2, <1>5, <1>7, <1>16, <2>2, <2>3, <2>4, <2>6, <3>1, <3>2, SelectEmpty
  <2>7. CASE ~IsBackfill(p, sel) /\ ~IsDelta(p, sel)
    <3>1. q.stage = "page" /\ q.chunks = <<>>
      BY <1>11, <1>15, <2>7
    <3>2. q.below = IF q.window = 0 THEN q.sel.uidNext ELSE MaxUid + 1
      BY <1>11, <1>15, <1>16, <2>7 DEF below
    <3> QED
      BY <1>2, <1>16, <2>2, <3>1, <3>2, SelectPage
  <2>8. CASE ~IsBackfill(p, sel) /\ IsDelta(p, sel) /\ (sel.dialect = "qresync" \/ ~Unchanged(p, sel))
    <3>1. q.stage \in {"changes", "flags"} /\ q.chunks = <<>>
      BY <1>11, <1>12, <2>8
    <3> QED
      BY <1>2, <1>16, <2>2, <2>3, <2>8, <3>1, SelectDelta
  <2>9. CASE ~IsBackfill(p, sel) /\ IsDelta(p, sel) /\ sel.dialect # "qresync" /\ Unchanged(p, sel)
    <3>1. q.stage = "end" /\ q.chunks = <<skip>>
      BY <1>11, <1>13, <2>9
    <3>2. skip.advance = NextCursor(q, q.sel)
      BY <1>8, <2>3
    <3> QED
      BY <1>2, <1>8, <1>16, <2>2, <2>3, <2>9, <3>1, <3>2, SelectUnchanged
  <2> QED
    BY <2>5, <2>6, <2>7, <2>8, <2>9
<1> QED
  BY <1>1, <1>16, <1>17, AsksFacts, PassStep

-------------------------------------------------------------------------------
(* The commit, as a step *)

Row == [ver : 0..MaxModseq, epoch : 0..MaxClears]

LEMMA RowFacts ==
  ASSUME TypeOK
  PROVE  /\ rows \in [Validities -> [Uids -> Row]] /\ NoRow \in Row
         /\ epoch \in 0..MaxClears /\ NoRows \in [Validities -> [Uids -> Row]]
<1>1. MaxClears \in Nat /\ MaxModseq \in Nat
  <2>1. MaxClears \in Nat
    BY MailFolderAssumption
  <2> QED
    BY <2>1, Constants
<1>2. NoRow \in Row
  BY <1>1 DEF NoRow, Row
<1> QED
  BY <1>2 DEF TypeOK, Row, NoRows

\* What the commit of the chunk c of p makes of the row r of u, in the epoch e.
Put(p, c, e, r, u) ==
  IF (Tombstones(c) /\ u \notin p.present) \/ u \in c.removed THEN NoRow
  ELSE IF c.whole[u] > 0 /\ Admitted(p, c, u) THEN [ver |-> c.whole[u], epoch |-> e]
  ELSE IF c.patched[u] > 0 /\ r # NoRow THEN [r EXCEPT !.ver = c.patched[u]]
  ELSE r

LEMMA ApplyRows ==
  ASSUME TypeOK, NEW p \in Pass, NEW c \in Chunk
  PROVE  /\ Apply(p, c) \in [Validities -> [Uids -> Row]]
         /\ \A u \in Uids : p.sel.validity \in Validities =>
              Apply(p, c)[p.sel.validity][u] = Put(p, c, epoch, rows[p.sel.validity][u], u)
         /\ \A v \in Validities, u \in Uids :
              (v # p.sel.validity /\ ~Tombstones(c)) => Apply(p, c)[v][u] = rows[v][u]
<1> DEFINE v0 == p.sel.validity
           held(u) == rows[v0][u]
           fresh(u) == [ver |-> c.whole[u], epoch |-> epoch]
           patch(u) == [held(u) EXCEPT !.ver = c.patched[u]]
           last == c.mode = "Reconcile" /\ c.advance # NoCursor
           applied(u) == IF (last /\ u \notin p.present) \/ u \in c.removed THEN NoRow
                         ELSE IF c.whole[u] > 0 /\ Admitted(p, c, u) THEN fresh(u)
                         ELSE IF c.patched[u] > 0 /\ held(u) # NoRow THEN patch(u)
                         ELSE held(u)
           put(u) == Put(p, c, epoch, held(u), u)
<1>1. /\ rows \in [Validities -> [Uids -> Row]] /\ NoRow \in Row /\ epoch \in 0..MaxClears
  BY RowFacts
<1>2. c.whole \in Versions /\ c.patched \in Versions
  BY DEF Chunk, Versions
<1>3. \A u \in Uids : fresh(u) \in Row
  BY <1>1, <1>2 DEF Versions, Row
<1>4. v0 \in Validities => \A u \in Uids : held(u) \in Row
  BY <1>1
<1>5. v0 \in Validities => \A u \in Uids : patch(u) \in Row
  BY <1>2, <1>4 DEF Versions, Row
<1> HIDE DEF fresh, patch, held
<1>6. last <=> Tombstones(c)
  BY DEF Tombstones
<1>7. \A u \in Uids : applied(u) = put(u)
  BY <1>6 DEF Put, fresh, patch
<1>8. Apply(p, c) = [v \in Validities |->
         IF v = v0 THEN [u \in Uids |-> applied(u)]
         ELSE IF last THEN [u \in Uids |-> NoRow] ELSE rows[v]]
  BY DEF Apply, held, fresh, patch
<1> HIDE DEF last, applied
<1>9. v0 \in Validities => \A u \in Uids : put(u) \in Row
  <2>1. \A u \in Uids : put(u) \in {NoRow, fresh(u), patch(u), held(u)}
    BY DEF Put, fresh, patch
  <2> QED
    BY <1>1, <1>3, <1>4, <1>5, <2>1
<1> HIDE DEF put
<1>10. v0 \in Validities => \A u \in Uids : applied(u) \in Row
  BY <1>7, <1>9
<1>11. Apply(p, c) \in [Validities -> [Uids -> Row]]
  BY <1>1, <1>8, <1>10
<1>12. v0 \in Validities => \A u \in Uids : Apply(p, c)[v0][u] = put(u)
  BY <1>7, <1>8
<1>13. \A v \in Validities, u \in Uids :
         (v # v0 /\ ~Tombstones(c)) => Apply(p, c)[v][u] = rows[v][u]
  BY <1>6, <1>8
<1> QED
  BY <1>11, <1>12, <1>13 DEF put, held

LEMMA CommitStep ==
  ASSUME FolderIndInv, NEW w \in Workers, Commit(w)
  PROVE  FolderIndInv'
<1> DEFINE p == pass[w]
           c == Head(p.chunks)
           moved == IF c.advance = NoCursor THEN cursor ELSE c.advance
           left == IF c.advance = NoCursor THEN p.left ELSE moved
           q == [p EXCEPT !.chunks = Tail(@), !.left = left]
<1>1. /\ Running(w) /\ p.chunks # <<>> /\ holder = w
      /\ rows' = Apply(p, c) /\ cursor' = moved
      /\ pass' = [pass EXCEPT ![w] = q]
      /\ UNCHANGED <<server, speaks, holder, lease, epoch, faults, depth>>
  BY DEF Commit
<1>2. TypeOK /\ p \in Pass /\ Now \in World /\ PassSound(Now, p)
  BY <1>1, HoldersPass
<1>3. c \in Chunk /\ Tail(p.chunks) \in Seq(Chunk)
  BY <1>1, <1>2, TailChunks
<1> HIDE DEF c
<1>4. cursor \in Cursor /\ moved \in Cursor /\ left \in Cursor
  <2>1. cursor \in Cursor /\ p.left \in Cursor
    BY <1>2, PassFields DEF TypeOK
  <2>2. c.advance \in Cursor
    BY <1>3 DEF Chunk
  <2> QED
    BY <2>1, <2>2
<1> HIDE DEF left, moved
<1>5. q \in Pass /\ Committed(p, q) /\ q.stage = p.stage /\ q.todo = p.todo
  BY <1>2, <1>3, <1>4 DEF Pass, Committed
<1> HIDE DEF q
<1>6. pass' \in [Workers -> Pass] /\ pass'[w] = q /\ \A x \in Workers : x # w => pass'[x] = pass[x]
  BY <1>1, <1>2, <1>5 DEF TypeOK
<1>7. rows' \in [Validities -> [Uids -> Row]]
  BY <1>1, <1>2, <1>3, ApplyRows
<1>8. TypeOK'
  <2>1. rows' \in [Validities -> [Uids -> [ver : 0..MaxModseq, epoch : 0..MaxClears]]]
    BY <1>7 DEF Row
  <2>2. cursor' \in Cursor
    BY <1>1, <1>4
  <2> QED
    BY <1>1, <1>2, <1>6, <2>1, <2>2 DEF TypeOK
<1>9. /\ Now' \in World /\ Now'.server = server /\ Now'.speaks = speaks /\ Now'.cursor = moved
      /\ Now'.rows = Apply(p, c) /\ Now'.epoch = epoch /\ Now'.depth = depth
      /\ Now.server = server /\ Now.speaks = speaks /\ Now.cursor = cursor
      /\ Now.rows = rows /\ Now.epoch = epoch /\ Now.depth = depth
  BY <1>1, <1>2, <1>8, NowWorld, NowWorldNext
<1>10. server.validity \in Validities
  BY <1>2 DEF TypeOK
<1>11. Applied(Now, Now', p, c)
  <2> DEFINE v0 == server.validity
  <2>1. /\ Now'.server = Now.server /\ Now'.speaks = Now.speaks /\ Now'.epoch = Now.epoch
        /\ Now'.depth = Now.depth
        /\ Now'.cursor = IF c.advance = NoCursor THEN Now.cursor ELSE c.advance
    BY <1>9 DEF moved
  <2>2. \A u \in Uids : Stored(Now, u) = rows[v0][u] /\ Stored(Now', u) = Apply(p, c)[v0][u]
    BY <1>9 DEF Stored
  <2>3. ASSUME p.sel.validity = Now.server.validity, NEW u \in Uids
        PROVE  Stored(Now', u) =
                 IF (Tombstones(c) /\ u \notin p.present) \/ u \in c.removed THEN NoRow
                 ELSE IF c.whole[u] > 0 /\ Admitted(p, c, u)
                   THEN [ver |-> c.whole[u], epoch |-> Now.epoch]
                 ELSE IF c.patched[u] > 0 /\ Stored(Now, u) # NoRow
                   THEN [Stored(Now, u) EXCEPT !.ver = c.patched[u]]
                 ELSE Stored(Now, u)
    <3>1. p.sel.validity = v0 /\ v0 \in Validities /\ epoch = Now.epoch
      BY <1>9, <1>10, <2>3
    <3> HIDE DEF v0, p
    <3>2. Apply(p, c)[v0][u] = Put(p, c, epoch, rows[v0][u], u)
      BY <1>2, <1>3, <3>1, ApplyRows
    <3>3. Stored(Now, u) = rows[v0][u] /\ Stored(Now', u) = Apply(p, c)[v0][u]
      BY <2>2
    <3> QED
      BY <3>1, <3>2, <3>3 DEF Put
  <2>4. ASSUME p.sel.validity # Now.server.validity, ~Tombstones(c), NEW u \in Uids
        PROVE  Stored(Now', u) = Stored(Now, u)
    <3>1. v0 \in Validities /\ v0 # p.sel.validity
      BY <1>9, <1>10, <2>4
    <3> HIDE DEF v0, p
    <3>2. Apply(p, c)[v0][u] = rows[v0][u]
      BY <1>2, <1>3, <2>4, <3>1, ApplyRows
    <3> QED
      BY <2>2, <3>2
  <2> HIDE DEF p, moved
  <2> QED
    BY <2>1, <2>3, <2>4 DEF Applied
<1>12. CursorSound(Now, Now.cursor) /\ CoveredGood(Now, Now.cursor)
  BY <1>9 DEF FolderIndInv, FolderInv
<1>13. PassSound(Now', q) /\ CursorSound(Now', Now'.cursor) /\ CoveredGood(Now', Now'.cursor)
  <2>1. Applied(Now, Now', p, Head(p.chunks))
    BY <1>11 DEF c
  <2> HIDE DEF p
  <2> QED
    BY <1>1, <1>2, <1>5, <1>9, <1>12, <2>1, CommitKeeps
<1>14. HolderSound'
  <2>1. \A x \in Workers : holder' = x => PassSound(Now', pass'[x])
    BY <1>1, <1>6, <1>13
  <2> QED
    BY <2>1 DEF HolderSound
<1>15. ServerSound(Now')
  BY <1>9 DEF FolderIndInv, FolderInv, ServerSound, On, Gone
<1>16. TodoSound'
  BY <1>5, <1>6 DEF FolderIndInv, TodoSound
<1>17. cursor' = Now'.cursor
  BY <1>1, <1>9
<1> QED
  BY <1>8, <1>13, <1>14, <1>15, <1>16, <1>17 DEF FolderIndInv, FolderInv

-------------------------------------------------------------------------------
(* The server, as steps *)

\* The server's steps leave the store and the passes alone, and what is promised of
\* the holder's pass survives them (PassAfter).
LEMMA MovesStep ==
  ASSUME FolderIndInv, TypeOK', Moves(Now, Now'), ServerSound(Now'), UNCHANGED <<holder, pass>>
  PROVE  FolderIndInv'
<1>1. TypeOK /\ cursor \in Cursor /\ pass \in [Workers -> Pass]
  BY DEF FolderIndInv, FolderInv, TypeOK
<1>2. Now \in World /\ Now' \in World /\ Now.cursor = cursor /\ Now'.cursor = cursor'
  BY <1>1, NowWorld, NowWorldNext
<1>3. cursor' = cursor
  BY <1>2 DEF Moves
<1>4. CursorSound(Now, cursor) /\ CoveredGood(Now, cursor) /\ Past(Now, cursor)
  BY DEF FolderIndInv, FolderInv, CursorSound
<1>5. cursor.validity \in Nat /\ cursor.modseq \in Nat /\ cursor.uidNext \in Nat
  BY <1>1, CursorFields
<1>6. Past(Now', cursor) /\ CoveredGood(Now', cursor)
  BY <1>1, <1>2, <1>4, <1>5, PastAfter, CoveredAfter
<1>7. CursorSound(Now', cursor)
  BY <1>4, <1>6 DEF CursorSound
<1>8. HolderSound'
  <2>1. ASSUME NEW w \in Workers, holder = w, Running(w) PROVE PassSound(Now', pass[w])
    <3>1. pass[w] \in Pass /\ PassSound(Now, pass[w])
      BY <2>1, HoldersPass
    <3> QED
      BY <1>2, <3>1, PassAfter
  <2> QED
    BY <2>1 DEF HolderSound, Running
<1>9. TodoSound'
  BY DEF FolderIndInv, TodoSound
<1> QED
  BY <1>3, <1>6, <1>7, <1>8, <1>9 DEF FolderIndInv, FolderInv

\* The server's own bounds, and a step of it that stays in the UID space.
LEMMA ServerFacts ==
  ASSUME FolderIndInv
  PROVE  /\ TypeOK /\ server \in Server
         /\ server.validity \in Validities /\ server.validity \in Nat
         /\ server.uidNext \in 1..(MaxUid + 1) /\ server.uidNext \in Nat
         /\ server.modseq \in 1..MaxModseq /\ server.modseq \in Nat
         /\ server.mail \in [Uids -> 0..MaxModseq] /\ server.gone \in [Uids -> 0..MaxModseq]
         /\ MaxUid \in Nat /\ MaxModseq \in Nat /\ MaxValidity \in Nat
         /\ \A u \in Uids : /\ u \in Nat /\ server.mail[u] \in Nat
                            /\ server.mail[u] > 0 => u < server.uidNext
                            /\ server.gone[u] > 0 => (server.mail[u] = 0 /\ u < server.uidNext)
<1>1. TypeOK /\ ServerSound(Now) /\ Now.server = server
  BY NowWorld DEF FolderIndInv, FolderInv
<1>2. MaxUid \in Nat /\ MaxModseq \in Nat /\ MaxValidity \in Nat
  BY Constants
<1>3. server \in Server
  BY <1>1 DEF TypeOK, Server
<1>4. \A u \in Uids : /\ server.mail[u] > 0 => u < server.uidNext
                      /\ server.gone[u] > 0 => (server.mail[u] = 0 /\ u < server.uidNext)
  BY <1>1 DEF ServerSound, On, Gone
<1>5. \A u \in Uids : u \in Nat
  BY UidFields
<1>6. /\ server.validity \in Validities /\ server.validity \in Nat
      /\ server.uidNext \in 1..(MaxUid + 1) /\ server.uidNext \in Nat
      /\ server.modseq \in 1..MaxModseq /\ server.modseq \in Nat
      /\ server.mail \in [Uids -> 0..MaxModseq] /\ server.gone \in [Uids -> 0..MaxModseq]
      /\ \A u \in Uids : server.mail[u] \in Nat
  BY <1>2, <1>3 DEF Server, Validities
<1> QED
  BY <1>1, <1>2, <1>3, <1>4, <1>5, <1>6

LEMMA ServerStep ==
  ASSUME FolderIndInv, server' \in Server,
         UNCHANGED <<speaks, holder, lease, cursor, rows, epoch, pass, faults, depth>>,
         server.modseq <= server'.modseq,
         \/ server.validity < server'.validity
         \/ /\ server'.validity = server.validity /\ server.uidNext <= server'.uidNext
            /\ \A u \in Uids :
                 /\ server'.mail[u] \in {0, server.mail[u]} \/ server'.mail[u] > server.modseq
                 /\ server'.mail[u] > 0 => (server.mail[u] > 0 \/ u >= server.uidNext),
         \A u \in Uids :
           /\ server'.mail[u] > 0 => u < server'.uidNext
           /\ server'.gone[u] > 0 => (server'.mail[u] = 0 /\ u < server'.uidNext)
  PROVE  FolderIndInv'
<1>1. TypeOK
  BY DEF FolderIndInv, FolderInv
<1>2. TypeOK'
  BY <1>1 DEF TypeOK, Server
<1>3. /\ Now'.server = server' /\ Now'.speaks = speaks /\ Now'.cursor = cursor
      /\ Now'.rows = rows /\ Now'.epoch = epoch /\ Now'.depth = depth
      /\ Now.server = server /\ Now.speaks = speaks /\ Now.cursor = cursor
      /\ Now.rows = rows /\ Now.epoch = epoch /\ Now.depth = depth
  BY <1>1, <1>2, NowWorld, NowWorldNext
<1>4. server.validity < server'.validity \/ SameSpace(Now, Now')
  BY <1>3 DEF SameSpace, On
<1>5. Moves(Now, Now')
  BY <1>3, <1>4 DEF Moves
<1>6. ServerSound(Now')
  BY <1>3 DEF ServerSound, On, Gone
<1> QED
  BY <1>2, <1>5, <1>6, MovesStep

LEMMA ArriveStep ==
  ASSUME FolderIndInv, Arrive
  PROVE  FolderIndInv'
<1> DEFINE n == server.uidNext
           m == server.modseq
           t == [server EXCEPT !.uidNext = @ + 1, !.modseq = @ + 1,
                               !.mail = [@ EXCEPT ![n] = m + 1]]
<1>1. n <= MaxUid /\ m < MaxModseq /\ server' = t /\ Untouched
  BY DEF Arrive
<1>2. /\ server \in Server /\ n \in 1..(MaxUid + 1) /\ n \in Nat /\ m \in 1..MaxModseq /\ m \in Nat
      /\ server.mail \in [Uids -> 0..MaxModseq] /\ server.gone \in [Uids -> 0..MaxModseq]
      /\ MaxUid \in Nat /\ MaxModseq \in Nat
      /\ \A u \in Uids : /\ u \in Nat /\ server.mail[u] \in Nat
                         /\ server.mail[u] > 0 => u < n
                         /\ server.gone[u] > 0 => (server.mail[u] = 0 /\ u < n)
  BY ServerFacts
<1>3. n \in Uids /\ n + 1 \in 1..(MaxUid + 1) /\ m + 1 \in 1..MaxModseq /\ m + 1 \in 0..MaxModseq
  BY <1>1, <1>2 DEF Uids
<1>4. /\ t \in Server /\ t.uidNext = n + 1 /\ t.modseq = m + 1 /\ t.validity = server.validity
      /\ t.mail = [server.mail EXCEPT ![n] = m + 1] /\ t.gone = server.gone
  BY <1>2, <1>3 DEF Server
<1>5. \A u \in Uids : t.mail[u] = IF u = n THEN m + 1 ELSE server.mail[u]
  BY <1>2, <1>3, <1>4
<1> HIDE DEF t
<1>6. \A u \in Uids :
        /\ t.mail[u] \in {0, server.mail[u]} \/ t.mail[u] > m
        /\ t.mail[u] > 0 => (server.mail[u] > 0 \/ u >= n)
        /\ t.mail[u] > 0 => u < t.uidNext
        /\ t.gone[u] > 0 => (t.mail[u] = 0 /\ u < t.uidNext)
  BY <1>2, <1>4, <1>5
<1>7. m <= t.modseq /\ n <= t.uidNext
  BY <1>2, <1>4
<1> QED
  BY <1>1, <1>4, <1>6, <1>7, ServerStep DEF Untouched

LEMMA ChangeStep ==
  ASSUME FolderIndInv, NEW x \in Uids, Change(x)
  PROVE  FolderIndInv'
<1> DEFINE n == server.uidNext
           m == server.modseq
           t == [server EXCEPT !.modseq = @ + 1, !.mail = [@ EXCEPT ![x] = m + 1]]
<1>1. server.mail[x] > 0 /\ m < MaxModseq /\ server' = t /\ Untouched
  BY DEF Change, OnServer
<1>2. /\ server \in Server /\ n \in Nat /\ m \in 1..MaxModseq /\ m \in Nat
      /\ server.mail \in [Uids -> 0..MaxModseq] /\ server.gone \in [Uids -> 0..MaxModseq]
      /\ MaxModseq \in Nat
      /\ \A u \in Uids : /\ u \in Nat /\ server.mail[u] \in Nat
                         /\ server.mail[u] > 0 => u < n
                         /\ server.gone[u] > 0 => (server.mail[u] = 0 /\ u < n)
  BY ServerFacts
<1>3. m + 1 \in 1..MaxModseq /\ m + 1 \in 0..MaxModseq
  BY <1>1, <1>2
<1>4. /\ t \in Server /\ t.uidNext = n /\ t.modseq = m + 1 /\ t.validity = server.validity
      /\ t.mail = [server.mail EXCEPT ![x] = m + 1] /\ t.gone = server.gone
  BY <1>2, <1>3 DEF Server
<1>5. \A u \in Uids : t.mail[u] = IF u = x THEN m + 1 ELSE server.mail[u]
  BY <1>2, <1>3, <1>4
<1> HIDE DEF t
<1>6. \A u \in Uids :
        /\ t.mail[u] \in {0, server.mail[u]} \/ t.mail[u] > m
        /\ t.mail[u] > 0 => (server.mail[u] > 0 \/ u >= n)
        /\ t.mail[u] > 0 => u < t.uidNext
        /\ t.gone[u] > 0 => (t.mail[u] = 0 /\ u < t.uidNext)
  BY <1>1, <1>2, <1>4, <1>5
<1>7. m <= t.modseq /\ n <= t.uidNext
  BY <1>2, <1>4
<1> QED
  BY <1>1, <1>4, <1>6, <1>7, ServerStep DEF Untouched

LEMMA ExpungeStep ==
  ASSUME FolderIndInv, NEW x \in Uids, Expunge(x)
  PROVE  FolderIndInv'
<1> DEFINE n == server.uidNext
           m == server.modseq
           t == [server EXCEPT !.modseq = @ + 1, !.mail = [@ EXCEPT ![x] = 0],
                               !.gone = [@ EXCEPT ![x] = m + 1]]
<1>1. server.mail[x] > 0 /\ m < MaxModseq /\ server' = t /\ Untouched
  BY DEF Expunge, OnServer
<1>2. /\ server \in Server /\ n \in Nat /\ m \in 1..MaxModseq /\ m \in Nat
      /\ server.mail \in [Uids -> 0..MaxModseq] /\ server.gone \in [Uids -> 0..MaxModseq]
      /\ MaxModseq \in Nat
      /\ \A u \in Uids : /\ u \in Nat /\ server.mail[u] \in Nat
                         /\ server.mail[u] > 0 => u < n
                         /\ server.gone[u] > 0 => (server.mail[u] = 0 /\ u < n)
  BY ServerFacts
<1>3. m + 1 \in 1..MaxModseq /\ m + 1 \in 0..MaxModseq /\ 0 \in 0..MaxModseq
  BY <1>1, <1>2
<1>4. /\ t \in Server /\ t.uidNext = n /\ t.modseq = m + 1 /\ t.validity = server.validity
      /\ t.mail = [server.mail EXCEPT ![x] = 0] /\ t.gone = [server.gone EXCEPT ![x] = m + 1]
  BY <1>2, <1>3 DEF Server
<1>5. \A u \in Uids : /\ t.mail[u] = IF u = x THEN 0 ELSE server.mail[u]
                      /\ t.gone[u] = IF u = x THEN m + 1 ELSE server.gone[u]
  BY <1>2, <1>3, <1>4
<1> HIDE DEF t
<1>6. \A u \in Uids :
        /\ t.mail[u] \in {0, server.mail[u]} \/ t.mail[u] > m
        /\ t.mail[u] > 0 => (server.mail[u] > 0 \/ u >= n)
        /\ t.mail[u] > 0 => u < t.uidNext
        /\ t.gone[u] > 0 => (t.mail[u] = 0 /\ u < t.uidNext)
  BY <1>1, <1>2, <1>4, <1>5
<1>7. m <= t.modseq /\ n <= t.uidNext
  BY <1>2, <1>4
<1> QED
  BY <1>1, <1>4, <1>6, <1>7, ServerStep DEF Untouched

LEMMA RenumberStep ==
  ASSUME FolderIndInv, Renumber
  PROVE  FolderIndInv'
<1> DEFINE n == Cardinality(OnServer)
           m == server.modseq
           v == server.validity
           mail == [u \in Uids |-> IF u <= n THEN m + 1 ELSE 0]
           t == [validity |-> v + 1, uidNext |-> n + 1, modseq |-> m + 1, gone |-> Nothing,
                 mail |-> mail]
<1>1. v < MaxValidity /\ m < MaxModseq /\ server' = t /\ Untouched
  BY DEF Renumber
<1>2. /\ m \in 1..MaxModseq /\ m \in Nat /\ v \in Validities /\ v \in Nat
      /\ MaxModseq \in Nat /\ MaxValidity \in Nat /\ MaxUid \in Nat
      /\ \A u \in Uids : u \in Nat
  BY ServerFacts
<1>3. n \in 0..MaxUid
  BY UidsFinite DEF OnServer
<1> HIDE DEF n
<1>4. /\ m + 1 \in 1..MaxModseq /\ m + 1 \in 0..MaxModseq /\ 0 \in 0..MaxModseq
      /\ v + 1 \in Validities /\ n + 1 \in 1..(MaxUid + 1) /\ n \in Nat
  BY <1>1, <1>2, <1>3 DEF Validities
<1>5. mail \in [Uids -> 0..MaxModseq] /\ \A u \in Uids : mail[u] = IF u <= n THEN m + 1 ELSE 0
  BY <1>4
<1>6. Nothing \in [Uids -> 0..MaxModseq] /\ \A u \in Uids : Nothing[u] = 0
  BY Constants DEF Versions
<1> HIDE DEF mail, Nothing
<1>7. /\ t \in Server /\ t.uidNext = n + 1 /\ t.modseq = m + 1 /\ t.validity = v + 1
      /\ t.mail = mail /\ t.gone = Nothing
  <2> HIDE DEF m, v
  <2> QED
    BY <1>4, <1>5, <1>6 DEF Server
<1> HIDE DEF t
<1>8. \A u \in Uids :
        /\ t.mail[u] > 0 => u < t.uidNext
        /\ t.gone[u] > 0 => (t.mail[u] = 0 /\ u < t.uidNext)
  BY <1>2, <1>4, <1>5, <1>6, <1>7
<1>9. m <= t.modseq /\ v < t.validity
  BY <1>2, <1>7
<1> QED
  BY <1>1, <1>7, <1>8, <1>9, ServerStep DEF Untouched

LEMMA UpgradeStep ==
  ASSUME FolderIndInv, Upgrade
  PROVE  FolderIndInv'
<1>1. TypeOK /\ ServerSound(Now)
  BY DEF FolderIndInv, FolderInv
<1>2. /\ speaks' = "upgraded"
      /\ UNCHANGED <<server, holder, lease, cursor, rows, epoch, pass, faults, depth>>
  BY DEF Upgrade
<1>3. TypeOK'
  BY <1>1, <1>2 DEF TypeOK
<1>4. /\ Now'.server = server /\ Now'.speaks = "upgraded" /\ Now'.cursor = cursor
      /\ Now'.rows = rows /\ Now'.epoch = epoch /\ Now'.depth = depth
      /\ Now.server = server /\ Now.speaks = speaks /\ Now.cursor = cursor
      /\ Now.rows = rows /\ Now.epoch = epoch /\ Now.depth = depth
  BY <1>1, <1>2, <1>3, NowWorld, NowWorldNext
<1>5. /\ server.uidNext \in Nat /\ server.modseq \in Nat
  BY ServerFacts
<1>6. SameSpace(Now, Now')
  BY <1>4, <1>5 DEF SameSpace, On
<1>7. Moves(Now, Now')
  BY <1>4, <1>5, <1>6 DEF Moves
<1>8. ServerSound(Now')
  BY <1>1, <1>4 DEF ServerSound, On, Gone
<1> QED
  BY <1>2, <1>3, <1>7, <1>8, MovesStep

-------------------------------------------------------------------------------
(* The host, the lease, and the theorems *)

\* A prune drops rows below its floor, which nothing vouches for any more.
LEMMA PruneStep ==
  ASSUME FolderIndInv, Prune
  PROVE  FolderIndInv'
<1>1. TypeOK /\ ServerSound(Now) /\ CursorSound(Now, cursor) /\ CoveredGood(Now, cursor)
  BY DEF FolderIndInv, FolderInv
<1>2. PICK floor \in Floors :
        /\ floor > depth /\ depth' = floor
        /\ rows' = [v \in Validities |->
                      [u \in Uids |-> IF Date[u] < floor THEN NoRow ELSE rows[v][u]]]
        /\ UNCHANGED <<server, speaks, holder, lease, cursor, epoch, pass, faults>>
  BY DEF Prune
<1>3. rows \in [Validities -> [Uids -> Row]] /\ NoRow \in Row
  BY <1>1, RowFacts
<1>4. rows' \in [Validities -> [Uids -> Row]]
  BY <1>2, <1>3
<1>5. TypeOK'
  <2>1. rows' \in [Validities -> [Uids -> [ver : 0..MaxModseq, epoch : 0..MaxClears]]]
    BY <1>4 DEF Row
  <2> QED
    BY <1>1, <1>2, <2>1 DEF TypeOK
<1>6. /\ Now' \in World /\ Now'.server = server /\ Now'.speaks = speaks /\ Now'.cursor = cursor
      /\ Now'.rows = rows' /\ Now'.epoch = epoch /\ Now'.depth = floor
      /\ Now \in World /\ Now.server = server /\ Now.speaks = speaks /\ Now.cursor = cursor
      /\ Now.rows = rows /\ Now.epoch = epoch /\ Now.depth = depth
  BY <1>1, <1>2, <1>5, NowWorld, NowWorldNext
<1>7. Pruned(Now, Now')
  <2>1. floor \in Nat /\ depth \in Nat
    <3>1. Floors \subseteq Nat
      BY MailFolderAssumption
    <3> QED
      BY <1>1, <3>1 DEF TypeOK
  <2>2. server.validity \in Validities
    BY <1>1 DEF TypeOK
  <2>3. ASSUME NEW u \in Uids, Date[u] >= floor PROVE Stored(Now', u) = Stored(Now, u)
    <3>1. ~(Date[u] < floor)
      BY <2>1, <2>3, UidFields
    <3> QED
      BY <1>2, <1>6, <2>2, <3>1 DEF Stored
  <2>4. depth <= floor
    BY <1>2, <2>1
  <2> QED
    BY <1>6, <2>3, <2>4 DEF Pruned
<1>8. CursorSound(Now', cursor) /\ CoveredGood(Now', cursor)
  BY <1>1, <1>6, <1>7, PrunedSame, PrunedCovered
<1>9. HolderSound'
  <2>1. ASSUME NEW w \in Workers, holder = w, Running(w) PROVE PassSound(Now', pass[w])
    <3>1. pass[w] \in Pass /\ PassSound(Now, pass[w])
      BY <2>1, HoldersPass
    <3> QED
      BY <1>6, <1>7, <3>1, PrunedPass
  <2> QED
    BY <1>2, <2>1 DEF HolderSound, Running
<1>10. TodoSound'
  BY <1>2 DEF FolderIndInv, TodoSound
<1>11. ServerSound(Now')
  BY <1>1, <1>6 DEF ServerSound, On, Gone
<1> QED
  BY <1>2, <1>5, <1>8, <1>9, <1>10, <1>11 DEF FolderIndInv, FolderInv

\* No cursor vouches for nothing.
LEMMA NoCursorSound ==
  ASSUME NEW s \in World
  PROVE  CursorSound(s, NoCursor) /\ CoveredGood(s, NoCursor)
<1>1. /\ s.server.validity \in Nat /\ s.server.validity >= 1 /\ s.server.modseq \in Nat
  BY WorldFields
<1>2. NoCursor.validity = 0 /\ NoCursor.modseq = 0
  BY Constants
<1> QED
  BY <1>1, <1>2 DEF CursorSound, Past, CoveredGood, Kept, Under

\* Once nobody's token is current there is nothing to be promised of a pass.
LEMMA FencedStep ==
  ASSUME FolderIndInv, TypeOK', holder' = Nobody, UNCHANGED <<server, speaks, pass>>,
         cursor' = NoCursor \/ UNCHANGED <<cursor, rows, epoch, depth>>
  PROVE  FolderIndInv'
<1>1. TypeOK /\ ServerSound(Now) /\ CursorSound(Now, cursor) /\ CoveredGood(Now, cursor)
  BY DEF FolderIndInv, FolderInv
<1>2. Now' \in World /\ Now'.server = server /\ Now.server = server
  BY <1>1, NowWorld, NowWorldNext
<1>3. CursorSound(Now', cursor') /\ CoveredGood(Now', cursor')
  <2>1. CASE cursor' = NoCursor
    BY <1>2, <2>1, NoCursorSound
  <2>2. CASE UNCHANGED <<cursor, rows, epoch, depth>>
    <3>1. Now' = Now
      BY <2>2 DEF Now
    <3> QED
      BY <1>1, <2>2, <3>1
  <2> QED
    BY <2>1, <2>2
<1>4. HolderSound'
  <2>1. Nobody \notin Workers
    BY MailFolderAssumption
  <2> QED
    BY <2>1 DEF HolderSound
<1>5. ServerSound(Now')
  BY <1>1, <1>2 DEF ServerSound, On, Gone
<1>6. TodoSound'
  BY DEF FolderIndInv, TodoSound
<1> QED
  BY <1>3, <1>4, <1>5, <1>6 DEF FolderIndInv, FolderInv

LEMMA FaultTyped ==
  ASSUME TypeOK, Fault \/ UNCHANGED faults
  PROVE  faults' \in 0..MaxFaults
<1>1. MaxFaults \in Nat
  BY MailFolderAssumption
<1>2. faults \in 0..MaxFaults
  BY DEF TypeOK
<1> QED
  BY <1>1, <1>2 DEF Fault

\* The host's own steps all take the token away.
LEMMA HostStep ==
  ASSUME FolderIndInv, ClearCursor \/ AbandonLeases \/ ForgetScope
  PROVE  FolderIndInv'
<1>1. TypeOK
  BY DEF FolderIndInv, FolderInv
<1>2. /\ holder' = Nobody /\ UNCHANGED <<server, speaks, pass>> /\ lease' = "none"
      /\ cursor' = NoCursor \/ UNCHANGED <<cursor, rows, epoch, depth>>
      /\ depth' \in Floors /\ (Fault \/ UNCHANGED faults)
      /\ rows' \in {rows, NoRows}
      /\ UNCHANGED epoch \/ (epoch < MaxClears /\ epoch' = epoch + 1)
      /\ cursor' \in {cursor, NoCursor}
  <2>1. CASE ClearCursor
    BY <2>1 DEF ClearCursor
  <2>2. CASE AbandonLeases
    BY <1>1, <2>2 DEF AbandonLeases, TypeOK
  <2>3. CASE ForgetScope
    BY <1>1, <2>3 DEF ForgetScope, TypeOK
  <2> QED
    BY <2>1, <2>2, <2>3
<1>3. faults' \in 0..MaxFaults
  BY <1>1, <1>2, FaultTyped
<1>4. epoch' \in 0..MaxClears
  <2>1. MaxClears \in Nat
    BY MailFolderAssumption
  <2>2. epoch \in 0..MaxClears
    BY <1>1 DEF TypeOK
  <2> QED
    BY <1>2, <2>1, <2>2
<1>5. rows' \in [Validities -> [Uids -> [ver : 0..MaxModseq, epoch : 0..MaxClears]]]
  BY <1>1, <1>2, RowFacts DEF Row
<1>6. cursor' \in Cursor
  BY <1>1, <1>2, Constants DEF TypeOK
<1>7. TypeOK'
  BY <1>1, <1>2, <1>3, <1>4, <1>5, <1>6 DEF TypeOK
<1> QED
  BY <1>2, <1>7, FencedStep

\* A step that touches nothing but the lease and the count of faults.
LEMMA LeaseStep ==
  ASSUME FolderIndInv,
         UNCHANGED <<server, speaks, holder, cursor, rows, epoch, pass, depth>>,
         lease' \in {"none", "live", "lapsed"}, faults' \in 0..MaxFaults
  PROVE  FolderIndInv'
<1>1. TypeOK
  BY DEF FolderIndInv, FolderInv
<1>2. TypeOK'
  BY <1>1 DEF TypeOK
<1>3. Now' = Now
  BY DEF Now
<1>4. ServerSound(Now) /\ CursorSound(Now, cursor) /\ CoveredGood(Now, cursor)
  BY DEF FolderIndInv, FolderInv
<1>5. ServerSound(Now') /\ CursorSound(Now', cursor') /\ CoveredGood(Now', cursor')
  BY <1>3, <1>4
<1>6. HolderSound'
  <2>1. \A w \in Workers : (holder = w /\ Running(w)) => PassSound(Now, pass[w])
    BY DEF FolderIndInv, FolderInv, HolderSound
  <2>2. \A w \in Workers : (holder' = w /\ pass'[w].stage \notin {"idle", "fenced"}) =>
          PassSound(Now', pass'[w])
    BY <1>3, <2>1 DEF Running
  <2> QED
    BY <2>2 DEF HolderSound, Running
<1>7. TodoSound'
  BY DEF FolderIndInv, TodoSound
<1> QED
  BY <1>2, <1>5, <1>6, <1>7 DEF FolderIndInv, FolderInv

\* The invariant holds at first, and every step keeps it.
LEMMA FolderInit ==
  Init => FolderIndInv
<1> SUFFICES ASSUME Init PROVE FolderIndInv
  OBVIOUS
<1> DEFINE mail == [u \in Uids |-> IF u <= InitialMail THEN u + 1 ELSE 0]
           t == [validity |-> 1, uidNext |-> InitialMail + 1, modseq |-> InitialMail + 1,
                 mail |-> mail, gone |-> Nothing]
<1>1. InitialMail \in 0..MaxUid /\ InitialMail < MaxModseq
  BY MailFolderAssumption
<1>2. MaxUid \in Nat /\ MaxModseq \in Nat /\ MaxValidity \in Nat \ {0} /\ NoCursor \in Cursor
      /\ Nothing \in [Uids -> 0..MaxModseq] /\ \A u \in Uids : Nothing[u] = 0
  BY Constants DEF Versions
<1>3. 0 \in Floors /\ MaxClears \in Nat /\ MaxFaults \in Nat
  BY MailFolderAssumption
<1>4. server = t
  BY DEF Init
<1>5. mail \in [Uids -> 0..MaxModseq]
  BY <1>1, <1>2, UidFields
<1>6. \A u \in Uids : mail[u] > 0 => u < InitialMail + 1
  BY <1>1, UidFields
<1> HIDE DEF mail, Nothing
<1>7. t \in Server /\ t.uidNext = InitialMail + 1 /\ t.mail = mail /\ t.gone = Nothing
  BY <1>1, <1>2, <1>5 DEF Server, Validities
<1> HIDE DEF t
<1>8. NoRow \in Row
  BY <1>2, <1>3 DEF NoRow, Row
<1>9. rows \in [Validities -> [Uids -> [ver : 0..MaxModseq, epoch : 0..MaxClears]]]
  BY <1>8 DEF Init, NoRows, Row
<1>10. pass \in [Workers -> Pass] /\ \A w \in Workers : pass[w].stage = "idle"
  BY IdleTyped DEF Init
<1>11. cursor \in Cursor /\ cursor = NoCursor
  BY <1>2 DEF Init
<1>12. TypeOK
  <2>1. epoch \in 0..MaxClears /\ faults \in 0..MaxFaults /\ depth \in Floors
    BY <1>3 DEF Init
  <2>2. /\ speaks \in Dialects \cup {"upgraded"} /\ holder \in Workers \cup {Nobody}
        /\ lease \in {"none", "live", "lapsed"}
    BY DEF Init
  <2>3. server \in Server
    BY <1>4, <1>7
  <2> QED
    BY <1>9, <1>10, <1>11, <2>1, <2>2, <2>3 DEF TypeOK, Server
<1>13. Now \in World /\ Now.server = t
  BY <1>4, <1>12, NowWorld
<1>14. ServerSound(Now)
  BY <1>2, <1>6, <1>7, <1>13 DEF ServerSound, On, Gone
<1>15. CursorSound(Now, cursor) /\ CoveredGood(Now, cursor)
  BY <1>11, <1>13, NoCursorSound
<1>16. HolderSound /\ TodoSound
  BY <1>10 DEF HolderSound, TodoSound, Running
<1> QED
  BY <1>12, <1>14, <1>15, <1>16 DEF FolderIndInv, FolderInv

LEMMA FolderNext ==
  FolderIndInv /\ [Next]_vars => FolderIndInv'
<1> SUFFICES ASSUME FolderIndInv, [Next]_vars PROVE FolderIndInv'
  OBVIOUS
<1>1. TypeOK
  BY DEF FolderIndInv, FolderInv
<1>2. lease \in {"none", "live", "lapsed"} /\ faults \in 0..MaxFaults
  BY <1>1 DEF TypeOK
<1>3. CASE ServerMoves
  BY <1>3, ArriveStep, RenumberStep, UpgradeStep, ChangeStep, ExpungeStep DEF ServerMoves
<1>4. CASE HostMoves
  BY <1>4, HostStep, PruneStep DEF HostMoves
<1>5. CASE LeaseLapses
  <2>1. faults' \in 0..MaxFaults
    BY <1>1, <1>5, FaultTyped DEF LeaseLapses
  <2> QED
    BY <1>5, <2>1, LeaseStep DEF LeaseLapses
<1>6. ASSUME NEW w \in Workers,
             \/ \E window \in Floors : Claim(w, window)
             \/ Fetch(w) \/ Commit(w) \/ StaleCommit(w) \/ Reclaim(w) \/ Finish(w)
             \/ Renew(w) \/ ProviderFails(w) \/ Dies(w)
      PROVE  FolderIndInv'
  <2>1. CASE \E window \in Floors : Claim(w, window)
    BY <2>1, ClaimStep
  <2>2. CASE Fetch(w)
    BY <2>2, SelectStep, GroupStep, ChangesStep, ArrivalsStep, FlagsStep, FreshStep, PageStep
       DEF Fetch
  <2>3. CASE Commit(w)
    BY <2>3, CommitStep
  <2>4. CASE Reclaim(w)
    BY <2>4, ReclaimStep
  <2>5. CASE Finish(w) \/ ProviderFails(w) \/ Dies(w) \/ StaleCommit(w)
    BY <2>5, EndingSteps
  <2>6. CASE Renew(w)
    BY <1>2, <2>6, LeaseStep DEF Renew
  <2> QED
    BY <1>6, <2>1, <2>2, <2>3, <2>4, <2>5, <2>6
<1>7. CASE UNCHANGED vars
  BY <1>2, <1>7, LeaseStep DEF vars
<1> QED
  BY <1>3, <1>4, <1>5, <1>6, <1>7 DEF Next

LEMMA FolderAlways ==
  Spec => []FolderIndInv
<1> QED
  BY FolderInit, FolderNext, PTL DEF Spec

\* What the cursor covers is kept and good.
LEMMA CoveredKept ==
  ASSUME FolderIndInv, NEW u \in Covered
  PROVE  /\ u \in Uids /\ rows[cursor.validity][u].ver \in Nat
         /\ rows[cursor.validity][u].ver > 0 /\ rows[cursor.validity][u].epoch = epoch
         /\ (speaks # "upgraded" /\ server.mail[u] <= cursor.modseq) =>
              rows[cursor.validity][u].ver = server.mail[u]
<1>1. TypeOK /\ CoveredGood(Now, cursor)
  BY DEF FolderIndInv, FolderInv
<1>2. /\ Now \in World /\ Now.server = server /\ Now.speaks = speaks /\ Now.cursor = cursor
      /\ Now.rows = rows /\ Now.epoch = epoch /\ Now.depth = depth
  BY <1>1, NowWorld
<1>3. /\ u \in Uids /\ server.mail[u] > 0 /\ cursor.validity = server.validity
      /\ cursor.low <= u /\ u < cursor.uidNext /\ Date[u] >= cursor.floor /\ Date[u] >= depth
  BY DEF Covered, OnServer
<1>4. Kept(Now, cursor, u)
  BY <1>2, <1>3 DEF Kept, Under, On
<1>5. Good(Now, u, cursor.modseq)
  BY <1>1, <1>3, <1>4 DEF CoveredGood
<1>6. Stored(Now, u) = rows[cursor.validity][u]
  BY <1>2, <1>3 DEF Stored
<1>7. Stored(Now, u).ver \in Nat
  BY <1>2, <1>3, WorldFields
<1> QED
  BY <1>2, <1>3, <1>5, <1>6, <1>7 DEF Good, Held, AsOf

\* Every state is well typed: in particular a pass whose commits are refused starts
\* over at most MaxReclaims times (MAX_STALE_RECLAIMS in sync_mailbox_scope).
THEOREM FolderTypes == Spec => []TypeOK
<1>1. FolderIndInv => TypeOK
  BY DEF FolderIndInv, FolderInv
<1> QED
  BY <1>1, FolderAlways, PTL

\* Whatever the folder's size, the batch and chunk sizes, the windows asked for and the
\* crashes, takeovers and prunes between two calls: a message the stored cursor says
\* is synced is stored (the resume contract of stream_email).
THEOREM NoMessageSkipped == Spec => []NothingSkipped
<1>1. FolderIndInv => NothingSkipped
  <2> SUFFICES ASSUME FolderIndInv, NEW u \in Covered PROVE rows[cursor.validity][u] # NoRow
    BY DEF NothingSkipped
  <2>1. rows[cursor.validity][u].ver \in Nat /\ rows[cursor.validity][u].ver > 0
    BY CoveredKept
  <2>2. NoRow.ver = 0
    BY DEF NoRow
  <2> QED
    BY <2>1, <2>2
<1> QED
  BY <1>1, FolderAlways, PTL

\* The stored cursor's mod-sequence never passes a change the store has not applied,
\* so a CHANGEDSINCE delta from it misses nothing (on a server that offers what it
\* always has).
THEOREM NoChangeMissed == Spec => []NothingStale
<1>1. FolderIndInv => NothingStale
  BY CoveredKept DEF NothingStale
<1> QED
  BY <1>1, FolderAlways, PTL

\* After clear_scope_cursor the cursor stands again only over messages read since: the
\* bumped fencing token keeps a pass begun before from committing its own back.
THEOREM ClearMeansRefetch == Spec => []ClearRefetches
<1>1. FolderIndInv => ClearRefetches
  BY CoveredKept DEF ClearRefetches
<1> QED
  BY <1>1, FolderAlways, PTL

-------------------------------------------------------------------------------
(* Nothing the server lost stays stored under a reconciled cursor *)

\* The server lost u no later than the mod-sequence m.
Lost(s, u, m) == s.server.gone[u] > 0 /\ s.server.gone[u] <= m

\* Nothing stored is a ghost of the cursor.
Tidy(s) ==
  (s.cursor.reconciled /\ s.cursor.validity = s.server.validity) =>
    \A v \in Validities, u \in Uids :
      s.rows[v][u] # NoRow => v = s.cursor.validity /\ ~Lost(s, u, s.cursor.modseq)

\* What a chunk writes was there after the SELECT, and a cursor that claims to be
\* reconciled comes with the tombstones or says what the stored one says already.
ChunkTidy(s, p, c) ==
  /\ p.sel.validity = s.server.validity =>
       \A u \in Uids : c.whole[u] > 0 => ~Lost(s, u, p.sel.modseq)
  /\ c.advance.reconciled =>
       \/ c.mode = "Reconcile"
       \/ /\ \A u \in Uids : c.whole[u] = 0
          /\ s.cursor.reconciled /\ s.cursor.validity = c.advance.validity
          /\ s.cursor.modseq = c.advance.modseq

PassTidy(s, p) ==
  /\ p.stage \notin {"changes", "arrivals"}
  /\ p.stage = "claimed" => p.present = {} /\ p.prior \in {NoCursor, s.cursor}
  /\ p.sel.validity > 0 => s.cursor.validity <= p.sel.validity
  /\ p.sel.validity = s.server.validity => \A u \in p.present : ~Lost(s, u, p.sel.modseq)
  /\ \A i \in 1..Len(p.chunks) : ChunkTidy(s, p, p.chunks[i])

\* The server has not offered QRESYNC.
Plainly(s) == s.speaks \in {"xym", "plain"}

TidyInv ==
  Plainly(Now) =>
    /\ Tidy(Now)
    /\ \A w \in Workers : (holder = w /\ Running(w)) => PassTidy(Now, pass[w])

\* What the server has it has not lost.
LEMMA OnIsNotLost ==
  ASSUME NEW s \in World, ServerSound(s), NEW u \in Uids, On(s, u), NEW m
  PROVE  ~Lost(s, u, m)
<1>1. s.server.mail[u] \in Nat
  BY WorldFields
<1> QED
  BY <1>1 DEF ServerSound, On, Gone, Lost

\* What was not lost by n was not lost by an earlier m.
LEMMA LostLater ==
  ASSUME NEW s \in World, NEW u \in Uids, NEW m \in Nat, NEW n \in Nat, m <= n, ~Lost(s, u, n)
  PROVE  ~Lost(s, u, m)
<1>1. s.server.gone[u] \in Nat
  BY WorldFields
<1> QED
  BY <1>1 DEF Lost

\* A step of one worker that leaves the server and the store alone.
LEMMA TidyStep ==
  ASSUME TypeOK, TidyInv, NEW w \in Workers, NEW q, pass' = [pass EXCEPT ![w] = q],
         UNCHANGED <<server, speaks, cursor, rows, epoch, depth>>, holder' \in {holder, w},
         (Plainly(Now) /\ holder' = w /\ q.stage \notin {"idle", "fenced"}) => PassTidy(Now, q)
  PROVE  TidyInv'
<1>1. Now' = Now
  BY DEF Now
<1>2. pass'[w] = q /\ \A x \in Workers : x # w => pass'[x] = pass[x]
  BY DEF TypeOK
<1>3. ASSUME Plainly(Now), NEW x \in Workers, holder' = x, pass'[x].stage \notin {"idle", "fenced"}
      PROVE  PassTidy(Now, pass'[x])
  <2>1. CASE x = w
    BY <1>2, <1>3, <2>1
  <2>2. CASE x # w
    <3>1. holder = x /\ pass'[x] = pass[x]
      BY <1>2, <1>3, <2>2
    <3> QED
      BY <1>3, <3>1 DEF TidyInv, Running
  <2> QED
    BY <2>1, <2>2
<1>4. Plainly(Now) => Tidy(Now)
  BY DEF TidyInv
<1>5. /\ Plainly(Now') => Tidy(Now')
      /\ Plainly(Now') =>
           \A x \in Workers : (holder' = x /\ pass'[x].stage \notin {"idle", "fenced"}) =>
             PassTidy(Now', pass'[x])
  BY <1>1, <1>3, <1>4
<1> QED
  BY <1>5 DEF TidyInv, Running

\* What the steps of a pass may rely on.
LEMMA TidyPass ==
  ASSUME FolderIndInv, TidyInv, Plainly(Now), NEW w \in Workers, holder = w, Running(w)
  PROVE  /\ PassTidy(Now, pass[w]) /\ PassSound(Now, pass[w]) /\ Tidy(Now)
         /\ ServerSound(Now) /\ CursorSound(Now, Now.cursor)
<1>1. TypeOK
  BY DEF FolderIndInv, FolderInv
<1> QED
  BY <1>1, HoldersPass, NowWorld DEF TidyInv, FolderIndInv, FolderInv

\* The steps that claim, end or give up a pass.
LEMMA TidyClaims ==
  ASSUME FolderIndInv, TidyInv, NEW w \in Workers,
         \/ \E window \in Floors : Claim(w, window)
         \/ Reclaim(w) \/ Finish(w) \/ ProviderFails(w) \/ Dies(w) \/ StaleCommit(w)
  PROVE  TidyInv'
<1>1. TypeOK /\ pass[w] \in Pass /\ Now.cursor = cursor
  BY HoldersPass, NowWorld
<1> DEFINE done == [Idle EXCEPT !.stage = "end"]
<1>2. done.stage = "end" /\ done.sel.validity = 0 /\ done.present = {} /\ done.chunks = <<>>
  BY DEF Idle, NotSelected
<1>3. PassTidy(Now, done)
  <2>1. Now \in World /\ Now.server.validity >= 1 /\ Now.server.validity \in Nat
    BY <1>1, NowWorld, WorldFields
  <2> HIDE DEF done
  <2> QED
    BY <1>2, <2>1 DEF PassTidy
<1>4. ASSUME NEW window \in Nat, NEW r \in 0..MaxReclaims
      PROVE  PassTidy(Now, Started(window, r))
  <2> DEFINE q == Started(window, r)
  <2>1. /\ q.stage = "claimed" /\ q.prior = Resume(cursor, window) /\ q.sel = NotSelected
        /\ q.chunks = <<>>
    BY <1>1, <1>4, StartedTyped
  <2>2. q.present = {}
    BY DEF Started, Idle
  <2>3. q.prior \in {NoCursor, Now.cursor}
    BY <1>1, <2>1 DEF Resume
  <2>4. q.sel.validity = 0
    BY <2>1 DEF NotSelected
  <2> HIDE DEF q
  <2>5. PassTidy(Now, q)
    <3>1. Now \in World /\ Now.server.validity >= 1 /\ Now.server.validity \in Nat
      BY <1>1, NowWorld, WorldFields
    <3> QED
      BY <2>1, <2>2, <2>3, <2>4, <3>1 DEF PassTidy
  <2> QED
    BY <2>5 DEF q
<1> HIDE DEF done
<1>5. CASE \E window \in Floors : Claim(w, window)
  <2>1. PICK window \in Floors : Claim(w, window)
    BY <1>5
  <2>2. window \in Nat /\ 0 \in 0..MaxReclaims
    <3>1. Floors \subseteq Nat /\ MaxReclaims \in Nat
      BY MailFolderAssumption
    <3> QED
      BY <3>1
  <2>3. PassTidy(Now, Started(window, 0))
    BY <1>4, <2>2
  <2>4. /\ pass' = [pass EXCEPT ![w] = Started(window, 0)] /\ holder' \in {holder, w}
        /\ UNCHANGED <<server, speaks, cursor, rows, epoch, depth>>
    BY <2>1 DEF Claim
  <2> QED
    BY <1>1, <2>3, <2>4, TidyStep
<1>6. CASE Reclaim(w)
  <2>1. /\ UNCHANGED <<server, speaks, cursor, rows, epoch, depth>> /\ holder' \in {holder, w}
    BY <1>6 DEF Reclaim
  <2>2. PassTidy(Now, Started(pass[w].window, pass[w].reclaims))
    BY <1>1, <1>4, PassFields
  <2>3. PICK q \in {Idle, done, Started(pass[w].window, pass[w].reclaims)} :
          pass' = [pass EXCEPT ![w] = q]
    BY <1>6 DEF Reclaim, done
  <2>4. q.stage \notin {"idle", "fenced"} => PassTidy(Now, q)
    BY <1>3, <2>2, <2>3, IdleTyped
  <2> QED
    BY <1>1, <2>1, <2>3, <2>4, TidyStep
<1>7. CASE Finish(w) \/ ProviderFails(w) \/ Dies(w) \/ StaleCommit(w)
  <2>1. /\ UNCHANGED <<server, speaks, cursor, rows, epoch, depth>> /\ holder' = holder
        /\ \E q \in {Idle, Fenced(pass[w])} : pass' = [pass EXCEPT ![w] = q]
    BY <1>7 DEF Finish, ProviderFails, Dies, StaleCommit
  <2>2. PICK q \in {Idle, Fenced(pass[w])} : pass' = [pass EXCEPT ![w] = q]
    BY <2>1
  <2>3. q.stage \in {"idle", "fenced"}
    <3>1. Fenced(pass[w]).stage \in {"idle", "fenced"}
      BY DEF Fenced, Idle
    <3> QED
      BY <2>2, <3>1, IdleTyped
  <2> QED
    BY <1>1, <2>1, <2>2, <2>3, TidyStep
<1> QED
  BY <1>5, <1>6, <1>7

-------------------------------------------------------------------------------

\* A fetch reads what the server has, and only a reconciling chunk at its end may say
\* it has reconciled.
LEMMA FetchedTidy ==
  ASSUME NEW s \in World, NEW p \in Pass, NEW q, ServerSound(s), PassTidy(s, p), q.sel = p.sel,
         q.stage \in {"backfill", "fresh", "page", "end"},
         \A u \in q.present : u \in p.present \/ On(s, u), q.present \subseteq Uids,
         NEW whole, NEW patched, NEW removed, NEW k, NEW m,
         Carries(q.chunks, whole, patched, removed, k, m),
         \A u \in Uids : whole[u] \in {0, s.server.mail[u]},
         k.reconciled => m = "Reconcile"
  PROVE  PassTidy(s, q)
<1>1. \A u \in Uids : On(s, u) => ~Lost(s, u, p.sel.modseq)
  BY OnIsNotLost
<1>2. /\ q.stage \notin {"changes", "arrivals"} /\ q.stage # "claimed"
      /\ q.sel.validity > 0 => s.cursor.validity <= q.sel.validity
  BY DEF PassTidy
<1>3. q.sel.validity = s.server.validity => \A u \in q.present : ~Lost(s, u, q.sel.modseq)
  BY <1>1 DEF PassTidy
<1>4. ASSUME NEW i \in 1..Len(q.chunks) PROVE ChunkTidy(s, q, q.chunks[i])
  <2> DEFINE c == q.chunks[i]
  <2>1. /\ \A u \in Uids : c.whole[u] \in {0, whole[u]}
        /\ c.advance # NoCursor => c.advance = k /\ c.mode = m
    BY <1>4 DEF Carries
  <2> HIDE DEF c
  <2>2. \A u \in Uids : c.whole[u] > 0 => On(s, u)
    BY <2>1 DEF On
  <2>3. c.advance.reconciled => c.mode = "Reconcile"
    <3>1. CASE c.advance = NoCursor
      BY <3>1 DEF NoCursor
    <3>2. CASE c.advance # NoCursor
      BY <2>1, <3>2
    <3> QED
      BY <3>1, <3>2
  <2>4. ChunkTidy(s, q, c)
    BY <1>1, <2>2, <2>3 DEF ChunkTidy
  <2> QED
    BY <2>4 DEF c
<1> QED
  BY <1>2, <1>3, <1>4 DEF PassTidy

LEMMA TidyFlags ==
  ASSUME FolderIndInv, TidyInv, NEW w \in Workers, FetchFlags(w)
  PROVE  TidyInv'
<1> DEFINE p == pass[w]
           held == {u \in OnServer \cap InWindow(p.window) : u < p.prior.uidNext}
           q == [p EXCEPT !.stage = "fresh", !.patched = Read(held), !.present = held]
<1>1. Asks(w, "flags") /\ pass' = [pass EXCEPT ![w] = q]
  BY DEF FetchFlags
<1>2. TypeOK /\ p \in Pass /\ Now \in World
  BY HoldersPass
<1>3. \A u \in held : u \in Uids /\ On(Now, u)
  BY <1>1, AsksFacts
<1> HIDE DEF held
<1>4. q.stage = "fresh" /\ q.present = held /\ q.chunks = p.chunks /\ q.sel = p.sel
  BY <1>2 DEF Pass
<1>5. ASSUME Plainly(Now), holder' = w PROVE PassTidy(Now, q)
  <2>1. PassTidy(Now, p) /\ ServerSound(Now) /\ p.chunks = <<>>
    BY <1>1, <1>5, AsksFacts, TidyPass DEF Running
  <2>2. PICK none, m : none = {} /\ m = "Reconcile"
    OBVIOUS
  <2>3. Carries(q.chunks, Nothing, Nothing, none, NoCursor, m)
    BY <1>4, <2>1, <2>2, NothingCarried
  <2>4. \A u \in Uids : Nothing[u] \in {0, Now.server.mail[u]}
    BY Constants
  <2>5. /\ q.stage \in {"backfill", "fresh", "page", "end"} /\ q.present \subseteq Uids
        /\ \A u \in q.present : u \in p.present \/ On(Now, u)
    BY <1>3, <1>4
  <2> HIDE DEF p, q, Nothing
  <2> QED
    BY <1>2, <1>4, <2>1, <2>2, <2>3, <2>4, <2>5, FetchedTidy
<1> HIDE DEF q
<1> QED
  BY <1>1, <1>2, <1>5, AsksFacts, TidyStep

LEMMA TidyFresh ==
  ASSUME FolderIndInv, TidyInv, NEW w \in Workers, FetchFresh(w)
  PROVE  TidyInv'
<1> DEFINE p == pass[w]
           arrivals == {u \in OnServer \cap InWindow(p.window) :
                          u >= p.prior.uidNext /\ u < p.sel.uidNext}
           whole == Read(arrivals)
           none == {}
           last == ReconcileLast(Nothing, NextCursor(p, p.sel))
           cs == Append(SplitPage("Reconcile", whole, p.patched, none), last)
           q == [p EXCEPT !.stage = "end", !.patched = Nothing,
                          !.present = @ \cup arrivals, !.chunks = cs]
<1>1. Asks(w, "fresh") /\ pass' = [pass EXCEPT ![w] = q]
  BY DEF FetchFresh
<1>2. TypeOK /\ p \in Pass /\ Now \in World
  BY HoldersPass
<1>3. p.patched \in Versions /\ p.present \in SUBSET Uids /\ NextCursor(p, p.sel) \in Cursor
  BY <1>2, PassFields, NextTyped
<1>4. \A u \in arrivals : u \in Uids /\ On(Now, u)
  BY <1>1, AsksFacts
<1> HIDE DEF arrivals
<1>5. whole \in Versions /\ \A u \in Uids : whole[u] \in {0, Now.server.mail[u]}
  BY <1>2, ReadFacts
<1> HIDE DEF whole
<1>6. /\ last \in Chunk /\ last.whole = Nothing /\ last.patched = Nothing /\ last.removed = {}
      /\ last.mode = "Reconcile"
  BY <1>3, LastChunks
<1> HIDE DEF last
<1>7. none \in SUBSET Uids
  OBVIOUS
<1> HIDE DEF none
<1>8. Carries(SplitPage("Reconcile", whole, p.patched, none), whole, p.patched, none,
              NoCursor, "Reconcile")
  BY <1>3, <1>5, <1>7, SplitCarries
<1>9. Carries(cs, whole, p.patched, none, last.advance, last.mode)
  BY <1>3, <1>5, <1>6, <1>8, AppendCarries
<1> HIDE DEF cs
<1>10. q.stage = "end" /\ q.chunks = cs /\ q.present = p.present \cup arrivals /\ q.sel = p.sel
  BY <1>2 DEF Pass
<1>11. ASSUME Plainly(Now), holder' = w PROVE PassTidy(Now, q)
  <2>1. PassTidy(Now, p) /\ ServerSound(Now)
    BY <1>1, <1>11, AsksFacts, TidyPass DEF Running
  <2>2. \A u \in q.present : u \in p.present \/ On(Now, u)
    BY <1>4, <1>10
  <2>3. q.present \subseteq Uids /\ q.stage \in {"backfill", "fresh", "page", "end"}
    BY <1>3, <1>4, <1>10
  <2>4. PICK k, m : m = "Reconcile" /\ Carries(q.chunks, whole, p.patched, none, k, m)
    BY <1>6, <1>9, <1>10
  <2>5. PICK patched : Carries(q.chunks, whole, patched, none, k, m)
    BY <2>4
  <2> HIDE DEF p, q
  <2> QED
    BY <1>2, <1>5, <1>10, <2>1, <2>2, <2>3, <2>4, <2>5, FetchedTidy
<1> HIDE DEF q
<1> QED
  BY <1>1, <1>2, <1>11, AsksFacts, TidyStep

LEMMA TidyGroup ==
  ASSUME FolderIndInv, TidyInv, NEW w \in Workers, FetchGroup(w)
  PROVE  TidyInv'
<1> DEFINE p == pass[w]
           group == Head(p.todo)
           front == Frontier(p, p.sel)
           checkpoint == [front EXCEPT !.low = Min(group), !.reconciled = FALSE]
           last == Len(p.todo) = 1
           ending == IF ~last THEN Additive(Nothing, checkpoint)
                     ELSE IF Fresh(p) THEN ReconcileLast(Nothing, front)
                     ELSE Additive(Nothing, front)
           present == IF Fresh(p) THEN p.present \cup (group \cap OnServer) ELSE p.present
           whole == Read(group)
           cs == GroupChunks(whole, ending)
           q == [p EXCEPT !.stage = IF last THEN "end" ELSE @, !.todo = Tail(@),
                          !.present = present, !.chunks = cs]
<1>1. Asks(w, "backfill") /\ pass' = [pass EXCEPT ![w] = q]
  BY DEF FetchGroup
<1>2. TypeOK /\ p \in Pass /\ Now \in World
  BY HoldersPass
<1>3. p.todo # <<>> /\ Descending(p.todo) /\ p.stage = "backfill"
  BY <1>1, AsksFacts DEF FolderIndInv, TodoSound
<1>4. group \in SUBSET Uids /\ group # {}
  BY <1>2, <1>3, TailTodo
<1>5. /\ front \in Cursor /\ (front.reconciled => Fresh(p))
      /\ checkpoint \in Cursor /\ ~checkpoint.reconciled
  <2>1. front \in Cursor /\ (front.reconciled => Fresh(p))
    BY <1>2, FrontierTyped
  <2>2. Min(group) \in Nat
    BY <1>4, MinFacts, UidFields
  <2> HIDE DEF front
  <2> QED
    BY <2>1, <2>2 DEF Cursor
<1>6. whole \in Versions /\ \A u \in Uids : whole[u] \in {0, Now.server.mail[u]}
  BY <1>2, ReadFacts
<1> HIDE DEF whole
<1>7. present \subseteq Uids /\ \A u \in present : u \in p.present \/ On(Now, u)
  <2>1. \A u \in group \cap OnServer : u \in Uids /\ On(Now, u)
    BY <1>1, <1>4, AsksFacts
  <2>2. p.present \in SUBSET Uids
    BY <1>2, PassFields
  <2> QED
    BY <2>1, <2>2
<1> HIDE DEF present
<1>8. /\ ending \in Chunk /\ ending.patched = Nothing /\ ending.removed = {}
      /\ ending.advance.reconciled => ending.mode = "Reconcile"
  <2> HIDE DEF front, checkpoint
  <2>1. CASE ~last
    BY <1>5, <2>1, LastChunks
  <2>2. CASE last /\ Fresh(p)
    BY <1>5, <2>2, LastChunks
  <2>3. CASE last /\ ~Fresh(p)
    BY <1>5, <2>3, LastChunks
  <2> QED
    BY <2>1, <2>2, <2>3
<1> HIDE DEF ending
<1>9. Carries(cs, whole, Nothing, {}, ending.advance, ending.mode)
  BY <1>6, <1>8, GroupCarries
<1> HIDE DEF cs
<1>10. /\ q.stage \in {"end", "backfill"} /\ q.present = present /\ q.chunks = cs /\ q.sel = p.sel
  BY <1>2, <1>3 DEF Pass
<1>11. ASSUME Plainly(Now), holder' = w PROVE PassTidy(Now, q)
  <2>1. PassTidy(Now, p) /\ ServerSound(Now)
    BY <1>1, <1>11, AsksFacts, TidyPass DEF Running
  <2>2. \A u \in q.present : u \in p.present \/ On(Now, u)
    BY <1>7, <1>10
  <2>3. PICK none : none = {}
    OBVIOUS
  <2>4. PICK k, m : /\ k.reconciled => m = "Reconcile"
                    /\ Carries(q.chunks, whole, Nothing, none, k, m)
    BY <1>8, <1>9, <1>10, <2>3
  <2>5. q.present \subseteq Uids /\ q.stage \in {"backfill", "fresh", "page", "end"}
    BY <1>7, <1>10
  <2> HIDE DEF p, q
  <2> QED
    BY <1>2, <1>6, <1>10, <2>1, <2>2, <2>4, <2>5, FetchedTidy
<1> HIDE DEF q
<1> QED
  BY <1>1, <1>2, <1>11, AsksFacts, TidyStep

LEMMA TidyPage ==
  ASSUME FolderIndInv, TidyInv, NEW w \in Workers, FetchPage(w)
  PROVE  TidyInv'
<1> DEFINE p == pass[w]
           left == PageLeft(p)
           kept == IF left = {} THEN {} ELSE Groups(left)[1]
           last == kept = left
           whole == Read(kept)
           none == {}
           page == SplitPage("Reconcile", whole, Nothing, none)
           ending == ReconcileLast(Nothing, NextCursor(p, p.sel))
           below == IF last THEN 0 ELSE Min(kept)
           cs == IF last THEN Append(page, ending) ELSE page
           q == [p EXCEPT !.stage = IF last THEN "end" ELSE @, !.below = below,
                          !.present = @ \cup kept, !.chunks = cs]
<1>1. Asks(w, "page") /\ pass' = [pass EXCEPT ![w] = q]
  BY DEF FetchPage
<1>2. TypeOK /\ p \in Pass /\ Now \in World /\ p.stage = "page"
  BY <1>1, HoldersPass, AsksFacts
<1>3. \A u \in left : u \in Uids /\ On(Now, u)
  BY <1>1, AsksFacts DEF PageLeft
<1> HIDE DEF left
<1>4. kept \subseteq left
  <2>1. left \in SUBSET Uids
    BY <1>3
  <2>2. CASE left = {}
    BY <2>2
  <2>3. CASE left # {}
    BY <2>1, <2>3, FirstBatch
  <2> QED
    BY <2>2, <2>3
<1> HIDE DEF kept, below
<1>5. whole \in Versions /\ \A u \in Uids : whole[u] \in {0, Now.server.mail[u]}
  BY <1>2, ReadFacts
<1> HIDE DEF whole
<1>6. /\ ending \in Chunk /\ ending.whole = Nothing /\ ending.patched = Nothing
      /\ ending.removed = {} /\ ending.mode = "Reconcile"
  BY <1>2, NextTyped, LastChunks
<1> HIDE DEF ending
<1>7. none \in SUBSET Uids /\ Nothing \in Versions
  BY Constants
<1> HIDE DEF none
<1>8. Carries(page, whole, Nothing, none, NoCursor, "Reconcile")
  BY <1>5, <1>7, SplitCarries
<1> HIDE DEF page
<1>9. Carries(Append(page, ending), whole, Nothing, none, ending.advance, "Reconcile")
  BY <1>5, <1>6, <1>7, <1>8, AppendCarries
<1>10. PICK k : Carries(cs, whole, Nothing, none, k, "Reconcile")
  BY <1>8, <1>9
<1> HIDE DEF cs
<1>11. /\ q.stage \in {"backfill", "fresh", "page", "end"} /\ q.present = p.present \cup kept
       /\ q.chunks = cs /\ q.sel = p.sel
  BY <1>2 DEF Pass
<1>12. ASSUME Plainly(Now), holder' = w PROVE PassTidy(Now, q)
  <2>1. PassTidy(Now, p) /\ ServerSound(Now)
    BY <1>1, <1>12, AsksFacts, TidyPass DEF Running
  <2>2. \A u \in q.present : u \in p.present \/ On(Now, u)
    BY <1>3, <1>4, <1>11
  <2>3. q.present \subseteq Uids
    BY <1>2, <1>3, <1>4, <1>11, PassFields
  <2> HIDE DEF p, q
  <2> QED
    BY <1>2, <1>5, <1>10, <1>11, <2>1, <2>2, <2>3, FetchedTidy
<1> HIDE DEF q
<1> QED
  BY <1>1, <1>2, <1>12, AsksFacts, TidyStep

\* The fetches of a QRESYNC delta are not among those of a server without it.
LEMMA TidyDelta ==
  ASSUME FolderIndInv, TidyInv, NEW w \in Workers, FetchChanges(w) \/ FetchArrivals(w)
  PROVE  TidyInv'
<1>1. TypeOK /\ pass[w] \in Pass
  BY HoldersPass
<1>2. Asks(w, "changes") \/ Asks(w, "arrivals")
  BY DEF FetchChanges, FetchArrivals
<1>3. /\ pass[w].stage \in {"changes", "arrivals"} /\ holder' = holder
      /\ UNCHANGED <<server, speaks, cursor, rows, epoch, depth>>
  BY <1>2, AsksFacts
<1>4. PICK q : pass' = [pass EXCEPT ![w] = q]
  BY DEF FetchChanges, FetchArrivals
<1>5. ~(Plainly(Now) /\ holder' = w)
  BY <1>3, TidyPass DEF Running, PassTidy
<1> QED
  BY <1>1, <1>3, <1>4, <1>5, TidyStep

-------------------------------------------------------------------------------

\* SELECT of a session without QRESYNC: a pass that skips an unchanged folder says
\* again what the stored cursor says.
LEMMA TidySelect ==
  ASSUME FolderIndInv, TidyInv, NEW w \in Workers, Select(w)
  PROVE  TidyInv'
<1> DEFINE p == pass[w]
           sel == SelectData
           groups == Groups(BackfillUids(p, sel))
           front == Frontier(p, sel)
           empty == IF Fresh(p) THEN ReconcileLast(Nothing, front) ELSE Additive(Nothing, front)
           next == NextCursor(p, sel)
           skip == Additive(Nothing, next)
           below == IF p.window = 0 THEN sel.uidNext ELSE MaxUid + 1
           to(stage) == [p EXCEPT !.stage = stage, !.sel = sel]
           ends(chunk) == [to("end") EXCEPT !.chunks = <<chunk>>]
           q == IF IsBackfill(p, sel)
                  THEN IF groups # <<>> THEN [to("backfill") EXCEPT !.todo = groups]
                       ELSE ends(empty)
                ELSE IF ~IsDelta(p, sel) THEN [to("page") EXCEPT !.below = below]
                ELSE IF sel.dialect = "qresync" THEN to("changes")
                ELSE IF Unchanged(p, sel) THEN ends(skip)
                ELSE to("flags")
<1>1. Asks(w, "claimed") /\ pass' = [pass EXCEPT ![w] = q]
  BY DEF Select
<1>2. TypeOK /\ p \in Pass /\ Now \in World /\ p.stage = "claimed" /\ p.chunks = <<>>
  BY <1>1, HoldersPass, AsksFacts
<1>3. /\ sel \in Selected /\ sel.validity = Now.server.validity
      /\ sel.dialect = IF Now.speaks = "upgraded" THEN "qresync" ELSE Now.speaks
  BY <1>2, SelectDataFacts, NowWorld DEF SelectedNow, SelectData
<1>4. front \in Cursor /\ next \in Cursor /\ (front.reconciled => Fresh(p))
  <2>1. p.prior \in Cursor /\ p.window \in Nat
    BY <1>2, PassFields
  <2>2. sel.validity \in Nat /\ sel.uidNext \in Nat /\ sel.modseq \in Nat
    BY <1>3 DEF Selected
  <2>3. p.prior.uidNext \in Nat /\ p.prior.modseq \in Nat
    BY <2>1, CursorFields
  <2> HIDE DEF p, sel
  <2>4. front \in Cursor /\ (front.reconciled => Fresh(p))
    BY <2>1, <2>2, <2>3 DEF Frontier, Cursor, Fresh
  <2>5. next \in Cursor
    BY <2>1, <2>2 DEF NextCursor, Cursor
  <2> QED
    BY <2>4, <2>5
<1>5. next.validity = sel.validity /\ next.modseq = sel.modseq
  BY DEF NextCursor
<1> HIDE DEF sel, groups, front, next, below
<1>6. empty.whole = Nothing /\ (empty.advance.reconciled => empty.mode = "Reconcile")
  <2>1. CASE Fresh(p)
    BY <1>4, <2>1, LastChunks
  <2>2. CASE ~Fresh(p)
    BY <1>4, <2>2, LastChunks
  <2> QED
    BY <2>1, <2>2
<1>7. skip.whole = Nothing /\ skip.advance = next
  BY <1>4, LastChunks
<1> HIDE DEF empty, skip
<1>8. /\ q.sel = sel /\ q.present = p.present
      /\ q.stage \in {"backfill", "end", "page", "changes", "flags"}
      /\ q.stage = "changes" => sel.dialect = "qresync"
      /\ \/ q.chunks = <<>> \/ q.chunks = <<empty>>
         \/ q.chunks = <<skip>> /\ IsDelta(p, sel) /\ Unchanged(p, sel)
  BY <1>2 DEF Pass
<1> HIDE DEF q
<1>9. ASSUME Plainly(Now), holder' = w PROVE PassTidy(Now, q)
  <2>1. PassTidy(Now, p) /\ ServerSound(Now) /\ CursorSound(Now, Now.cursor)
    BY <1>1, <1>2, <1>9, AsksFacts, TidyPass DEF Running
  <2>2. p.present = {} /\ p.prior \in {NoCursor, Now.cursor}
    BY <1>2, <2>1 DEF PassTidy
  <2>3. q.stage \notin {"changes", "arrivals", "claimed"}
    BY <1>3, <1>8, <1>9 DEF Plainly
  <2>4. Now.cursor.validity <= q.sel.validity
    BY <1>3, <1>8, <2>1 DEF CursorSound, Past
  <2>5. ChunkTidy(Now, q, empty)
    <3>1. \A u \in Uids : ~(empty.whole[u] > 0)
      BY <1>6, Constants
    <3> QED
      BY <1>6, <3>1 DEF ChunkTidy
  <2>6. (IsDelta(p, sel) /\ Unchanged(p, sel)) => ChunkTidy(Now, q, skip)
    <3>1. SUFFICES ASSUME IsDelta(p, sel), Unchanged(p, sel) PROVE ChunkTidy(Now, q, skip)
      OBVIOUS
    <3>2. p.prior.reconciled /\ p.prior.modseq = sel.modseq /\ p.prior.validity = sel.validity
      BY <3>1 DEF IsDelta, Unchanged
    <3>3. p.prior # NoCursor
      BY <3>2 DEF NoCursor
    <3>4. /\ Now.cursor.reconciled /\ Now.cursor.validity = skip.advance.validity
          /\ Now.cursor.modseq = skip.advance.modseq
      BY <1>5, <1>7, <2>2, <3>2, <3>3
    <3>5. \A u \in Uids : skip.whole[u] = 0
      BY <1>7, Constants
    <3> QED
      BY <3>4, <3>5 DEF ChunkTidy
  <2>7. \A i \in 1..Len(q.chunks) : ChunkTidy(Now, q, q.chunks[i])
    <3>1. CASE q.chunks = <<>>
      BY <3>1
    <3>2. CASE q.chunks = <<empty>>
      BY <2>5, <3>2
    <3>3. CASE q.chunks = <<skip>> /\ IsDelta(p, sel) /\ Unchanged(p, sel)
      BY <2>6, <3>3
    <3> QED
      BY <1>8, <3>1, <3>2, <3>3
  <2> QED
    BY <1>8, <2>2, <2>3, <2>4, <2>7 DEF PassTidy
<1> QED
  BY <1>1, <1>2, <1>9, AsksFacts, TidyStep

-------------------------------------------------------------------------------

\* A row that is there after a commit was there before or is one the chunk writes; the
\* tombstones leave only what the pass has seen.
LEMMA RowsLeft ==
  ASSUME TypeOK, NEW p \in Pass, NEW c \in Chunk, NEW v \in Validities, NEW u \in Uids,
         Apply(p, c)[v][u] # NoRow
  PROVE  /\ Tombstones(c) => (v = p.sel.validity /\ u \in p.present)
         /\ rows[v][u] # NoRow \/ (v = p.sel.validity /\ c.whole[u] > 0)
<1>1. CASE v = p.sel.validity
  <2>1. Apply(p, c)[v][u] = Put(p, c, epoch, rows[v][u], u)
    BY <1>1, ApplyRows
  <2> QED
    BY <1>1, <2>1 DEF Put
<1>2. CASE v # p.sel.validity /\ Tombstones(c)
  <2>1. Apply(p, c)[v][u] = NoRow
    BY <1>2 DEF Apply, Tombstones
  <2> QED
    BY <2>1
<1>3. CASE v # p.sel.validity /\ ~Tombstones(c)
  BY <1>3, ApplyRows
<1> QED
  BY <1>1, <1>2, <1>3

\* What a chunk leaves in the store is no ghost of the cursor it leaves.
LEMMA AppliedTidy ==
  ASSUME NEW s \in World, NEW t \in World, NEW p \in Pass, NEW c \in Chunk,
         Plainly(s), Tidy(s), PassTidy(s, p), BaseSound(s, p),
         CursorSound(s, s.cursor), ChunkSound(s, p, c), ChunkTidy(s, p, c),
         t.server = s.server,
         t.cursor = IF c.advance = NoCursor THEN s.cursor ELSE c.advance,
         \A v \in Validities, u \in Uids : t.rows[v][u] # NoRow =>
           /\ Tombstones(c) => (v = p.sel.validity /\ u \in p.present)
           /\ s.rows[v][u] # NoRow \/ (v = p.sel.validity /\ c.whole[u] > 0)
  PROVE  Tidy(t)
<1> SUFFICES ASSUME t.cursor.reconciled, t.cursor.validity = t.server.validity,
                    NEW v \in Validities, NEW u \in Uids, t.rows[v][u] # NoRow
             PROVE  v = t.cursor.validity /\ ~Lost(s, u, t.cursor.modseq)
  BY DEF Tidy, Lost
<1>1. /\ p.sel.validity \in Nat /\ p.sel.modseq \in Nat /\ s.server.validity \in Nat
      /\ s.cursor \in Cursor /\ c.advance \in Cursor
  BY PassFields, WorldFields DEF Chunk
<1>2. /\ s.cursor.validity \in Nat /\ s.cursor.modseq \in Nat
      /\ c.advance.validity \in Nat /\ c.advance.modseq \in Nat
  BY <1>1, CursorFields
<1>3. s.speaks # "upgraded" /\ p.sel.validity > 0
  BY DEF Plainly, ChunkSound
<1>4. CASE c.advance = NoCursor
  <2>1. t.cursor = s.cursor /\ s.cursor.reconciled /\ s.cursor.validity = s.server.validity
    BY <1>4
  <2>2. p.sel.validity <= s.server.validity /\ s.cursor.validity <= p.sel.validity
    BY <1>3 DEF PassTidy, BaseSound, Past
  <2>3. p.sel.validity = s.server.validity
    BY <1>1, <1>2, <2>1, <2>2
  <2>4. CASE s.rows[v][u] # NoRow
    BY <2>1, <2>4 DEF Tidy
  <2>5. CASE v = p.sel.validity /\ c.whole[u] > 0
    <3>1. ~Lost(s, u, p.sel.modseq)
      BY <2>3, <2>5 DEF ChunkTidy
    <3>2. s.cursor.modseq <= p.sel.modseq
      BY <1>3 DEF BaseSound
    <3>3. ~Lost(s, u, s.cursor.modseq)
      BY <1>1, <1>2, <3>1, <3>2, LostLater
    <3> QED
      BY <2>1, <2>3, <2>5, <3>3
  <2> QED
    BY <2>4, <2>5
<1>5. CASE c.advance # NoCursor /\ c.mode = "Reconcile"
  <2>1. t.cursor = c.advance /\ v = p.sel.validity /\ u \in p.present
    BY <1>5 DEF Tombstones
  <2>2. c.advance.validity = p.sel.validity /\ c.advance.modseq <= p.sel.modseq
    BY <1>3, <1>5 DEF ChunkSound, AdvanceSound
  <2>3. ~Lost(s, u, p.sel.modseq)
    BY <2>1, <2>2 DEF PassTidy
  <2>4. ~Lost(s, u, c.advance.modseq)
    BY <1>1, <1>2, <2>2, <2>3, LostLater
  <2> QED
    BY <2>1, <2>2, <2>4
<1>6. CASE c.advance # NoCursor /\ c.mode # "Reconcile"
  <2>1. t.cursor = c.advance
    BY <1>6
  <2>2. /\ c.whole[u] = 0
        /\ s.cursor.reconciled /\ s.cursor.validity = c.advance.validity
        /\ s.cursor.modseq = c.advance.modseq
    BY <1>6, <2>1 DEF ChunkTidy
  <2>3. s.rows[v][u] # NoRow
    BY <2>2
  <2> QED
    BY <2>1, <2>2, <2>3 DEF Tidy
<1> QED
  BY <1>4, <1>5, <1>6

LEMMA CommittedTidy ==
  ASSUME NEW s \in World, NEW t \in World, NEW p \in Pass, NEW q \in Pass,
         PassTidy(s, p), PassSound(s, p), p.chunks # <<>>, Committed(p, q),
         t.server = s.server,
         t.cursor = IF Head(p.chunks).advance = NoCursor THEN s.cursor ELSE Head(p.chunks).advance
  PROVE  PassTidy(t, q)
<1> DEFINE c == Head(p.chunks)
<1>1. /\ c = p.chunks[1] /\ 1 \in 1..Len(p.chunks) /\ Len(p.chunks) \in Nat
      /\ Len(Tail(p.chunks)) = Len(p.chunks) - 1
      /\ \A i \in 1..Len(Tail(p.chunks)) :
           i + 1 \in 1..Len(p.chunks) /\ Tail(p.chunks)[i] = p.chunks[i + 1]
  BY TailChunks
<1>2. ChunkSound(s, p, c) /\ (1 < Len(p.chunks) => c.advance = NoCursor)
  BY <1>1 DEF PassSound, ChunksSound
<1>3. t.cursor = IF c.advance = NoCursor THEN s.cursor ELSE c.advance
  OBVIOUS
<1> HIDE DEF c
<1>4. p.stage # "claimed" /\ p.stage \notin {"changes", "arrivals"}
  BY DEF PassSound, StageSound, PassTidy
<1>5. p.sel.validity > 0 => t.cursor.validity <= p.sel.validity
  <2>1. CASE c.advance = NoCursor
    BY <1>3, <2>1 DEF PassTidy
  <2>2. CASE c.advance # NoCursor
    <3>1. c.advance.validity = p.sel.validity /\ p.sel.validity \in Nat
      BY <1>2, <2>2, PassFields DEF ChunkSound, AdvanceSound
    <3> QED
      BY <1>3, <2>2, <3>1
  <2> QED
    BY <2>1, <2>2
<1>6. p.sel.validity = t.server.validity => \A u \in p.present : ~Lost(t, u, p.sel.modseq)
  BY DEF PassTidy, Lost
<1>7. ASSUME NEW i \in 1..Len(Tail(p.chunks)) PROVE ChunkTidy(t, q, Tail(p.chunks)[i])
  <2>1. i + 1 \in 1..Len(p.chunks) /\ Tail(p.chunks)[i] = p.chunks[i + 1] /\ 1 < Len(p.chunks)
    BY <1>1, <1>7
  <2>2. ChunkTidy(s, p, p.chunks[i + 1]) /\ t.cursor = s.cursor
    BY <1>2, <1>3, <2>1 DEF PassTidy
  <2> QED
    BY <2>1, <2>2 DEF ChunkTidy, Committed, Lost
<1> QED
  BY <1>4, <1>5, <1>6, <1>7 DEF PassTidy, Committed

LEMMA TidyCommit ==
  ASSUME FolderIndInv, TidyInv, FolderIndInv', NEW w \in Workers, Commit(w)
  PROVE  TidyInv'
<1> DEFINE p == pass[w]
           c == Head(p.chunks)
           q == pass'[w]
<1>1. /\ Running(w) /\ p.chunks # <<>> /\ holder = w
      /\ rows' = Apply(p, c)
      /\ cursor' = IF c.advance = NoCursor THEN cursor ELSE c.advance
      /\ UNCHANGED <<server, speaks, holder>>
  BY DEF Commit
<1>2. TypeOK /\ p \in Pass /\ Now \in World /\ TypeOK' /\ q \in Pass
  BY HoldersPass DEF FolderIndInv, FolderInv, TypeOK
<1>3. Committed(p, q) /\ \A x \in Workers : x # w => pass'[x] = pass[x]
  BY <1>2 DEF Commit, Committed, TypeOK, Pass
<1>4. /\ Now' \in World /\ Now'.server = server /\ Now'.speaks = speaks
      /\ Now'.cursor = cursor' /\ Now'.rows = Apply(p, c)
      /\ Now.server = server /\ Now.speaks = speaks /\ Now.cursor = cursor /\ Now.rows = rows
  BY <1>1, <1>2, NowWorld, NowWorldNext
<1>5. c \in Chunk /\ c = p.chunks[1] /\ 1 \in 1..Len(p.chunks)
  BY <1>1, <1>2, TailChunks
<1>6. ASSUME Plainly(Now) PROVE Tidy(Now') /\ PassTidy(Now', q)
  <2>1. /\ PassTidy(Now, p) /\ PassSound(Now, p) /\ Tidy(Now) /\ CursorSound(Now, Now.cursor)
    BY <1>1, <1>6, TidyPass
  <2> PICK t \in World : t = Now'
    BY <1>4
  <2>2. /\ t.server = Now.server
        /\ t.cursor = IF c.advance = NoCursor THEN Now.cursor ELSE c.advance
    BY <1>1, <1>4
  <2>3. \A v \in Validities, u \in Uids : t.rows[v][u] # NoRow =>
           /\ Tombstones(c) => (v = p.sel.validity /\ u \in p.present)
           /\ Now.rows[v][u] # NoRow \/ (v = p.sel.validity /\ c.whole[u] > 0)
    <3> HIDE DEF p, c
    <3> QED
      BY <1>2, <1>4, <1>5, RowsLeft
  <2>4. BaseSound(Now, p) /\ ChunkSound(Now, p, c) /\ ChunkTidy(Now, p, c)
    BY <1>5, <2>1 DEF PassSound, ChunksSound, PassTidy
  <2>5. PassTidy(t, q)
    <3> HIDE DEF p, q
    <3> QED
      BY <1>1, <1>2, <1>3, <2>1, <2>2, CommittedTidy
  <2>6. Tidy(t)
    <3> HIDE DEF p, c
    <3> QED
      BY <1>2, <1>5, <1>6, <2>1, <2>2, <2>3, <2>4, AppliedTidy
  <2> QED
    BY <2>5, <2>6
<1>7. Plainly(Now') => Plainly(Now)
  BY <1>4 DEF Plainly
<1>8. \A x \in Workers : holder' = x => x = w
  BY <1>1
<1> QED
  BY <1>6, <1>7, <1>8 DEF TidyInv

-------------------------------------------------------------------------------

\* The server loses a message later than any cursor or SELECT so far, or hands out a
\* new UID space, which none of them speaks of.
LosesLater(s, t) ==
  /\ t.cursor = s.cursor /\ t.rows = s.rows
  /\ \/ s.server.validity < t.server.validity
     \/ /\ t.server.validity = s.server.validity
        /\ \A u \in Uids : t.server.gone[u] = s.server.gone[u]
                           \/ t.server.gone[u] > s.server.modseq

LEMMA LostSame ==
  ASSUME NEW s \in World, NEW t \in World, LosesLater(s, t), s.server.validity = t.server.validity,
         NEW u \in Uids, NEW m \in Nat, m <= s.server.modseq, ~Lost(s, u, m)
  PROVE  ~Lost(t, u, m)
<1>1. s.server.modseq \in Nat /\ t.server.gone[u] \in Nat /\ s.server.validity \in Nat
  BY WorldFields
<1> QED
  BY <1>1 DEF LosesLater, Lost

LEMMA ServerTidy ==
  ASSUME NEW s \in World, NEW t \in World, LosesLater(s, t), CursorSound(s, s.cursor), Tidy(s)
  PROVE  Tidy(t)
<1>1. s.cursor \in Cursor /\ s.server.validity \in Nat /\ t.server.validity \in Nat
  BY WorldFields
<1>2. s.cursor.validity \in Nat /\ s.cursor.modseq \in Nat
  BY <1>1, CursorFields
<1>3. s.cursor.validity <= s.server.validity /\ s.cursor.modseq <= s.server.modseq
  BY DEF CursorSound, Past
<1>4. CASE s.server.validity < t.server.validity
  <2>1. t.cursor.validity # t.server.validity
    BY <1>1, <1>2, <1>3, <1>4 DEF LosesLater
  <2> QED
    BY <2>1 DEF Tidy
<1>5. CASE t.server.validity = s.server.validity
  <2>1. \A u \in Uids : ~Lost(s, u, s.cursor.modseq) => ~Lost(t, u, s.cursor.modseq)
    BY <1>2, <1>3, <1>5, LostSame
  <2> QED
    BY <1>5, <2>1 DEF Tidy, LosesLater
<1> QED
  BY <1>4, <1>5 DEF LosesLater

LEMMA ServerPassTidy ==
  ASSUME NEW s \in World, NEW t \in World, LosesLater(s, t), NEW p \in Pass,
         Past(s, p.sel), PassTidy(s, p)
  PROVE  PassTidy(t, p)
<1>1. /\ p.sel.validity \in Nat /\ p.sel.modseq \in Nat /\ p.present \in SUBSET Uids
      /\ s.server.validity \in Nat /\ t.server.validity \in Nat
  BY PassFields, WorldFields
<1>2. p.sel.validity <= s.server.validity /\ p.sel.modseq <= s.server.modseq
  BY DEF Past
<1>3. p.sel.validity = t.server.validity => t.server.validity = s.server.validity
  BY <1>1, <1>2 DEF LosesLater
<1>4. \A u \in Uids : (p.sel.validity = t.server.validity /\ ~Lost(s, u, p.sel.modseq)) =>
                        ~Lost(t, u, p.sel.modseq)
  BY <1>1, <1>2, <1>3, LostSame
<1>5. t.cursor = s.cursor
  BY DEF LosesLater
<1>6. p.sel.validity = t.server.validity => \A u \in p.present : ~Lost(t, u, p.sel.modseq)
  BY <1>1, <1>3, <1>4 DEF PassTidy
<1>7. ASSUME NEW i \in 1..Len(p.chunks) PROVE ChunkTidy(t, p, p.chunks[i])
  <2>1. ChunkTidy(s, p, p.chunks[i])
    BY <1>7 DEF PassTidy
  <2> QED
    BY <1>3, <1>4, <1>5, <2>1 DEF ChunkTidy
<1> QED
  BY <1>5, <1>6, <1>7 DEF PassTidy

LEMMA TidyServer ==
  ASSUME FolderIndInv, TidyInv, FolderIndInv', ServerMoves
  PROVE  TidyInv'
<1>1. TypeOK /\ TypeOK' /\ CursorSound(Now, cursor)
  BY DEF FolderIndInv, FolderInv
<1>2. /\ Now \in World /\ Now' \in World
      /\ Now'.server = server' /\ Now'.speaks = speaks' /\ Now'.cursor = cursor'
      /\ Now'.rows = rows'
      /\ Now.server = server /\ Now.speaks = speaks /\ Now.cursor = cursor /\ Now.rows = rows
  BY <1>1, NowWorld, NowWorldNext
<1>3. CASE Upgrade
  BY <1>2, <1>3 DEF Upgrade, TidyInv, Plainly
<1>4. CASE Arrive \/ Renumber \/ \E u \in Uids : Change(u) \/ Expunge(u)
  <2>1. Untouched
    BY <1>4 DEF Arrive, Renumber, Change, Expunge
  <2>2. server \in Server /\ server.modseq \in Nat /\ server.validity \in Nat
    BY ServerFacts
  <2>3. \/ server.validity < server'.validity
        \/ /\ server'.validity = server.validity
           /\ \A u \in Uids : server'.gone[u] = server.gone[u] \/ server'.gone[u] > server.modseq
    <3>1. CASE Arrive
      BY <2>2, <3>1 DEF Arrive, Server
    <3>2. CASE Renumber
      BY <2>2, <3>2 DEF Renumber
    <3>3. ASSUME NEW u \in Uids, Change(u)
          PROVE  server'.validity = server.validity /\ server'.gone = server.gone
      BY <2>2, <3>3 DEF Change, Server
    <3>4. ASSUME NEW u \in Uids, Expunge(u)
          PROVE  /\ server'.validity = server.validity
                 /\ \A x \in Uids : server'.gone[x] = server.gone[x] \/ server'.gone[x] > server.modseq
      BY <2>2, <3>4 DEF Expunge, Server
    <3> QED
      BY <1>4, <3>1, <3>2, <3>3, <3>4
  <2>4. LosesLater(Now, Now')
    BY <1>2, <2>1, <2>3 DEF LosesLater, Untouched
  <2> PICK t \in World : t = Now'
    BY <1>2
  <2>5. ASSUME Plainly(Now) PROVE Tidy(t)
    <3>1. Tidy(Now) /\ CursorSound(Now, Now.cursor)
      BY <1>1, <1>2, <2>5 DEF TidyInv
    <3> QED
      BY <1>2, <2>4, <3>1, ServerTidy
  <2>6. ASSUME Plainly(Now), NEW w \in Workers, holder = w, Running(w) PROVE PassTidy(t, pass[w])
    <3>1. PassTidy(Now, pass[w]) /\ PassSound(Now, pass[w]) /\ pass[w] \in Pass
      BY <2>6, TidyPass, HoldersPass
    <3>2. Past(Now, pass[w].sel)
      BY <3>1 DEF PassSound, BaseSound
    <3> QED
      BY <1>2, <2>4, <3>1, <3>2, ServerPassTidy
  <2>7. /\ Plainly(Now') <=> Plainly(Now)
        /\ holder' = holder /\ pass' = pass
    BY <1>2, <2>1 DEF Plainly, Untouched
  <2> QED
    BY <2>5, <2>6, <2>7 DEF TidyInv, Running
<1> QED
  BY <1>3, <1>4 DEF ServerMoves

\* The host clears, forgets, abandons or prunes: there is no cursor left, or there are
\* only fewer rows.
LEMMA TidyHost ==
  ASSUME FolderIndInv, TidyInv, FolderIndInv', HostMoves
  PROVE  TidyInv'
<1>1. TypeOK /\ TypeOK'
  BY DEF FolderIndInv, FolderInv
<1>2. /\ Now'.server = server' /\ Now'.speaks = speaks' /\ Now'.cursor = cursor'
      /\ Now'.rows = rows'
      /\ Now.server = server /\ Now.speaks = speaks /\ Now.cursor = cursor /\ Now.rows = rows
  BY <1>1, NowWorld, NowWorldNext
<1>3. UNCHANGED <<server, speaks, pass>>
  BY DEF HostMoves, ClearCursor, Prune, AbandonLeases, ForgetScope
<1>4. CASE ClearCursor \/ ForgetScope \/ AbandonLeases
  <2>1. holder' \notin Workers
    BY <1>4, MailFolderAssumption DEF ClearCursor, ForgetScope, AbandonLeases
  <2>2. cursor' = NoCursor \/ UNCHANGED <<cursor, rows>>
    BY <1>4 DEF ClearCursor, ForgetScope, AbandonLeases
  <2>3. Plainly(Now') => Tidy(Now')
    <3>1. CASE cursor' = NoCursor
      BY <1>2, <3>1 DEF Tidy, NoCursor
    <3>2. CASE UNCHANGED <<cursor, rows>>
      BY <1>2, <1>3, <3>2 DEF TidyInv, Tidy, Plainly, Lost
    <3> QED
      BY <2>2, <3>1, <3>2
  <2> QED
    BY <2>1, <2>3 DEF TidyInv
<1>5. CASE Prune
  <2>1. UNCHANGED <<cursor, holder>>
        /\ \A v \in Validities, u \in Uids : rows'[v][u] # NoRow => rows[v][u] # NoRow
    BY <1>5 DEF Prune
  <2>2. Plainly(Now') => Plainly(Now)
    BY <1>2, <1>3 DEF Plainly
  <2>3. Tidy(Now) => Tidy(Now')
    BY <1>2, <1>3, <2>1 DEF Tidy, Lost
  <2>4. \A p : PassTidy(Now, p) => PassTidy(Now', p)
    BY <1>2, <1>3, <2>1 DEF PassTidy, ChunkTidy, Lost
  <2> QED
    BY <1>3, <2>1, <2>2, <2>3, <2>4 DEF TidyInv, Running
<1> QED
  BY <1>4, <1>5 DEF HostMoves

LEMMA TidyInit ==
  Init => TidyInv
<1> SUFFICES ASSUME Init PROVE TidyInv
  OBVIOUS
<1>1. FolderIndInv
  BY FolderInit
<1>2. Now.cursor = NoCursor
  BY <1>1, NowWorld DEF Init, FolderIndInv, FolderInv
<1>3. Tidy(Now)
  BY <1>2 DEF Tidy, NoCursor
<1>4. \A w \in Workers : ~Running(w)
  BY DEF Init, Idle, Running
<1> QED
  BY <1>3, <1>4 DEF TidyInv

LEMMA TidyNext ==
  FolderIndInv /\ TidyInv /\ [Next]_vars => TidyInv'
<1> SUFFICES ASSUME FolderIndInv, TidyInv, [Next]_vars PROVE TidyInv'
  OBVIOUS
<1>1. FolderIndInv'
  BY FolderNext
<1>2. CASE ServerMoves
  BY <1>1, <1>2, TidyServer
<1>3. CASE HostMoves
  BY <1>1, <1>3, TidyHost
<1>4. ASSUME UNCHANGED <<server, speaks, holder, cursor, rows, epoch, pass, depth>> PROVE TidyInv'
  <2>1. Now' = Now
    BY <1>4 DEF Now
  <2>2. \A w \in Workers : Running(w)' <=> Running(w)
    BY <1>4 DEF Running
  <2> QED
    BY <1>4, <2>1, <2>2 DEF TidyInv
<1>5. CASE LeaseLapses \/ UNCHANGED vars
  BY <1>4, <1>5 DEF LeaseLapses, vars
<1>6. ASSUME NEW w \in Workers,
             \/ \E window \in Floors : Claim(w, window)
             \/ Fetch(w) \/ Commit(w) \/ StaleCommit(w) \/ Reclaim(w) \/ Finish(w)
             \/ Renew(w) \/ ProviderFails(w) \/ Dies(w)
      PROVE  TidyInv'
  <2>1. CASE \/ \E window \in Floors : Claim(w, window)
             \/ Reclaim(w) \/ Finish(w) \/ ProviderFails(w) \/ Dies(w) \/ StaleCommit(w)
    BY <2>1, TidyClaims
  <2>2. CASE FetchChanges(w) \/ FetchArrivals(w)
    BY <2>2, TidyDelta
  <2>3. CASE Fetch(w)
    BY <2>2, <2>3, TidySelect, TidyGroup, TidyFlags, TidyFresh, TidyPage DEF Fetch
  <2>4. CASE Commit(w)
    BY <1>1, <2>4, TidyCommit
  <2>5. CASE Renew(w)
    BY <1>4, <2>5 DEF Renew
  <2> QED
    BY <1>6, <2>1, <2>3, <2>4, <2>5
<1> QED
  BY <1>2, <1>3, <1>5, <1>6 DEF Next

\* A server that has not offered QRESYNC (each folder is diffed by UIDs and flags): when
\* the stored cursor says `reconciled`, every message the server had expunged, or
\* renumbered, when the cursor was taken is gone from the store. With QRESYNC it is not
\* so: the run folder_ghost_arrival shows the message that stays.
THEOREM ReconciledMeansTidy ==
  Spec => [](speaks \in {"xym", "plain"} => ReconciledIsReconciled)
<1>1. Spec => [](FolderIndInv /\ TidyInv)
  BY FolderInit, FolderNext, TidyInit, TidyNext, PTL DEF Spec
<1>2. FolderIndInv /\ TidyInv => (speaks \in {"xym", "plain"} => ReconciledIsReconciled)
  <2> SUFFICES ASSUME FolderIndInv, TidyInv, speaks \in {"xym", "plain"}
               PROVE  ReconciledIsReconciled
    OBVIOUS
  <2>1. /\ Now.server = server /\ Now.speaks = speaks /\ Now.cursor = cursor /\ Now.rows = rows
    BY NowWorld DEF FolderIndInv, FolderInv
  <2>2. Tidy(Now)
    BY <2>1 DEF TidyInv, Plainly
  <2> QED
    BY <2>1, <2>2 DEF Tidy, Lost, ReconciledIsReconciled, Ghost
<1> QED
  BY <1>1, <1>2, PTL

===============================================================================
