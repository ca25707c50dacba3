---------------------------- MODULE TransportProofs ---------------------------
(***************************************************************************)
(* What the transports guarantee.  Of the IMAP connection pool, for any    *)
(* number of clients, any ceiling and any number of failures, dropped      *)
(* calls and invalidations: the permits balance, the sockets stay within   *)
(* the ceiling, nobody waits without being woken, no call is served by a   *)
(* superseded connection, and watches leave the workers one connection.    *)
(* Of the request gate, for any number of requests and any ceilings: a     *)
(* free lane beside a sleeper is spoken for.  Of one call of the funnel,   *)
(* for bodies of any number of pieces, every retry policy and every        *)
(* server: the hand-over comes before the whole request, a request that is *)
(* not idempotent is applied at most once, "not received" means not        *)
(* applied, and the sleeps stay within the budget.                         *)
(***************************************************************************)
EXTENDS ImapPool, RequestGate, HttpSend, SequenceTheorems, FiniteSetTheorems, TLAPS

-------------------------------------------------------------------------------
(* The connection pool: counting and removing *)

\* At most the one element that may be missing is missing.
LEMMA CountWithout ==
  ASSUME NEW D, NEW E, NEW x, IsFiniteSet(D), IsFiniteSet(E), D \ {x} \subseteq E
  PROVE  /\ Cardinality(D) \in Nat /\ Cardinality(E) \in Nat
         /\ Cardinality(D) - 1 <= Cardinality(E)
<1>1. IsFiniteSet(D \ {x}) /\ Cardinality(D \ {x}) \in Nat
  BY FS_Subset, FS_CardinalityType
<1>2. Cardinality(D) \in Nat /\ Cardinality(E) \in Nat
  BY FS_CardinalityType
<1>3. Cardinality(D \ {x}) <= Cardinality(E)
  BY FS_Subset
<1>4. CASE x \in D
  <2>1. Cardinality(D \ {x}) = Cardinality(D) - 1
    BY <1>4, FS_RemoveElement
  <2> QED
    BY <1>1, <1>2, <1>3, <2>1
<1>5. CASE x \notin D
  <2>1. D \ {x} = D
    BY <1>5
  <2> QED
    BY <1>1, <1>2, <1>3, <2>1
<1> QED
  BY <1>4, <1>5

\* One may be missing, and another one is new.
LEMMA CountSwap ==
  ASSUME NEW D, NEW E, NEW x, NEW y, IsFiniteSet(D), IsFiniteSet(E),
         D \ {x} \subseteq E, y \in E, y \notin D
  PROVE  /\ Cardinality(D) \in Nat /\ Cardinality(E) \in Nat
         /\ Cardinality(D) <= Cardinality(E)
<1>1. IsFiniteSet(E \ {y}) /\ Cardinality(E \ {y}) = Cardinality(E) - 1
  BY FS_RemoveElement
<1>2. D \ {x} \subseteq E \ {y}
  OBVIOUS
<1>3. Cardinality(D) - 1 <= Cardinality(E \ {y})
  BY <1>1, <1>2, CountWithout
<1>4. Cardinality(D) \in Nat /\ Cardinality(E) \in Nat
  BY FS_CardinalityType
<1> QED
  BY <1>1, <1>3, <1>4

\* Nothing is missing, and one is new.
LEMMA CountMore ==
  ASSUME NEW D, NEW E, NEW y, IsFiniteSet(D), IsFiniteSet(E),
         D \subseteq E, y \in E, y \notin D
  PROVE  /\ Cardinality(D) \in Nat /\ Cardinality(E) \in Nat
         /\ Cardinality(D) + 1 <= Cardinality(E)
<1>1. IsFiniteSet(E \ {y}) /\ Cardinality(E \ {y}) = Cardinality(E) - 1
  BY FS_RemoveElement
<1>2. Cardinality(D) <= Cardinality(E \ {y})
  BY <1>1, FS_Subset
<1>3. Cardinality(D) \in Nat /\ Cardinality(E) \in Nat
  BY FS_CardinalityType
<1> QED
  BY <1>1, <1>2, <1>3

\* A sequence without its i-th element.
LEMMA RemoveAtProperties ==
  ASSUME NEW S, NEW s \in Seq(S), NEW i \in 1..Len(s)
  PROVE  /\ RemoveAt(s, i) \in Seq(S)
         /\ Len(RemoveAt(s, i)) = Len(s) - 1
         /\ \A j \in 1..(Len(s) - 1) :
              RemoveAt(s, i)[j] = IF j < i THEN s[j] ELSE s[j + 1]
<1> DEFINE a == SubSeq(s, 1, i - 1)
           b == SubSeq(s, i + 1, Len(s))
<1>0. Len(s) \in Nat /\ i \in Nat /\ 1 <= i /\ i <= Len(s)
  OBVIOUS
<1>1. /\ a \in Seq(S) /\ Len(a) = i - 1
      /\ \A j \in 1..(i - 1) : a[j] = s[j]
  BY <1>0
<1>2. /\ b \in Seq(S) /\ Len(b) = Len(s) - i
      /\ \A j \in 1..(Len(s) - i) : b[j] = s[i + j]
  BY <1>0
<1>3. RemoveAt(s, i) = a \o b
  BY DEF RemoveAt
<1> HIDE DEF a, b
<1>4. /\ a \o b \in Seq(S) /\ Len(a \o b) = Len(a) + Len(b)
      /\ \A j \in 1..(Len(a) + Len(b)) :
           (a \o b)[j] = IF j <= Len(a) THEN a[j] ELSE b[j - Len(a)]
  BY <1>1, <1>2, ConcatProperties
<1>5. ASSUME NEW j \in 1..(Len(s) - 1)
      PROVE  (a \o b)[j] = IF j < i THEN s[j] ELSE s[j + 1]
  <2>0. (a \o b)[j] = IF j <= i - 1 THEN a[j] ELSE b[j - (i - 1)]
    BY <1>0, <1>1, <1>2, <1>4
  <2>1. CASE j < i
    BY <1>0, <1>1, <2>0, <2>1
  <2>2. CASE ~(j < i)
    <3>1. (a \o b)[j] = b[j - (i - 1)] /\ j - (i - 1) \in 1..(Len(s) - i)
      BY <1>0, <2>0, <2>2
    <3>2. i + (j - (i - 1)) = j + 1
      BY <1>0
    <3> QED
      BY <1>2, <2>2, <3>1, <3>2
  <2> QED
    BY <2>1, <2>2
<1> QED
  BY <1>0, <1>1, <1>2, <1>3, <1>4, <1>5

-------------------------------------------------------------------------------
(* The connection pool.  A resting connection stands on no permit, so that  *)
(* the sockets fit under the ceiling rests on when a dial happens: only     *)
(* with an empty shelf, when every other socket has a permit.               *)

PoolTypeOK ==
  /\ permits \in Nat /\ queue \in Seq(Clients)
  /\ ceiling \in Int /\ ceiling <= MaxConnections
  /\ watches \in Nat /\ workers \in Int
  /\ parked \in [Generations -> Nat] /\ generation \in Generations
  /\ client \in [Clients -> Client]
  /\ invalidate \in [step : {"none", "bumped", "cleared", "restored"}, add : Nat]
  /\ poolBudget \in [changes : Nat, faults : Nat, drops : Nat]
  /\ generation + poolBudget.changes <= MaxInvalidates

\* A client waits for a permit at most once, and does nothing else meanwhile.
QueueSound ==
  /\ \A i, j \in 1..Len(queue) : queue[i] = queue[j] => i = j
  /\ \A i \in 1..Len(queue) : client[queue[i]].phase = "queued"

Counted == {"lent", "pushing", "ending"}

\* Permits and sockets, both counting what is on its way to the ceiling.
PoolCounts ==
  /\ BudgetBalances
  /\ invalidate.step # "restored" => invalidate.add = 0
  /\ workers = Cardinality(In(Counted))
  /\ IsFiniteSet(Shelved)
  /\ Shelf + Cardinality(In(Connected)) + Cardinality(In({"forgot"})) + invalidate.add
       <= ceiling

\* Every watch under way is counted, and the count leaves one for the workers.
WatchSound ==
  /\ Cardinality({c \in Clients : client[c].role = "watch"}) <= watches
  /\ watches < MaxConnections

\* take_or_dial reads the generation after the call was made, and uses no
\* connection older than what it read.
GenerationsSound ==
  \A c \in Clients :
    /\ client[c].asked <= generation
    /\ client[c].phase \in {"taking", "checking", "dialling"} => client[c].read >= client[c].asked
    /\ client[c].phase \in {"checking", "dialling"} => client[c].made >= client[c].asked

PoolInv == PoolTypeOK /\ QueueSound /\ PoolCounts /\ WatchSound /\ GenerationsSound /\ NobodyStranded

-------------------------------------------------------------------------------
(* What an action makes of its client *)

\* c gets these fields; of the others, at most the wakeups change.
Becomes(c, phase, role, asked, read, made, woken) ==
  /\ client' \in [Clients -> Client]
  /\ client'[c].phase = phase /\ client'[c].role = role
  /\ client'[c].asked = asked /\ client'[c].read = read /\ client'[c].made = made
  /\ client'[c].woken = woken
  /\ \A d \in Clients \ {c} :
       /\ client'[d].phase = client[d].phase /\ client'[d].role = client[d].role
       /\ client'[d].asked = client[d].asked /\ client'[d].read = client[d].read
       /\ client'[d].made = client[d].made
       /\ client[d].woken => client'[d].woken

\* A client's record is replaced.
LEMMA RecordBecomes ==
  ASSUME PoolTypeOK, NEW c \in Clients, NEW r \in Client, client' = [client EXCEPT ![c] = r]
  PROVE  Becomes(c, r.phase, r.role, r.asked, r.read, r.made, r.woken)
<1>1. client'[c] = r /\ client' \in [Clients -> Client] /\ \A d \in Clients \ {c} : client'[d] = client[d]
  BY DEF PoolTypeOK
<1> QED
  BY <1>1 DEF Becomes

\* The records an action may build from a client's.
LEMMA Rework ==
  ASSUME NEW r \in Client, NEW p \in Phases, NEW a \in Generations, NEW b \in Generations,
         NEW m \in Generations, NEW w \in BOOLEAN, NEW o \in Clients,
         NEW role \in {"worker", "spare", "watch"}
  PROVE  /\ [r EXCEPT !.phase = p] \in Client
         /\ [r EXCEPT !.phase = p, !.read = b, !.made = m] \in Client
         /\ [r EXCEPT !.phase = p, !.read = b] \in Client
         /\ [r EXCEPT !.phase = p, !.made = m] \in Client
         /\ [r EXCEPT !.phase = p, !.woken = w] \in Client
         /\ [r EXCEPT !.woken = w] \in Client
         /\ [r EXCEPT !.phase = p, !.asked = a, !.read = b, !.woken = w, !.made = m] \in Client
         /\ [r EXCEPT !.role = role, !.owner = o, !.phase = p, !.asked = a, !.read = b] \in Client
BY DEF Client

\* What the types of the constants and of the clients give.
LEMMA InRange ==
  ASSUME PoolTypeOK
  PROVE  /\ MaxInvalidates \in Nat /\ MaxConnections \in Nat /\ MaxConnections > 0
         /\ IsFiniteSet(Clients)
         /\ 0 \in Generations /\ Generations \subseteq Nat /\ generation \in Generations
         /\ \A c \in Clients : /\ client[c] \in Client /\ Resting(c) \in Client
                               /\ client[c].phase \in Phases
                               /\ client[c].role \in {"worker", "spare", "watch"}
                               /\ client[c].asked \in Generations
                               /\ client[c].read \in Generations
                               /\ client[c].made \in Generations
                               /\ client[c].woken \in BOOLEAN
<1>1. /\ MaxInvalidates \in Nat /\ MaxConnections \in Nat /\ MaxConnections > 0
      /\ IsFiniteSet(Clients)
      /\ 0 \in Generations /\ Generations \subseteq Nat
  BY ImapPoolAssumption DEF Generations
<1>2. \A c \in Clients : client[c] \in Client
  BY DEF PoolTypeOK
<1>3. \A c \in Clients : Resting(c) \in Client
  BY <1>1 DEF Resting, Client, Phases
<1> QED
  BY <1>1, <1>2, <1>3 DEF Client, PoolTypeOK

\* The ways a client's record is rewritten, one lemma for each.
LEMMA MovesBecomes ==
  ASSUME PoolTypeOK, NEW c \in Clients, NEW q \in Phases, Moves(c, q)
  PROVE  Becomes(c, q, client[c].role, client[c].asked, client[c].read, client[c].made,
                 client[c].woken)
<1> DEFINE r == [client[c] EXCEPT !.phase = q]
<1>1. r \in Client
  BY InRange, Rework
<1>2. client' = [client EXCEPT ![c] = r]
  BY InRange DEF Moves
<1>3. /\ r.phase = q /\ r.role = client[c].role /\ r.asked = client[c].asked
      /\ r.read = client[c].read /\ r.made = client[c].made /\ r.woken = client[c].woken
  BY InRange DEF Client
<1> HIDE DEF r
<1>4. Becomes(c, r.phase, r.role, r.asked, r.read, r.made, r.woken)
  BY <1>1, <1>2, RecordBecomes
<1> QED
  BY <1>3, <1>4

LEMMA DropsBecomes ==
  ASSUME PoolTypeOK, NEW c \in Clients, NEW q \in Phases, Drops(c, q)
  PROVE  Becomes(c, q, client[c].role, client[c].asked, 0, 0, client[c].woken)
<1> DEFINE r == [client[c] EXCEPT !.phase = q, !.read = 0, !.made = 0]
<1>1. r \in Client
  BY InRange, Rework
<1>2. client' = [client EXCEPT ![c] = r]
  BY InRange DEF Drops
<1>3. /\ r.phase = q /\ r.role = client[c].role /\ r.asked = client[c].asked
      /\ r.read = 0 /\ r.made = 0 /\ r.woken = client[c].woken
  BY InRange DEF Client
<1> HIDE DEF r
<1>4. Becomes(c, r.phase, r.role, r.asked, r.read, r.made, r.woken)
  BY <1>1, <1>2, RecordBecomes
<1> QED
  BY <1>3, <1>4

LEMMA EndsBecomes ==
  ASSUME PoolTypeOK, NEW c \in Clients, Ends(c)
  PROVE  Becomes(c, "idle", "worker", 0, 0, 0, FALSE)
<1>1. Becomes(c, Resting(c).phase, Resting(c).role, Resting(c).asked, Resting(c).read,
              Resting(c).made, Resting(c).woken)
  BY InRange, RecordBecomes DEF Ends
<1> QED
  BY <1>1 DEF Resting

LEMMA CallsBecomes ==
  ASSUME PoolTypeOK, NEW c \in Clients, NEW role \in {"worker", "spare", "watch"},
         NEW owner \in Clients, NEW phase \in {"queued", "taking"}, Calls(c, role, owner, phase)
  PROVE  Becomes(c, phase, role, generation, IF phase = "taking" THEN generation ELSE 0, 0, FALSE)
<1> DEFINE read == IF phase = "taking" THEN generation ELSE 0
           r == [Resting(c) EXCEPT !.role = role, !.owner = owner, !.phase = phase,
                                   !.asked = generation, !.read = read]
<1>0. read \in Generations /\ phase \in Phases
  BY InRange DEF Phases
<1> HIDE DEF read
<1>1. r \in Client
  BY <1>0, InRange, Rework
<1>2. client' = [client EXCEPT ![c] = r]
  BY DEF Calls, read
<1>3. /\ r.phase = phase /\ r.role = role /\ r.asked = generation
      /\ r.read = read /\ r.made = 0 /\ r.woken = FALSE
  BY DEF Resting
<1> HIDE DEF r
<1>4. Becomes(c, r.phase, r.role, r.asked, r.read, r.made, r.woken)
  BY <1>1, <1>2, RecordBecomes
<1> QED
  BY <1>3, <1>4 DEF read

LEMMA PermitBecomes ==
  ASSUME PoolTypeOK, NEW c \in Clients, TakePermit(c)
  PROVE  Becomes(c, "taking", client[c].role, client[c].asked, generation, client[c].made,
                 client[c].woken)
<1> DEFINE r == [client[c] EXCEPT !.phase = "taking", !.read = generation]
<1>1. r \in Client
  <2>1. "taking" \in Phases
    BY DEF Phases
  <2> QED
    BY <2>1, InRange, Rework
<1>2. client' = [client EXCEPT ![c] = r]
  BY InRange DEF TakePermit
<1>3. /\ r.phase = "taking" /\ r.role = client[c].role /\ r.asked = client[c].asked
      /\ r.read = generation /\ r.made = client[c].made /\ r.woken = client[c].woken
  BY InRange DEF Client
<1> HIDE DEF r
<1>4. Becomes(c, r.phase, r.role, r.asked, r.read, r.made, r.woken)
  BY <1>1, <1>2, RecordBecomes
<1> QED
  BY <1>3, <1>4

LEMMA ParkedBecomes ==
  ASSUME PoolTypeOK, NEW c \in Clients, NEW q \in Phases, NEW g \in Generations,
         client' = [client EXCEPT ![c] = [@ EXCEPT !.phase = q, !.made = g]]
  PROVE  Becomes(c, q, client[c].role, client[c].asked, client[c].read, g, client[c].woken)
<1> DEFINE r == [client[c] EXCEPT !.phase = q, !.made = g]
<1>1. r \in Client
  BY InRange, Rework
<1>2. client' = [client EXCEPT ![c] = r]
  OBVIOUS
<1>3. /\ r.phase = q /\ r.role = client[c].role /\ r.asked = client[c].asked
      /\ r.read = client[c].read /\ r.made = g /\ r.woken = client[c].woken
  BY InRange DEF Client
<1> HIDE DEF r
<1>4. Becomes(c, r.phase, r.role, r.asked, r.read, r.made, r.woken)
  BY <1>1, <1>2, RecordBecomes
<1> QED
  BY <1>3, <1>4

LEMMA ConnectBecomes ==
  ASSUME PoolTypeOK, NEW c \in Clients, Connect(c)
  PROVE  Becomes(c, IF client[c].role = "watch" THEN "watching" ELSE "lent", client[c].role,
                 0, 0, IF client[c].role = "watch" THEN 0 ELSE client[c].made, FALSE)
<1> DEFINE q == IF client[c].role = "watch" THEN "watching" ELSE "lent"
           m == IF client[c].role = "watch" THEN 0 ELSE client[c].made
           r == [client[c] EXCEPT !.phase = q, !.asked = 0, !.read = 0, !.woken = FALSE, !.made = m]
<1>0. q \in Phases /\ m \in Generations
  BY InRange DEF Phases
<1>2. client' = [client EXCEPT ![c] = r]
  BY DEF Connect
<1> HIDE DEF q, m
<1>1. r \in Client
  BY <1>0, InRange, Rework
<1>3. /\ r.phase = q /\ r.role = client[c].role /\ r.asked = 0
      /\ r.read = 0 /\ r.made = m /\ r.woken = FALSE
  BY InRange DEF Client
<1> HIDE DEF r
<1>4. Becomes(c, r.phase, r.role, r.asked, r.read, r.made, r.woken)
  BY <1>1, <1>2, RecordBecomes
<1> QED
  BY <1>3, <1>4 DEF q, m

LEMMA RoundBecomes ==
  ASSUME PoolTypeOK, NEW c \in Clients, ComesRound(c)
  PROVE  Becomes(c, "queued", client[c].role, client[c].asked, client[c].read, client[c].made, FALSE)
<1> DEFINE r == [client[c] EXCEPT !.phase = "queued", !.woken = FALSE]
<1>1. r \in Client
  <2>1. "queued" \in Phases
    BY DEF Phases
  <2> QED
    BY <2>1, InRange, Rework
<1>2. client' = [client EXCEPT ![c] = r]
  BY DEF ComesRound
<1>3. /\ r.phase = "queued" /\ r.role = client[c].role /\ r.asked = client[c].asked
      /\ r.read = client[c].read /\ r.made = client[c].made /\ r.woken = FALSE
  BY InRange DEF Client
<1> HIDE DEF r
<1>4. Becomes(c, r.phase, r.role, r.asked, r.read, r.made, r.woken)
  BY <1>1, <1>2, RecordBecomes
<1> QED
  BY <1>3, <1>4

LEMMA WakeBecomes ==
  ASSUME PoolTypeOK, NEW c \in Clients, Wake(c)
  PROVE  /\ Becomes(c, "idle", "worker", 0, 0, 0, FALSE)
         /\ \A d \in Clients \ {c} : Armed(d) => client'[d].woken
<1> DEFINE w(d) == client[d].woken \/ Armed(d)
           r(d) == [client[d] EXCEPT !.woken = w(d)]
<1>1. client' = [d \in Clients |-> IF d = c THEN Resting(c) ELSE r(d)]
  BY DEF Wake
<1>2. \A d \in Clients : w(d) \in BOOLEAN
  OBVIOUS
<1>3. \A d \in Clients : (client[d].woken => w(d)) /\ (Armed(d) => w(d))
  OBVIOUS
<1> HIDE DEF w
<1>4. \A d \in Clients : r(d) \in Client
  BY <1>2, InRange, Rework
<1>5. \A d \in Clients : /\ r(d).phase = client[d].phase /\ r(d).role = client[d].role
                         /\ r(d).asked = client[d].asked /\ r(d).read = client[d].read
                         /\ r(d).made = client[d].made /\ r(d).woken = w(d)
  BY InRange DEF Client
<1> HIDE DEF r
<1>6. client' \in [Clients -> Client] /\ client'[c] = Resting(c) /\ \A d \in Clients \ {c} : client'[d] = r(d)
  BY <1>1, <1>4, InRange
<1>7. \A d \in Clients \ {c} :
       /\ client'[d].phase = client[d].phase /\ client'[d].role = client[d].role
       /\ client'[d].asked = client[d].asked /\ client'[d].read = client[d].read
       /\ client'[d].made = client[d].made
  BY <1>5, <1>6
<1>8. \A d \in Clients \ {c} : /\ client[d].woken => client'[d].woken
                               /\ Armed(d) => client'[d].woken
  BY <1>3, <1>5, <1>6
<1> QED
  BY <1>6, <1>7, <1>8 DEF Becomes, Resting

-------------------------------------------------------------------------------
(* What an action makes of the counts *)

Bit(p, P) == IF p \in P THEN 1 ELSE 0

\* Two sets that agree but for one element.
LEMMA CountChanged ==
  ASSUME NEW S, NEW T, IsFiniteSet(S), IsFiniteSet(T), NEW c, S \ {c} = T \ {c}
  PROVE  /\ Cardinality(S) \in Nat /\ Cardinality(T) \in Nat
         /\ Cardinality(T) + Bit(c, S) = Cardinality(S) + Bit(c, T)
<1> DEFINE R == S \ {c}
<1>0. Cardinality(S) \in Nat /\ Cardinality(T) \in Nat
  BY FS_CardinalityType
<1>1. ASSUME NEW U, IsFiniteSet(U), U \ {c} = R, Cardinality(U) \in Nat
      PROVE  Cardinality(U) = Cardinality(R) + Bit(c, U) /\ Cardinality(R) \in Nat
  <2>1. IsFiniteSet(R) /\ Cardinality(R) \in Nat
    BY <1>1, FS_Subset, FS_CardinalityType
  <2>2. CASE c \in U
    <3>1. Cardinality(U \ {c}) = Cardinality(U) - 1
      BY <1>1, <2>2, FS_RemoveElement
    <3> QED
      BY <1>1, <2>1, <2>2, <3>1 DEF Bit
  <2>3. CASE c \notin U
    <3>1. U = R
      BY <1>1, <2>3
    <3> QED
      BY <2>1, <2>3, <3>1 DEF Bit
  <2> QED
    BY <2>2, <2>3
<1>2. Cardinality(S) = Cardinality(R) + Bit(c, S) /\ Cardinality(R) \in Nat
  BY <1>0, <1>1
<1>3. Cardinality(T) = Cardinality(R) + Bit(c, T)
  BY <1>0, <1>1
<1>4. Bit(c, S) \in Nat /\ Bit(c, T) \in Nat
  BY DEF Bit
<1> HIDE DEF R
<1> QED
  BY <1>0, <1>2, <1>3, <1>4

\* A client's move changes a count by whether it was in and whether it is in.
LEMMA MoveCounts ==
  ASSUME PoolTypeOK, NEW c \in Clients, NEW q, client'[c].phase = q,
         \A d \in Clients \ {c} : client'[d].phase = client[d].phase, NEW P
  PROVE  /\ Cardinality(In(P)) \in Nat /\ Cardinality(In(P)') \in Nat
         /\ Cardinality(In(P)') + Bit(client[c].phase, P) = Cardinality(In(P)) + Bit(q, P)
<1> DEFINE S == In(P)
           T == In(P)'
<1>1. S \subseteq Clients /\ T \subseteq Clients /\ S \ {c} = T \ {c}
  BY DEF In
<1>2. (c \in S <=> client[c].phase \in P) /\ (c \in T <=> q \in P)
  BY DEF In
<1> HIDE DEF S, T
<1>3. IsFiniteSet(S) /\ IsFiniteSet(T)
  BY <1>1, InRange, FS_Subset
<1>4. /\ Cardinality(S) \in Nat /\ Cardinality(T) \in Nat
      /\ Cardinality(T) + Bit(c, S) = Cardinality(S) + Bit(c, T)
  BY <1>1, <1>3, CountChanged
<1>5. Bit(c, S) = Bit(client[c].phase, P) /\ Bit(c, T) = Bit(q, P)
  BY <1>2 DEF Bit
<1> QED
  BY <1>4, <1>5 DEF S, T

\* The arithmetic of a move that keeps the permits balanced.
LEMMA BalanceKept ==
  ASSUME NEW e \in Nat, NEW ee \in Nat, NEW h \in Nat, NEW hh \in Nat, NEW f \in Nat, NEW ff \in Nat,
         NEW a \in Nat, NEW l \in Int, NEW ll \in Int,
         NEW bp \in Nat, NEW bq \in Nat, NEW fp \in Nat, NEW fq \in Nat,
         ee + bq + fq + l = e + bp + fp + ll,
         hh + bp = h + bq, ff + fp = f + fq, e + h + f + a = l
  PROVE  ee + hh + ff + a = ll
OBVIOUS

\* Where nothing rests, every socket has a permit.
LEMMA RoomLeft ==
  ASSUME NEW e \in Nat, NEW h \in Nat, NEW k \in Nat, NEW f \in Nat, NEW a \in Nat, NEW l \in Int,
         e + h + f + a = l, k <= h
  PROVE  0 + k + f + a <= l
OBVIOUS

\* How an action that moves c from p to q keeps the books.
LEMMA CountsKept ==
  ASSUME PoolInv, NEW c \in Clients, NEW p, NEW q, client[c].phase = p, client'[c].phase = q,
         \A d \in Clients \ {c} : client'[d].phase = client[d].phase,
         permits' \in Nat, ceiling' \in Int, workers' \in Int, invalidate' = invalidate,
         permits' + Bit(q, Holding) + Bit(q, {"forgot"}) + ceiling
           = permits + Bit(p, Holding) + Bit(p, {"forgot"}) + ceiling',
         workers' + Bit(p, Counted) = workers + Bit(q, Counted),
         IsFiniteSet(Shelved'),
         \/ Shelf' + Bit(q, Connected) + Bit(q, {"forgot"}) + ceiling
              <= Shelf + Bit(p, Connected) + Bit(p, {"forgot"}) + ceiling'
         \/ Shelf' = 0
  PROVE  PoolCounts'
<1> DEFINE h == Cardinality(In(Holding))         hh == Cardinality(In(Holding)')
           f == Cardinality(In({"forgot"}))      ff == Cardinality(In({"forgot"})')
           k == Cardinality(In(Connected))       kk == Cardinality(In(Connected)')
           w == Cardinality(In(Counted))         ww == Cardinality(In(Counted)')
           s == Shelf                            ss == Shelf'
           a == invalidate.add
<1>1. h \in Nat /\ hh \in Nat /\ hh + Bit(p, Holding) = h + Bit(q, Holding)
  BY MoveCounts DEF PoolInv
<1>2. f \in Nat /\ ff \in Nat /\ ff + Bit(p, {"forgot"}) = f + Bit(q, {"forgot"})
  BY MoveCounts DEF PoolInv
<1>3. k \in Nat /\ kk \in Nat /\ kk + Bit(p, Connected) = k + Bit(q, Connected)
  BY MoveCounts DEF PoolInv
<1>4. w \in Nat /\ ww \in Nat /\ ww + Bit(p, Counted) = w + Bit(q, Counted)
  BY MoveCounts DEF PoolInv
<1>5. s \in Nat /\ ss \in Nat /\ a \in Nat /\ ceiling \in Int /\ permits \in Nat
  BY FS_CardinalityType DEF PoolInv, PoolCounts, PoolTypeOK, Shelf
<1>6. /\ permits + h + f + a = ceiling /\ workers = w /\ s + k + f + a <= ceiling
      /\ invalidate.step # "restored" => invalidate.add = 0
  BY DEF PoolInv, PoolCounts, BudgetBalances
<1>7. kk <= hh
  <2>1. In(Connected)' \subseteq In(Holding)' /\ In(Holding)' \subseteq Clients
    BY DEF In, Connected, Holding
  <2> QED
    BY <2>1, InRange, FS_Subset DEF PoolInv
<1>8. /\ Bit(p, Holding) \in Nat /\ Bit(q, Holding) \in Nat
      /\ Bit(p, Connected) \in Nat /\ Bit(q, Connected) \in Nat
      /\ Bit(p, {"forgot"}) \in Nat /\ Bit(q, {"forgot"}) \in Nat
      /\ Bit(p, Counted) \in Nat /\ Bit(q, Counted) \in Nat
  BY DEF Bit
<1>9. permits' + hh + ff + a = ceiling'
  <2> DEFINE hp == Bit(p, Holding)     hq == Bit(q, Holding)
             fp == Bit(p, {"forgot"})  fq == Bit(q, {"forgot"})
             e == permits  ee == permits'  l == ceiling  ll == ceiling'
  <2>1. /\ e \in Nat /\ ee \in Nat /\ h \in Nat /\ hh \in Nat /\ f \in Nat /\ ff \in Nat
        /\ a \in Nat /\ l \in Int /\ ll \in Int /\ hp \in Nat /\ hq \in Nat /\ fp \in Nat /\ fq \in Nat
    BY <1>1, <1>2, <1>5, <1>8
  <2>2. /\ ee + hq + fq + l = e + hp + fp + ll
        /\ hh + hp = h + hq /\ ff + fp = f + fq /\ e + h + f + a = l
    BY <1>1, <1>2, <1>6
  <2> HIDE DEF h, hh, f, ff, a, hp, hq, fp, fq, e, ee, l, ll
  <2>3. ee + hh + ff + a = ll
    BY <2>1, <2>2, BalanceKept
  <2> QED
    BY <2>3 DEF ee, ll
<1> HIDE DEF h, hh, f, ff, k, kk, w, ww, s, ss, a
<1>10. workers' = ww
  BY <1>4, <1>6, <1>8
<1>11. ss + kk + ff + a <= ceiling'
  <2>1. CASE ss = 0
    <3> DEFINE ee == permits'  ll == ceiling'
    <3>1. /\ ee \in Nat /\ hh \in Nat /\ kk \in Nat /\ ff \in Nat /\ a \in Nat /\ ll \in Int
          /\ ee + hh + ff + a = ll /\ kk <= hh
      BY <1>1, <1>2, <1>3, <1>5, <1>7, <1>9
    <3> HIDE DEF ee, ll
    <3>2. 0 + kk + ff + a <= ll
      BY <3>1, RoomLeft
    <3> QED
      BY <2>1, <3>2 DEF ll
  <2>2. CASE ss + Bit(q, Connected) + Bit(q, {"forgot"}) + ceiling
               <= s + Bit(p, Connected) + Bit(p, {"forgot"}) + ceiling'
    BY <1>2, <1>3, <1>5, <1>6, <1>8, <2>2
  <2> QED
    BY <2>1, <2>2 DEF s, ss
<1> QED
  BY <1>6, <1>9, <1>10, <1>11 DEF PoolCounts, BudgetBalances, hh, ff, kk, ww, ss, a

\* An action that leaves the shelf alone.
LEMMA ShelfKept ==
  ASSUME PoolInv, parked' = parked
  PROVE  Shelved' = Shelved /\ Shelf' = Shelf /\ IsFiniteSet(Shelved') /\ Shelf \in Nat
BY FS_CardinalityType DEF PoolInv, PoolCounts, Shelved, Shelf

-------------------------------------------------------------------------------
(* What an action makes of the queue, the watches and the generations *)

\* A move outside the queue.
LEMMA QueueKept ==
  ASSUME PoolInv, NEW c \in Clients, client[c].phase # "queued",
         \A d \in Clients \ {c} : client'[d].phase = client[d].phase, queue' = queue
  PROVE  QueueSound'
<1>1. \A i \in 1..Len(queue) : queue[i] \in Clients \ {c}
  BY DEF PoolInv, PoolTypeOK, QueueSound
<1> QED
  BY <1>1 DEF PoolInv, QueueSound

\* A call that begins to wait for a permit.
LEMMA QueueJoined ==
  ASSUME PoolInv, NEW c \in Clients, client[c].phase # "queued", client'[c].phase = "queued",
         \A d \in Clients \ {c} : client'[d].phase = client[d].phase, queue' = Append(queue, c)
  PROVE  QueueSound' /\ queue' \in Seq(Clients)
<1>1. \A i \in 1..Len(queue) : queue[i] \in Clients \ {c}
  BY DEF PoolInv, PoolTypeOK, QueueSound
<1>2. /\ queue' \in Seq(Clients) /\ Len(queue') = Len(queue) + 1 /\ Len(queue) \in Nat
      /\ \A i \in 1..Len(queue) : queue'[i] = queue[i]
      /\ queue'[Len(queue) + 1] = c
  BY AppendProperties DEF PoolInv, PoolTypeOK
<1>3. \A i \in 1..Len(queue') : i \in 1..Len(queue) \/ i = Len(queue) + 1
  BY <1>2
<1>4. \A i, j \in 1..Len(queue') : queue'[i] = queue'[j] => i = j
  BY <1>1, <1>2, <1>3 DEF PoolInv, QueueSound
<1>5. \A i \in 1..Len(queue') : client'[queue'[i]].phase = "queued"
  BY <1>1, <1>2, <1>3 DEF PoolInv, QueueSound
<1> QED
  BY <1>2, <1>4, <1>5 DEF QueueSound

\* A call that has its permit, or is dropped.
LEMMA QueueLeft ==
  ASSUME PoolInv, NEW c \in Clients, NEW i \in 1..Len(queue), LeavesQueue(c, i),
         \A d \in Clients \ {c} : client'[d].phase = client[d].phase
  PROVE  QueueSound' /\ queue' \in Seq(Clients) /\ client[c].phase = "queued"
<1>0. queue \in Seq(Clients) /\ Len(queue) \in Nat /\ queue[i] = c
  BY DEF PoolInv, PoolTypeOK, LeavesQueue
<1>1. /\ queue' \in Seq(Clients) /\ Len(queue') = Len(queue) - 1
      /\ \A j \in 1..(Len(queue) - 1) : queue'[j] = IF j < i THEN queue[j] ELSE queue[j + 1]
  BY <1>0, RemoveAtProperties DEF LeavesQueue
<1> DEFINE at(j) == IF j < i THEN j ELSE j + 1
<1>2. \A j \in 1..Len(queue') : at(j) \in 1..Len(queue) /\ at(j) # i /\ queue'[j] = queue[at(j)]
  BY <1>0, <1>1
<1>3. \A j, k \in 1..Len(queue') : at(j) = at(k) => j = k
  BY <1>0, <1>1
<1> HIDE DEF at
<1>4. \A j \in 1..Len(queue') : queue'[j] \in Clients \ {c}
  BY <1>0, <1>2 DEF PoolInv, QueueSound
<1>5. \A j, k \in 1..Len(queue') : queue'[j] = queue'[k] => j = k
  BY <1>2, <1>3 DEF PoolInv, QueueSound
<1>6. \A j \in 1..Len(queue') : client'[queue'[j]].phase = "queued"
  BY <1>2, <1>4 DEF PoolInv, QueueSound
<1> QED
  BY <1>0, <1>1, <1>5, <1>6 DEF QueueSound, PoolInv

\* The count of watches covers the watches under way.
LEMMA WatchesKept ==
  ASSUME PoolInv, NEW c \in Clients, NEW role, client'[c].role = role,
         \A d \in Clients \ {c} : client'[d].role = client[d].role,
         watches' \in Nat, watches' < MaxConnections,
         \/ watches' = watches /\ (role = "watch" => client[c].role = "watch")
         \/ watches' = watches + 1
         \/ /\ watches' = IF client[c].role = "watch" /\ watches > 0 THEN watches - 1 ELSE watches
            /\ role # "watch"
  PROVE  WatchSound'
<1> DEFINE S == {d \in Clients : client[d].role = "watch"}
           T == {d \in Clients : client'[d].role = "watch"}
<1>1. /\ S \subseteq Clients /\ T \subseteq Clients /\ S \ {c} = T \ {c}
      /\ c \in S <=> client[c].role = "watch"
      /\ c \in T <=> role = "watch"
  OBVIOUS
<1>2. Cardinality(S) <= watches /\ watches \in Nat
  BY DEF PoolInv, WatchSound, PoolTypeOK
<1> HIDE DEF S, T
<1>3. IsFiniteSet(S) /\ IsFiniteSet(T)
  BY <1>1, InRange, FS_Subset DEF PoolInv
<1>4. /\ Cardinality(S) \in Nat /\ Cardinality(T) \in Nat
      /\ Cardinality(T) + Bit(c, S) = Cardinality(S) + Bit(c, T)
  BY <1>1, <1>3, CountChanged
<1>5. /\ Bit(c, S) = IF client[c].role = "watch" THEN 1 ELSE 0
      /\ Bit(c, T) = IF role = "watch" THEN 1 ELSE 0
  BY <1>1 DEF Bit
<1>6. Cardinality(T) <= watches'
  <2>1. CASE watches' = watches /\ (role = "watch" => client[c].role = "watch")
    BY <1>2, <1>4, <1>5, <2>1
  <2>2. CASE watches' = watches + 1
    BY <1>2, <1>4, <1>5, <2>2
  <2>3. CASE /\ watches' = IF client[c].role = "watch" /\ watches > 0 THEN watches - 1 ELSE watches
             /\ role # "watch"
    BY <1>2, <1>4, <1>5, <2>3
  <2> QED
    BY <2>1, <2>2, <2>3
<1> QED
  BY <1>6 DEF WatchSound, T

\* A move after which the client's generations are in order.
LEMMA GenerationsKept ==
  ASSUME PoolInv, NEW c \in Clients, generation' = generation,
         \A d \in Clients \ {c} : /\ client'[d].phase = client[d].phase
                                  /\ client'[d].asked = client[d].asked
                                  /\ client'[d].read = client[d].read
                                  /\ client'[d].made = client[d].made,
         client'[c].asked <= generation,
         client'[c].phase \in {"taking", "checking", "dialling"} => client'[c].read >= client'[c].asked,
         client'[c].phase \in {"checking", "dialling"} => client'[c].made >= client'[c].asked
  PROVE  GenerationsSound'
BY DEF PoolInv, GenerationsSound

\* A move after which nobody waits in vain, c least of all.
LEMMA NobodyLeft ==
  ASSUME PoolInv, NEW c \in Clients,
         \A d \in Clients \ {c} : /\ client'[d].phase = client[d].phase
                                  /\ client'[d].role = client[d].role
                                  /\ client[d].woken => client'[d].woken,
         workers > 0 => workers' > 0,
         client[c].phase # "waking",
         \/ client'[c].phase \notin {"forgot", "waiting"}
         \/ client'[c].role # "worker"
         \/ client'[c].woken
         \/ workers' > 0
         \/ /\ client[c].phase \in {"forgot", "waiting"} /\ client[c].role = client'[c].role
            /\ client[c].woken => client'[c].woken
  PROVE  NobodyStranded'
<1>1. ASSUME NEW d \in Clients, client'[d].phase \in {"forgot", "waiting"},
             client'[d].role = "worker", ~client'[d].woken
      PROVE  workers' > 0 \/ In({"waking"})' # {}
  <2>1. CASE workers' > 0
    BY <2>1
  <2>2. CASE ~(workers' > 0)
    <3>1. /\ client[d].phase \in {"forgot", "waiting"} /\ client[d].role = "worker"
          /\ ~client[d].woken
      BY <1>1, <2>2
    <3>2. In({"waking"}) # {}
      BY <2>2, <3>1 DEF PoolInv, NobodyStranded
    <3>3. PICK e \in Clients : client[e].phase = "waking"
      BY <3>2 DEF In
    <3>4. e # c /\ client'[e].phase = "waking"
      BY <3>3
    <3> QED
      BY <3>4 DEF In
  <2> QED
    BY <2>1, <2>2
<1> QED
  BY <1>1 DEF NobodyStranded

-------------------------------------------------------------------------------
(* The shelf *)

\* A shelf with nothing on it.
LEMMA ShelfEmptied ==
  ASSUME \A g \in Generations : parked'[g] = 0
  PROVE  IsFiniteSet(Shelved') /\ Shelf' = 0
<1>1. Shelved' = {}
  BY DEF Shelved
<1> QED
  BY <1>1, FS_EmptySet DEF Shelf

\* One is taken, and superseded ones may go.
LEMMA ShelfTaken ==
  ASSUME PoolInv, NEW g \in Generations, parked' \in [Generations -> Nat],
         parked[g] > 0, parked'[g] = parked[g] - 1,
         \A h \in Generations : parked'[h] <= parked[h]
  PROVE  IsFiniteSet(Shelved') /\ Shelf' \in Nat /\ Shelf \in Nat /\ Shelf' + 1 <= Shelf
<1> DEFINE S == Shelved
           T == Shelved'
           x == <<g, parked[g]>>
<1>0. parked \in [Generations -> Nat] /\ IsFiniteSet(S)
  BY DEF PoolInv, PoolTypeOK, PoolCounts
<1>1. \A h \in Generations : 1..parked'[h] \subseteq 1..parked[h]
  BY <1>0
<1>2. T \subseteq S
  BY <1>1 DEF Shelved
<1>3. x \in S
  <2>1. parked[g] \in 1..parked[g]
    BY <1>0
  <2> QED
    BY <2>1 DEF Shelved
<1>4. x \notin T
  <2>1. parked[g] \notin 1..parked'[g]
    BY <1>0
  <2> QED
    BY <2>1 DEF Shelved
<1> HIDE DEF S, T, x
<1>5. IsFiniteSet(T)
  BY <1>0, <1>2, FS_Subset
<1>6. Cardinality(T) \in Nat /\ Cardinality(S) \in Nat /\ Cardinality(T) + 1 <= Cardinality(S)
  BY <1>0, <1>2, <1>3, <1>4, <1>5, CountMore
<1> QED
  BY <1>5, <1>6 DEF S, T, Shelf

\* One comes back.
LEMMA ShelfGiven ==
  ASSUME PoolInv, NEW g \in Generations, parked' = [parked EXCEPT ![g] = @ + 1]
  PROVE  IsFiniteSet(Shelved') /\ Shelf' \in Nat /\ Shelf \in Nat /\ Shelf' <= Shelf + 1
<1> DEFINE S == Shelved
           T == Shelved'
           x == <<g, parked[g] + 1>>
<1>0. parked \in [Generations -> Nat] /\ IsFiniteSet(S)
  BY DEF PoolInv, PoolTypeOK, PoolCounts
<1>1. /\ parked'[g] = parked[g] + 1 /\ parked[g] \in Nat
      /\ \A h \in Generations \ {g} : parked'[h] = parked[h]
  BY <1>0
<1>2. T \subseteq S \cup {x}
  <2> SUFFICES ASSUME NEW h \in Generations, NEW n \in 1..parked'[h]
               PROVE  <<h, n>> \in S \cup {x}
    BY DEF Shelved
  <2>1. CASE h = g
    <3>1. n \in 1..parked[g] \/ n = parked[g] + 1
      BY <1>1, <2>1
    <3> QED
      BY <2>1, <3>1 DEF Shelved
  <2>2. CASE h # g
    BY <1>1, <2>2 DEF Shelved
  <2> QED
    BY <2>1, <2>2
<1> HIDE DEF S, T, x
<1>3. IsFiniteSet(S \cup {x}) /\ Cardinality(S) \in Nat /\ Cardinality(S \cup {x}) <= Cardinality(S) + 1
      /\ Cardinality(S \cup {x}) \in Nat
  <2>1. IsFiniteSet(S \cup {x}) /\ Cardinality(S) \in Nat /\ Cardinality(S \cup {x}) \in Nat
    BY <1>0, FS_AddElement, FS_CardinalityType
  <2>2. CASE x \in S
    <3>1. S \cup {x} = S
      BY <2>2
    <3>2. Cardinality(S) <= Cardinality(S) + 1
      BY <2>1
    <3> QED
      BY <2>1, <3>1, <3>2
  <2>3. CASE x \notin S
    BY <1>0, <2>1, <2>3, FS_AddElement
  <2> QED
    BY <2>1, <2>2, <2>3
<1>4. IsFiniteSet(T) /\ Cardinality(T) \in Nat /\ Cardinality(T) <= Cardinality(S \cup {x})
  BY <1>2, <1>3, FS_Subset, FS_CardinalityType
<1>5. Cardinality(T) <= Cardinality(S) + 1
  BY <1>3, <1>4
<1> QED
  BY <1>3, <1>4, <1>5 DEF S, T, Shelf

-------------------------------------------------------------------------------
(* One move *)

\* What each phase counts for.
LEMMA PhaseBits ==
  /\ \A p \in {"idle", "queued", "waiting"} :
       Bit(p, Holding) = 0 /\ Bit(p, Connected) = 0 /\ Bit(p, {"forgot"}) = 0 /\ Bit(p, Counted) = 0
  /\ \A p \in {"taking", "waking"} :
       Bit(p, Holding) = 1 /\ Bit(p, Connected) = 0 /\ Bit(p, {"forgot"}) = 0 /\ Bit(p, Counted) = 0
  /\ \A p \in {"checking", "dialling", "watching"} :
       Bit(p, Holding) = 1 /\ Bit(p, Connected) = 1 /\ Bit(p, {"forgot"}) = 0 /\ Bit(p, Counted) = 0
  /\ \A p \in {"lent", "pushing"} :
       Bit(p, Holding) = 1 /\ Bit(p, Connected) = 1 /\ Bit(p, {"forgot"}) = 0 /\ Bit(p, Counted) = 1
  /\ \A p \in {"ending"} :
       Bit(p, Holding) = 1 /\ Bit(p, Connected) = 0 /\ Bit(p, {"forgot"}) = 0 /\ Bit(p, Counted) = 1
  /\ \A p \in {"forgot"} :
       Bit(p, Holding) = 0 /\ Bit(p, Connected) = 0 /\ Bit(p, {"forgot"}) = 1 /\ Bit(p, Counted) = 0
BY DEF Bit, Holding, Connected, Counted

\* A client's move from phase p to q leaves the permits and the workers balanced.
Balanced(p, q) ==
  /\ permits' + Bit(q, Holding) + Bit(q, {"forgot"}) + ceiling
       = permits + Bit(p, Holding) + Bit(p, {"forgot"}) + ceiling'
  /\ workers' + Bit(p, Counted) = workers + Bit(q, Counted)

\* It opens a socket only where one closes, or where none rests.
Roomy(p, q) ==
  /\ IsFiniteSet(Shelved')
  /\ \/ Shelf' + Bit(q, Connected) + Bit(q, {"forgot"}) + ceiling
          <= Shelf + Bit(p, Connected) + Bit(p, {"forgot"}) + ceiling'
     \/ Shelf' = 0

\* It counts a watch that begins, and uncounts at most the one that ends.
Watched(c, role) ==
  /\ watches' < MaxConnections
  /\ \/ watches' = watches /\ (role = "watch" => client[c].role = "watch")
     \/ watches' = watches + 1
     \/ /\ watches' = IF client[c].role = "watch" /\ watches > 0 THEN watches - 1 ELSE watches
        /\ role # "watch"

Dated(q, asked, read, made) ==
  /\ asked <= generation
  /\ q \in {"taking", "checking", "dialling"} => read >= asked
  /\ q \in {"checking", "dialling"} => made >= asked

\* A move with these five properties keeps the invariant.
LEMMA MoveKeeps ==
  ASSUME PoolInv, NEW c \in Clients, NEW p, NEW q, NEW role, NEW asked, NEW read, NEW made,
         NEW woken, client[c].phase = p, Becomes(c, q, role, asked, read, made, woken),
         PoolTypeOK', QueueSound', NobodyStranded', UNCHANGED <<generation, invalidate>>,
         Balanced(p, q), Roomy(p, q), Watched(c, role), Dated(q, asked, read, made)
  PROVE  PoolInv'
<1>1. /\ permits' \in Nat /\ ceiling' \in Int /\ workers' \in Int /\ watches' \in Nat
  BY DEF PoolTypeOK
<1>2. PoolCounts'
  BY <1>1, CountsKept DEF Becomes, Balanced, Roomy
<1>3. WatchSound'
  BY <1>1, WatchesKept DEF Becomes, Watched
<1>4. GenerationsSound'
  BY GenerationsKept DEF Becomes, Dated
<1> QED
  BY <1>2, <1>3, <1>4 DEF PoolInv

\* A budget is spent one at a time.
LEMMA BudgetSpent ==
  ASSUME NEW b \in [changes : Nat, faults : Nat, drops : Nat]
  PROVE  /\ b.changes \in Nat
         /\ b.faults > 0 => /\ [b EXCEPT !.faults = @ - 1] \in [changes : Nat, faults : Nat, drops : Nat]
                            /\ [b EXCEPT !.faults = @ - 1].changes = b.changes
         /\ b.drops > 0 => /\ [b EXCEPT !.drops = @ - 1] \in [changes : Nat, faults : Nat, drops : Nat]
                           /\ [b EXCEPT !.drops = @ - 1].changes = b.changes
         /\ b.changes > 0 => /\ [b EXCEPT !.changes = @ - 1] \in [changes : Nat, faults : Nat, drops : Nat]
                             /\ [b EXCEPT !.changes = @ - 1].changes = b.changes - 1
OBVIOUS

\* No change of the network is spent.
BudgetSound ==
  /\ poolBudget' \in [changes : Nat, faults : Nat, drops : Nat]
  /\ poolBudget'.changes = poolBudget.changes

\* A failed dial or check.
LEMMA FailsSpends ==
  ASSUME PoolTypeOK, NEW c, NEW p, Fails(c, p)
  PROVE  BudgetSound /\ client[c].phase = p
BY BudgetSpent DEF PoolTypeOK, Fails, BudgetSound

\* What most moves leave alone.
LEMMA Untouched ==
  ASSUME PoolInv
  PROVE  /\ PoolTypeOK /\ watches < MaxConnections
         /\ poolBudget' = poolBudget => BudgetSound
         /\ parked' = parked => /\ Shelf' = Shelf /\ IsFiniteSet(Shelved') /\ Shelf \in Nat
         /\ permits \in Nat /\ ceiling \in Int /\ workers \in Int /\ watches \in Nat
<1>1. parked' = parked => /\ Shelf' = Shelf /\ IsFiniteSet(Shelved') /\ Shelf \in Nat
  BY ShelfKept
<1> QED
  BY <1>1 DEF PoolInv, PoolTypeOK, WatchSound, BudgetSound

\* A connection is parked in the generation it was dialled in.
LEMMA PushShelves ==
  ASSUME PoolTypeOK, NEW c \in Clients, Push(c)
  PROVE  /\ client[c].phase = "pushing" /\ Drops(c, "ending") /\ client[c].made \in Generations
         /\ parked' = [parked EXCEPT ![client[c].made] = @ + 1] /\ parked' \in [Generations -> Nat]
         /\ UNCHANGED <<permits, queue, ceiling, watches, workers, generation, invalidate, poolBudget>>
<1>1. client[c].made \in Generations
  BY InRange
<1>2. /\ client[c].phase = "pushing" /\ Drops(c, "ending")
      /\ parked' = [parked EXCEPT ![client[c].made] = @ + 1]
      /\ UNCHANGED <<permits, queue, ceiling, watches, workers, generation, invalidate, poolBudget>>
  BY DEF Push
<1>3. parked' \in [Generations -> Nat]
  <2> DEFINE g == client[c].made
  <2>1. parked' = [parked EXCEPT ![g] = parked[g] + 1] /\ g \in Generations
    BY <1>1, <1>2
  <2> HIDE DEF g
  <2>2. parked \in [Generations -> Nat] /\ parked[g] + 1 \in Nat
    BY <2>1 DEF PoolTypeOK
  <2> QED
    BY <2>1, <2>2
<1> QED
  BY <1>1, <1>2, <1>3

\* The arithmetic of the shelf.
LEMMA LessRoom ==
  ASSUME NEW s \in Nat, NEW ss \in Nat, NEW l \in Int
  PROVE  /\ ss + 1 <= s => ss + 1 + 0 + l <= s + 0 + 0 + l
         /\ ss <= s + 1 => ss + 0 + 0 + l <= s + 1 + 0 + l
OBVIOUS

\* The count of workers never falls below zero.
LEMMA WorkersCounted ==
  ASSUME PoolInv
  PROVE  workers \in Nat
<1>1. In(Counted) \subseteq Clients
  BY DEF In
<1> QED
  BY <1>1, InRange, FS_Subset, FS_CardinalityType DEF PoolInv, PoolCounts

\* A caller gives up while a socket is its own.
LEMMA GiveUpKeeps ==
  ASSUME PoolInv, NEW c \in Clients, GiveUp(c),
         client[c].phase \in {"checking", "dialling", "watching"}, BudgetSound,
         UNCHANGED <<queue, ceiling, workers, parked, generation, invalidate>>
  PROVE  PoolInv'
<1> DEFINE p == client[c].phase
<1>0. /\ PoolTypeOK /\ watches < MaxConnections
      /\ Shelf' = Shelf /\ IsFiniteSet(Shelved') /\ Shelf \in Nat
      /\ permits \in Nat /\ ceiling \in Int /\ workers \in Int /\ watches \in Nat
  BY Untouched
<1>1. Becomes(c, "idle", "worker", 0, 0, 0, FALSE) /\ permits' = permits + 1
  BY <1>0, EndsBecomes DEF GiveUp
<1>2. watches' = IF client[c].role = "watch" /\ watches > 0 THEN watches - 1 ELSE watches
  BY DEF GiveUp
<1>3. PoolTypeOK'
  BY <1>0, <1>1, <1>2 DEF PoolTypeOK, Becomes, BudgetSound
<1>4. QueueSound'
  BY <1>1, QueueKept DEF Becomes
<1>5. Bit(p, Holding) = 1 /\ Bit(p, Connected) = 1 /\ Bit(p, {"forgot"}) = 0 /\ Bit(p, Counted) = 0
  BY PhaseBits
<1>6. Balanced(p, "idle")
  <2>1. /\ permits' + 0 + 0 + ceiling = permits + 1 + 0 + ceiling'
        /\ workers' + 0 = workers + 0
    BY <1>0, <1>1
  <2> QED
    BY <1>5, <2>1, PhaseBits DEF Balanced
<1>7. Roomy(p, "idle")
  <2>1. Shelf' + 0 + 0 + ceiling <= Shelf + 1 + 0 + ceiling'
    BY <1>0
  <2> QED
    BY <1>0, <1>5, <2>1, PhaseBits DEF Roomy
<1>8. NobodyStranded'
  BY <1>0, <1>1, NobodyLeft DEF Becomes
<1>9. watches' < MaxConnections
  BY <1>0, <1>2, InRange
<1> HIDE DEF p
<1>10. client[c].phase = p
  BY DEF p
<1>11. Watched(c, "worker") /\ Dated("idle", 0, 0, 0)
  <2>1. 0 <= generation
    BY <1>0, InRange
  <2> QED
    BY <1>2, <1>9, <2>1 DEF Watched, Dated
<1> QED
  BY <1>1, <1>3, <1>4, <1>6, <1>7, <1>8, <1>10, <1>11, MoveKeeps

\* No step of a client breaks the invariant.
LEMMA ClientKeeps ==
  ASSUME PoolInv, NEW c \in Clients,
         \/ Acquire(c) \/ ReserveWatch(c) \/ EndWatch(c) \/ Drop(c) \/ PoolStep(c)
         \/ \E pass \in Clients : TryAcquire(c, pass)
  PROVE  PoolInv'
<1>0. /\ PoolTypeOK /\ watches < MaxConnections
      /\ poolBudget' = poolBudget => BudgetSound
      /\ parked' = parked => /\ Shelf' = Shelf /\ IsFiniteSet(Shelved') /\ Shelf \in Nat
      /\ permits \in Nat /\ ceiling \in Int /\ workers \in Int /\ watches \in Nat
      /\ client[c].asked <= generation
      /\ client[c].phase \in {"taking", "checking", "dialling"} => client[c].read >= client[c].asked
      /\ client[c].phase \in {"checking", "dialling"} => client[c].made >= client[c].asked
      /\ generation \in Nat /\ 0 <= generation /\ generation <= generation /\ 0 <= 0
      /\ generation >= generation
  <2>1. /\ PoolTypeOK /\ watches < MaxConnections
        /\ poolBudget' = poolBudget => BudgetSound
        /\ parked' = parked => /\ Shelf' = Shelf /\ IsFiniteSet(Shelved') /\ Shelf \in Nat
        /\ permits \in Nat /\ ceiling \in Int /\ workers \in Int /\ watches \in Nat
    BY Untouched
  <2>2. /\ client[c].asked <= generation
        /\ client[c].phase \in {"taking", "checking", "dialling"} => client[c].read >= client[c].asked
        /\ client[c].phase \in {"checking", "dialling"} => client[c].made >= client[c].asked
    BY DEF PoolInv, GenerationsSound
  <2>3. generation \in Nat /\ 0 <= generation /\ generation <= generation /\ generation >= generation
    BY <2>1, InRange
  <2> QED
    BY <2>1, <2>2, <2>3
<1>1. ASSUME Acquire(c)
     PROVE  PoolInv'
  <2>0. /\ client[c].phase = "idle" /\ queue' = Append(queue, c) /\ Calls(c, "worker", c, "queued")
        /\ UNCHANGED <<permits, ceiling, watches, workers, parked, generation, invalidate, poolBudget>>
    BY <1>1 DEF Acquire
  <2>1. Becomes(c, "queued", "worker", generation, 0, 0, FALSE)
    BY <1>0, <2>0, <1>1, CallsBecomes
  <2>2. QueueSound' /\ queue' \in Seq(Clients)
    BY <1>0, <2>0, <2>1, QueueJoined DEF Becomes
  <2>3. PoolTypeOK'
    <3>1. /\ permits' \in Nat /\ workers' \in Int /\ watches' \in Nat
          /\ ceiling' \in Int /\ ceiling' <= MaxConnections
      BY <1>0, <2>0, InRange DEF PoolTypeOK
    <3> QED
      BY <1>0, <2>0, <2>1, <2>2, <3>1 DEF PoolTypeOK, Becomes, BudgetSound
  <2>4. Balanced("idle", "queued")
    <3>1. /\ permits' + 0 + 0 + ceiling = permits + 0 + 0 + ceiling'
          /\ workers' + 0 = workers + 0
      BY <1>0, <2>0
    <3> QED
      BY <3>1, PhaseBits DEF Balanced
  <2>5. Roomy("idle", "queued")
    <3>1. Shelf' = Shelf /\ IsFiniteSet(Shelved') /\ Shelf \in Nat
      BY <1>0, <2>0
    <3>2. Shelf' + 0 + 0 + ceiling <= Shelf + 0 + 0 + ceiling'
      BY <1>0, <2>0, <3>1
    <3> QED
      BY <3>1, <3>2, PhaseBits DEF Roomy
  <2>6. NobodyStranded'
    BY <1>0, <2>0, <2>1, NobodyLeft DEF Becomes
  <2>7. Watched(c, "worker") /\ Dated("queued", generation, 0, 0)
    BY <1>0, <2>0, InRange DEF Watched, Dated
  <2> QED
    BY <2>0, <2>1, <2>2, <2>3, <2>4, <2>5, <2>6, <2>7, MoveKeeps
<1>2. ASSUME ReserveWatch(c)
     PROVE  PoolInv'
  <2>0. /\ client[c].phase = "idle" /\ queue' = Append(queue, c) /\ Calls(c, "watch", c, "queued")
        /\ watches' = watches + 1 /\ watches + 1 < ceiling
        /\ UNCHANGED <<permits, ceiling, workers, parked, generation, invalidate, poolBudget>>
    BY <1>2 DEF ReserveWatch, MayReserve, MinWorkerConnections
  <2>1. Becomes(c, "queued", "watch", generation, 0, 0, FALSE)
    BY <1>0, <2>0, <1>2, CallsBecomes
  <2>2. QueueSound' /\ queue' \in Seq(Clients)
    BY <1>0, <2>0, <2>1, QueueJoined DEF Becomes
  <2>3. PoolTypeOK'
    <3>1. /\ permits' \in Nat /\ workers' \in Int /\ watches' \in Nat
          /\ ceiling' \in Int /\ ceiling' <= MaxConnections
      BY <1>0, <2>0, InRange DEF PoolTypeOK
    <3> QED
      BY <1>0, <2>0, <2>1, <2>2, <3>1 DEF PoolTypeOK, Becomes, BudgetSound
  <2>4. Balanced("idle", "queued")
    <3>1. /\ permits' + 0 + 0 + ceiling = permits + 0 + 0 + ceiling'
          /\ workers' + 0 = workers + 0
      BY <1>0, <2>0
    <3> QED
      BY <3>1, PhaseBits DEF Balanced
  <2>5. Roomy("idle", "queued")
    <3>1. Shelf' = Shelf /\ IsFiniteSet(Shelved') /\ Shelf \in Nat
      BY <1>0, <2>0
    <3>2. Shelf' + 0 + 0 + ceiling <= Shelf + 0 + 0 + ceiling'
      BY <1>0, <2>0, <3>1
    <3> QED
      BY <3>1, <3>2, PhaseBits DEF Roomy
  <2>6. NobodyStranded'
    BY <1>0, <2>0, <2>1, NobodyLeft DEF Becomes
  <2>7. Watched(c, "watch") /\ Dated("queued", generation, 0, 0)
    BY <1>0, <2>0, InRange DEF Watched, Dated, PoolTypeOK
  <2> QED
    BY <2>0, <2>1, <2>2, <2>3, <2>4, <2>5, <2>6, <2>7, MoveKeeps
<1>3. ASSUME NEW pass \in Clients, TryAcquire(c, pass)
     PROVE  PoolInv'
  <2>0. /\ client[c].phase = "idle" /\ permits' = permits - 1 /\ permits > Len(queue) /\ Len(queue) \in Nat
        /\ Calls(c, "spare", pass, "taking")
        /\ UNCHANGED <<queue, ceiling, watches, workers, parked, generation, invalidate, poolBudget>>
    BY <1>3, <1>0 DEF TryAcquire, PoolTypeOK
  <2>1. Becomes(c, "taking", "spare", generation, generation, 0, FALSE)
    BY <1>0, <2>0, <1>3, CallsBecomes
  <2>2. QueueSound' /\ queue' \in Seq(Clients)
    BY <1>0, <2>0, <2>1, QueueKept DEF Becomes, PoolTypeOK
  <2>3. PoolTypeOK'
    <3>1. /\ permits' \in Nat /\ workers' \in Int /\ watches' \in Nat
          /\ ceiling' \in Int /\ ceiling' <= MaxConnections
      BY <1>0, <2>0, InRange DEF PoolTypeOK
    <3> QED
      BY <1>0, <2>0, <2>1, <2>2, <3>1 DEF PoolTypeOK, Becomes, BudgetSound
  <2>4. Balanced("idle", "taking")
    <3>1. /\ permits' + 1 + 0 + ceiling = permits + 0 + 0 + ceiling'
          /\ workers' + 0 = workers + 0
      BY <1>0, <2>0
    <3> QED
      BY <3>1, PhaseBits DEF Balanced
  <2>5. Roomy("idle", "taking")
    <3>1. Shelf' = Shelf /\ IsFiniteSet(Shelved') /\ Shelf \in Nat
      BY <1>0, <2>0
    <3>2. Shelf' + 0 + 0 + ceiling <= Shelf + 0 + 0 + ceiling'
      BY <1>0, <2>0, <3>1
    <3> QED
      BY <3>1, <3>2, PhaseBits DEF Roomy
  <2>6. NobodyStranded'
    BY <1>0, <2>0, <2>1, NobodyLeft DEF Becomes
  <2>7. Watched(c, "spare") /\ Dated("taking", generation, generation, 0)
    BY <1>0, <2>0, InRange DEF Watched, Dated
  <2> QED
    BY <2>0, <2>1, <2>2, <2>3, <2>4, <2>5, <2>6, <2>7, MoveKeeps
<1>4. ASSUME TakePermit(c)
     PROVE  PoolInv'
  <2>0. /\ client[c].phase = "queued" /\ permits' = permits - 1
        /\ \E i \in 1..Len(queue) : LeavesQueue(c, i) /\ i <= permits
        /\ UNCHANGED <<ceiling, watches, workers, parked, generation, invalidate, poolBudget>>
    BY <1>4 DEF TakePermit, LeavesQueue, PoolInv, QueueSound
  <2>1. Becomes(c, "taking", client[c].role, client[c].asked, generation, client[c].made, client[c].woken)
    BY <1>0, <2>0, <1>4, PermitBecomes
  <2>2. QueueSound' /\ queue' \in Seq(Clients)
    BY <1>0, <2>0, <2>1, QueueLeft DEF Becomes
  <2>3. PoolTypeOK'
    <3>1. /\ permits' \in Nat /\ workers' \in Int /\ watches' \in Nat
          /\ ceiling' \in Int /\ ceiling' <= MaxConnections
      BY <1>0, <2>0, InRange DEF PoolTypeOK
    <3> QED
      BY <1>0, <2>0, <2>1, <2>2, <3>1 DEF PoolTypeOK, Becomes, BudgetSound
  <2>4. Balanced("queued", "taking")
    <3>1. /\ permits' + 1 + 0 + ceiling = permits + 0 + 0 + ceiling'
          /\ workers' + 0 = workers + 0
      BY <1>0, <2>0
    <3> QED
      BY <3>1, PhaseBits DEF Balanced
  <2>5. Roomy("queued", "taking")
    <3>1. Shelf' = Shelf /\ IsFiniteSet(Shelved') /\ Shelf \in Nat
      BY <1>0, <2>0
    <3>2. Shelf' + 0 + 0 + ceiling <= Shelf + 0 + 0 + ceiling'
      BY <1>0, <2>0, <3>1
    <3> QED
      BY <3>1, <3>2, PhaseBits DEF Roomy
  <2>6. NobodyStranded'
    BY <1>0, <2>0, <2>1, NobodyLeft DEF Becomes
  <2>7. Watched(c, client[c].role) /\ Dated("taking", client[c].asked, generation, client[c].made)
    BY <1>0, <2>0, InRange DEF Watched, Dated
  <2> QED
    BY <2>0, <2>1, <2>2, <2>3, <2>4, <2>5, <2>6, <2>7, MoveKeeps
<1>5. ASSUME TakeParked(c) PROVE PoolInv'
  <2> DEFINE usable == Usable(parked, client[c].read)
  <2>1. /\ client[c].phase = "taking" /\ client[c].read \in Generations
        /\ UNCHANGED <<permits, queue, ceiling, watches, workers, generation, invalidate, poolBudget>>
    BY <1>0, <1>5, InRange DEF TakeParked
  <2>2. /\ usable \in [Generations -> Nat]
        /\ \A g \in Generations : usable[g] = IF g >= client[c].read THEN parked[g] ELSE 0
        /\ \A g \in Generations : parked[g] \in Nat
    BY <1>0 DEF Usable, PoolTypeOK
  <2>3. \/ /\ \A g \in Generations : ~(usable[g] > 0)
           /\ parked' = usable
           /\ client' = [client EXCEPT ![c] = [@ EXCEPT !.phase = "dialling", !.made = client[c].read]]
        \/ \E g \in Generations :
             /\ usable[g] > 0 /\ parked' = [usable EXCEPT ![g] = @ - 1]
             /\ client' = [client EXCEPT ![c] = [@ EXCEPT !.phase = "checking", !.made = g]]
    BY <1>5 DEF TakeParked, FromShelf
  <2> HIDE DEF usable
<2>4. ASSUME \A g \in Generations : ~(usable[g] > 0), parked' = usable,
              client' = [client EXCEPT ![c] = [@ EXCEPT !.phase = "dialling", !.made = client[c].read]]
       PROVE  PoolInv'
    <3>0. /\ client[c].phase = "taking" /\ parked' \in [Generations -> Nat]
          /\ \A g \in Generations : parked'[g] = 0
          /\ UNCHANGED <<permits, queue, ceiling, watches, workers, generation, invalidate, poolBudget>>
      BY <2>4, <2>1, <2>2
    <3>1. Becomes(c, "dialling", client[c].role, client[c].asked, client[c].read, client[c].read, client[c].woken)
      BY <1>0, <3>0, <2>4, <2>1, ParkedBecomes DEF Phases
    <3>2. QueueSound' /\ queue' \in Seq(Clients)
      BY <1>0, <3>0, <3>1, QueueKept DEF Becomes, PoolTypeOK
    <3>3. PoolTypeOK'
      <4>1. /\ permits' \in Nat /\ workers' \in Int /\ watches' \in Nat
            /\ ceiling' \in Int /\ ceiling' <= MaxConnections
        BY <1>0, <3>0, InRange DEF PoolTypeOK
      <4> QED
        BY <1>0, <3>0, <3>1, <3>2, <4>1 DEF PoolTypeOK, Becomes, BudgetSound
    <3>4. Balanced("taking", "dialling")
      <4>1. /\ permits' + 1 + 0 + ceiling = permits + 1 + 0 + ceiling'
            /\ workers' + 0 = workers + 0
        BY <1>0, <3>0
      <4> QED
        BY <4>1, PhaseBits DEF Balanced
    <3>5. Roomy("taking", "dialling")
      BY <3>0, ShelfEmptied DEF Roomy
    <3>6. NobodyStranded'
      BY <1>0, <3>0, <3>1, NobodyLeft DEF Becomes
    <3>7. Watched(c, client[c].role) /\ Dated("dialling", client[c].asked, client[c].read, client[c].read)
      BY <1>0, <3>0, InRange DEF Watched, Dated
    <3> QED
      BY <3>0, <3>1, <3>2, <3>3, <3>4, <3>5, <3>6, <3>7, MoveKeeps
<2>5. ASSUME NEW g \in Generations, usable[g] > 0, parked' = [usable EXCEPT ![g] = @ - 1],
              client' = [client EXCEPT ![c] = [@ EXCEPT !.phase = "checking", !.made = g]]
       PROVE  PoolInv'
    <3>0. /\ client[c].phase = "taking" /\ parked' \in [Generations -> Nat] /\ g >= client[c].read
          /\ parked[g] > 0 /\ parked'[g] = parked[g] - 1 /\ \A h \in Generations : parked'[h] <= parked[h]
          /\ UNCHANGED <<permits, queue, ceiling, watches, workers, generation, invalidate, poolBudget>>
      BY <2>5, <2>1, <2>2
    <3>1. Becomes(c, "checking", client[c].role, client[c].asked, client[c].read, g, client[c].woken)
      BY <1>0, <3>0, <2>5, <2>1, ParkedBecomes DEF Phases
    <3>2. QueueSound' /\ queue' \in Seq(Clients)
      BY <1>0, <3>0, <3>1, QueueKept DEF Becomes, PoolTypeOK
    <3>3. PoolTypeOK'
      <4>1. /\ permits' \in Nat /\ workers' \in Int /\ watches' \in Nat
            /\ ceiling' \in Int /\ ceiling' <= MaxConnections
        BY <1>0, <3>0, InRange DEF PoolTypeOK
      <4> QED
        BY <1>0, <3>0, <3>1, <3>2, <4>1 DEF PoolTypeOK, Becomes, BudgetSound
    <3>4. Balanced("taking", "checking")
      <4>1. /\ permits' + 1 + 0 + ceiling = permits + 1 + 0 + ceiling'
            /\ workers' + 0 = workers + 0
        BY <1>0, <3>0
      <4> QED
        BY <4>1, PhaseBits DEF Balanced
    <3>5. Roomy("taking", "checking")
      <4>1. Shelf' + 1 <= Shelf /\ IsFiniteSet(Shelved') /\ Shelf \in Nat /\ Shelf' \in Nat
        BY <3>0, ShelfTaken
      <4>2. Shelf' + 1 + 0 + ceiling <= Shelf + 0 + 0 + ceiling'
        BY <1>0, <3>0, <4>1, LessRoom
      <4> QED
        BY <4>1, <4>2, PhaseBits DEF Roomy
    <3>6. NobodyStranded'
      BY <1>0, <3>0, <3>1, NobodyLeft DEF Becomes
    <3>7. Watched(c, client[c].role) /\ Dated("checking", client[c].asked, client[c].read, g)
      BY <1>0, <3>0, InRange DEF Watched, Dated
    <3> QED
      BY <3>0, <3>1, <3>2, <3>3, <3>4, <3>5, <3>6, <3>7, MoveKeeps
  <2> QED
    BY <2>3, <2>4, <2>5
<1>6. ASSUME Connect(c) PROVE PoolInv'
<2>1. ASSUME client[c].phase = "checking", client[c].role = "watch"
       PROVE  PoolInv'
    <3>0. /\ client[c].phase = "checking" /\ workers' = workers
          /\ UNCHANGED <<permits, queue, ceiling, watches, parked, generation, invalidate, poolBudget>>
      BY <2>1, <1>6 DEF Connect
    <3>1. Becomes(c, "watching", client[c].role, 0, 0, 0, FALSE)
      BY <1>0, <3>0, <2>1, <1>6, ConnectBecomes
    <3>2. QueueSound' /\ queue' \in Seq(Clients)
      BY <1>0, <3>0, <3>1, QueueKept DEF Becomes, PoolTypeOK
    <3>3. PoolTypeOK'
      <4>1. /\ permits' \in Nat /\ workers' \in Int /\ watches' \in Nat
            /\ ceiling' \in Int /\ ceiling' <= MaxConnections
        BY <1>0, <3>0, InRange DEF PoolTypeOK
      <4> QED
        BY <1>0, <3>0, <3>1, <3>2, <4>1 DEF PoolTypeOK, Becomes, BudgetSound
    <3>4. Balanced("checking", "watching")
      <4>1. /\ permits' + 1 + 0 + ceiling = permits + 1 + 0 + ceiling'
            /\ workers' + 0 = workers + 0
        BY <1>0, <3>0
      <4> QED
        BY <4>1, PhaseBits DEF Balanced
    <3>5. Roomy("checking", "watching")
      <4>1. Shelf' = Shelf /\ IsFiniteSet(Shelved') /\ Shelf \in Nat
        BY <1>0, <3>0
      <4>2. Shelf' + 1 + 0 + ceiling <= Shelf + 1 + 0 + ceiling'
        BY <1>0, <3>0, <4>1
      <4> QED
        BY <4>1, <4>2, PhaseBits DEF Roomy
    <3>6. NobodyStranded'
      BY <1>0, <3>0, <3>1, NobodyLeft DEF Becomes
    <3>7. Watched(c, client[c].role) /\ Dated("watching", 0, 0, 0)
      BY <1>0, <3>0, InRange DEF Watched, Dated
    <3> QED
      BY <3>0, <3>1, <3>2, <3>3, <3>4, <3>5, <3>6, <3>7, MoveKeeps
<2>2. ASSUME client[c].phase = "checking", client[c].role # "watch"
       PROVE  PoolInv'
    <3>0. /\ client[c].phase = "checking" /\ workers' = workers + 1
          /\ UNCHANGED <<permits, queue, ceiling, watches, parked, generation, invalidate, poolBudget>>
      BY <2>2, <1>6 DEF Connect
    <3>1. Becomes(c, "lent", client[c].role, 0, 0, client[c].made, FALSE)
      BY <1>0, <3>0, <2>2, <1>6, ConnectBecomes
    <3>2. QueueSound' /\ queue' \in Seq(Clients)
      BY <1>0, <3>0, <3>1, QueueKept DEF Becomes, PoolTypeOK
    <3>3. PoolTypeOK'
      <4>1. /\ permits' \in Nat /\ workers' \in Int /\ watches' \in Nat
            /\ ceiling' \in Int /\ ceiling' <= MaxConnections
        BY <1>0, <3>0, InRange DEF PoolTypeOK
      <4> QED
        BY <1>0, <3>0, <3>1, <3>2, <4>1 DEF PoolTypeOK, Becomes, BudgetSound
    <3>4. Balanced("checking", "lent")
      <4>1. /\ permits' + 1 + 0 + ceiling = permits + 1 + 0 + ceiling'
            /\ workers' + 0 = workers + 1
        BY <1>0, <3>0
      <4> QED
        BY <4>1, PhaseBits DEF Balanced
    <3>5. Roomy("checking", "lent")
      <4>1. Shelf' = Shelf /\ IsFiniteSet(Shelved') /\ Shelf \in Nat
        BY <1>0, <3>0
      <4>2. Shelf' + 1 + 0 + ceiling <= Shelf + 1 + 0 + ceiling'
        BY <1>0, <3>0, <4>1
      <4> QED
        BY <4>1, <4>2, PhaseBits DEF Roomy
    <3>6. NobodyStranded'
      BY <1>0, <3>0, <3>1, NobodyLeft DEF Becomes
    <3>7. Watched(c, client[c].role) /\ Dated("lent", 0, 0, client[c].made)
      BY <1>0, <3>0, InRange DEF Watched, Dated
    <3> QED
      BY <3>0, <3>1, <3>2, <3>3, <3>4, <3>5, <3>6, <3>7, MoveKeeps
<2>3. ASSUME client[c].phase = "dialling", client[c].role = "watch"
       PROVE  PoolInv'
    <3>0. /\ client[c].phase = "dialling" /\ workers' = workers
          /\ UNCHANGED <<permits, queue, ceiling, watches, parked, generation, invalidate, poolBudget>>
      BY <2>3, <1>6 DEF Connect
    <3>1. Becomes(c, "watching", client[c].role, 0, 0, 0, FALSE)
      BY <1>0, <3>0, <2>3, <1>6, ConnectBecomes
    <3>2. QueueSound' /\ queue' \in Seq(Clients)
      BY <1>0, <3>0, <3>1, QueueKept DEF Becomes, PoolTypeOK
    <3>3. PoolTypeOK'
      <4>1. /\ permits' \in Nat /\ workers' \in Int /\ watches' \in Nat
            /\ ceiling' \in Int /\ ceiling' <= MaxConnections
        BY <1>0, <3>0, InRange DEF PoolTypeOK
      <4> QED
        BY <1>0, <3>0, <3>1, <3>2, <4>1 DEF PoolTypeOK, Becomes, BudgetSound
    <3>4. Balanced("dialling", "watching")
      <4>1. /\ permits' + 1 + 0 + ceiling = permits + 1 + 0 + ceiling'
            /\ workers' + 0 = workers + 0
        BY <1>0, <3>0
      <4> QED
        BY <4>1, PhaseBits DEF Balanced
    <3>5. Roomy("dialling", "watching")
      <4>1. Shelf' = Shelf /\ IsFiniteSet(Shelved') /\ Shelf \in Nat
        BY <1>0, <3>0
      <4>2. Shelf' + 1 + 0 + ceiling <= Shelf + 1 + 0 + ceiling'
        BY <1>0, <3>0, <4>1
      <4> QED
        BY <4>1, <4>2, PhaseBits DEF Roomy
    <3>6. NobodyStranded'
      BY <1>0, <3>0, <3>1, NobodyLeft DEF Becomes
    <3>7. Watched(c, client[c].role) /\ Dated("watching", 0, 0, 0)
      BY <1>0, <3>0, InRange DEF Watched, Dated
    <3> QED
      BY <3>0, <3>1, <3>2, <3>3, <3>4, <3>5, <3>6, <3>7, MoveKeeps
<2>4. ASSUME client[c].phase = "dialling", client[c].role # "watch"
       PROVE  PoolInv'
    <3>0. /\ client[c].phase = "dialling" /\ workers' = workers + 1
          /\ UNCHANGED <<permits, queue, ceiling, watches, parked, generation, invalidate, poolBudget>>
      BY <2>4, <1>6 DEF Connect
    <3>1. Becomes(c, "lent", client[c].role, 0, 0, client[c].made, FALSE)
      BY <1>0, <3>0, <2>4, <1>6, ConnectBecomes
    <3>2. QueueSound' /\ queue' \in Seq(Clients)
      BY <1>0, <3>0, <3>1, QueueKept DEF Becomes, PoolTypeOK
    <3>3. PoolTypeOK'
      <4>1. /\ permits' \in Nat /\ workers' \in Int /\ watches' \in Nat
            /\ ceiling' \in Int /\ ceiling' <= MaxConnections
        BY <1>0, <3>0, InRange DEF PoolTypeOK
      <4> QED
        BY <1>0, <3>0, <3>1, <3>2, <4>1 DEF PoolTypeOK, Becomes, BudgetSound
    <3>4. Balanced("dialling", "lent")
      <4>1. /\ permits' + 1 + 0 + ceiling = permits + 1 + 0 + ceiling'
            /\ workers' + 0 = workers + 1
        BY <1>0, <3>0
      <4> QED
        BY <4>1, PhaseBits DEF Balanced
    <3>5. Roomy("dialling", "lent")
      <4>1. Shelf' = Shelf /\ IsFiniteSet(Shelved') /\ Shelf \in Nat
        BY <1>0, <3>0
      <4>2. Shelf' + 1 + 0 + ceiling <= Shelf + 1 + 0 + ceiling'
        BY <1>0, <3>0, <4>1
      <4> QED
        BY <4>1, <4>2, PhaseBits DEF Roomy
    <3>6. NobodyStranded'
      BY <1>0, <3>0, <3>1, NobodyLeft DEF Becomes
    <3>7. Watched(c, client[c].role) /\ Dated("lent", 0, 0, client[c].made)
      BY <1>0, <3>0, InRange DEF Watched, Dated
    <3> QED
      BY <3>0, <3>1, <3>2, <3>3, <3>4, <3>5, <3>6, <3>7, MoveKeeps
  <2> QED
    BY <1>6, <2>1, <2>2, <2>3, <2>4 DEF Connect
<1>7. ASSUME CheckFails(c)
     PROVE  PoolInv'
  <2>0. /\ client[c].phase = "checking" /\ BudgetSound /\ Moves(c, "taking")
        /\ UNCHANGED <<permits, queue, ceiling, watches, workers, parked, generation, invalidate>>
    BY <1>7, <1>0, FailsSpends DEF CheckFails
  <2>1. Becomes(c, "taking", client[c].role, client[c].asked, client[c].read, client[c].made, client[c].woken)
    BY <1>0, <2>0, <1>7, MovesBecomes DEF Phases
  <2>2. QueueSound' /\ queue' \in Seq(Clients)
    BY <1>0, <2>0, <2>1, QueueKept DEF Becomes, PoolTypeOK
  <2>3. PoolTypeOK'
    <3>1. /\ permits' \in Nat /\ workers' \in Int /\ watches' \in Nat
          /\ ceiling' \in Int /\ ceiling' <= MaxConnections
      BY <1>0, <2>0, InRange DEF PoolTypeOK
    <3> QED
      BY <1>0, <2>0, <2>1, <2>2, <3>1 DEF PoolTypeOK, Becomes, BudgetSound
  <2>4. Balanced("checking", "taking")
    <3>1. /\ permits' + 1 + 0 + ceiling = permits + 1 + 0 + ceiling'
          /\ workers' + 0 = workers + 0
      BY <1>0, <2>0
    <3> QED
      BY <3>1, PhaseBits DEF Balanced
  <2>5. Roomy("checking", "taking")
    <3>1. Shelf' = Shelf /\ IsFiniteSet(Shelved') /\ Shelf \in Nat
      BY <1>0, <2>0
    <3>2. Shelf' + 0 + 0 + ceiling <= Shelf + 1 + 0 + ceiling'
      BY <1>0, <2>0, <3>1
    <3> QED
      BY <3>1, <3>2, PhaseBits DEF Roomy
  <2>6. NobodyStranded'
    BY <1>0, <2>0, <2>1, NobodyLeft DEF Becomes
  <2>7. Watched(c, client[c].role) /\ Dated("taking", client[c].asked, client[c].read, client[c].made)
    BY <1>0, <2>0, InRange DEF Watched, Dated
  <2> QED
    BY <2>0, <2>1, <2>2, <2>3, <2>4, <2>5, <2>6, <2>7, MoveKeeps
<1>8. ASSUME DialBreaks(c) PROVE PoolInv'
  <2>1. /\ BudgetSound /\ client[c].phase = "dialling"
        /\ UNCHANGED <<queue, ceiling, workers, parked, generation, invalidate>>
    BY <1>0, <1>8, FailsSpends DEF DialBreaks
  <2>2. CASE GiveUp(c)
    BY <2>1, <2>2, GiveUpKeeps
<2>3. ASSUME client[c].role = "worker", ~FailsAlone(c), Drops(c, "waiting"), permits' = permits + 1, UNCHANGED watches
       PROVE  PoolInv'
    <3>0. /\ client[c].phase = "dialling" /\ BudgetSound /\ workers > 0 /\ permits' = permits + 1
          /\ UNCHANGED <<queue, ceiling, watches, workers, parked, generation, invalidate>>
      BY <2>3, <1>0, <2>1, WorkersCounted DEF FailsAlone
    <3>1. Becomes(c, "waiting", client[c].role, client[c].asked, 0, 0, client[c].woken)
      BY <1>0, <3>0, <2>3, DropsBecomes DEF Phases
    <3>2. QueueSound' /\ queue' \in Seq(Clients)
      BY <1>0, <3>0, <3>1, QueueKept DEF Becomes, PoolTypeOK
    <3>3. PoolTypeOK'
      <4>1. /\ permits' \in Nat /\ workers' \in Int /\ watches' \in Nat
            /\ ceiling' \in Int /\ ceiling' <= MaxConnections
        BY <1>0, <3>0, InRange DEF PoolTypeOK
      <4> QED
        BY <1>0, <3>0, <3>1, <3>2, <4>1 DEF PoolTypeOK, Becomes, BudgetSound
    <3>4. Balanced("dialling", "waiting")
      <4>1. /\ permits' + 0 + 0 + ceiling = permits + 1 + 0 + ceiling'
            /\ workers' + 0 = workers + 0
        BY <1>0, <3>0
      <4> QED
        BY <4>1, PhaseBits DEF Balanced
    <3>5. Roomy("dialling", "waiting")
      <4>1. Shelf' = Shelf /\ IsFiniteSet(Shelved') /\ Shelf \in Nat
        BY <1>0, <3>0
      <4>2. Shelf' + 0 + 0 + ceiling <= Shelf + 1 + 0 + ceiling'
        BY <1>0, <3>0, <4>1
      <4> QED
        BY <4>1, <4>2, PhaseBits DEF Roomy
    <3>6. NobodyStranded'
      BY <1>0, <3>0, <3>1, NobodyLeft DEF Becomes
    <3>7. Watched(c, client[c].role) /\ Dated("waiting", client[c].asked, 0, 0)
      BY <1>0, <3>0, InRange DEF Watched, Dated
    <3> QED
      BY <3>0, <3>1, <3>2, <3>3, <3>4, <3>5, <3>6, <3>7, MoveKeeps
  <2> QED
    BY <1>8, <2>2, <2>3 DEF DialBreaks
<1>9. ASSUME DialRefused(c) PROVE PoolInv'
  <2>1. /\ BudgetSound /\ client[c].phase = "dialling"
        /\ UNCHANGED <<queue, ceiling, workers, parked, generation, invalidate>>
    BY <1>0, <1>9, FailsSpends DEF DialRefused
  <2>2. CASE GiveUp(c)
    BY <2>1, <2>2, GiveUpKeeps
<2>3. ASSUME client[c].role # "watch", ~FailsAlone(c), Drops(c, "forgot"), UNCHANGED <<permits, watches>>
       PROVE  PoolInv'
    <3>0. /\ client[c].phase = "dialling" /\ BudgetSound /\ (client[c].role = "worker" => workers > 0)
          /\ UNCHANGED <<permits, queue, ceiling, watches, workers, parked, generation, invalidate>>
      BY <2>3, <1>0, <2>1, WorkersCounted DEF FailsAlone
    <3>1. Becomes(c, "forgot", client[c].role, client[c].asked, 0, 0, client[c].woken)
      BY <1>0, <3>0, <2>3, DropsBecomes DEF Phases
    <3>2. QueueSound' /\ queue' \in Seq(Clients)
      BY <1>0, <3>0, <3>1, QueueKept DEF Becomes, PoolTypeOK
    <3>3. PoolTypeOK'
      <4>1. /\ permits' \in Nat /\ workers' \in Int /\ watches' \in Nat
            /\ ceiling' \in Int /\ ceiling' <= MaxConnections
        BY <1>0, <3>0, InRange DEF PoolTypeOK
      <4> QED
        BY <1>0, <3>0, <3>1, <3>2, <4>1 DEF PoolTypeOK, Becomes, BudgetSound
    <3>4. Balanced("dialling", "forgot")
      <4>1. /\ permits' + 0 + 1 + ceiling = permits + 1 + 0 + ceiling'
            /\ workers' + 0 = workers + 0
        BY <1>0, <3>0
      <4> QED
        BY <4>1, PhaseBits DEF Balanced
    <3>5. Roomy("dialling", "forgot")
      <4>1. Shelf' = Shelf /\ IsFiniteSet(Shelved') /\ Shelf \in Nat
        BY <1>0, <3>0
      <4>2. Shelf' + 0 + 1 + ceiling <= Shelf + 1 + 0 + ceiling'
        BY <1>0, <3>0, <4>1
      <4> QED
        BY <4>1, <4>2, PhaseBits DEF Roomy
    <3>6. NobodyStranded'
      BY <1>0, <3>0, <3>1, NobodyLeft DEF Becomes
    <3>7. Watched(c, client[c].role) /\ Dated("forgot", client[c].asked, 0, 0)
      BY <1>0, <3>0, InRange DEF Watched, Dated
    <3> QED
      BY <3>0, <3>1, <3>2, <3>3, <3>4, <3>5, <3>6, <3>7, MoveKeeps
  <2> QED
    BY <1>9, <2>2, <2>3 DEF DialRefused
<1>10. ASSUME LowerCeiling(c) PROVE PoolInv'
<2>1. ASSUME client[c].role = "worker"
       PROVE  PoolInv'
    <3>0. /\ client[c].phase = "forgot" /\ ceiling' = ceiling - 1 /\ Moves(c, "waiting")
          /\ UNCHANGED <<permits, queue, watches, workers, parked, generation, invalidate, poolBudget>>
      BY <2>1, <1>10 DEF LowerCeiling
    <3>1. Becomes(c, "waiting", client[c].role, client[c].asked, client[c].read, client[c].made, client[c].woken)
      BY <1>0, <3>0, <2>1, MovesBecomes DEF Phases
    <3>2. QueueSound' /\ queue' \in Seq(Clients)
      BY <1>0, <3>0, <3>1, QueueKept DEF Becomes, PoolTypeOK
    <3>3. PoolTypeOK'
      <4>1. /\ permits' \in Nat /\ workers' \in Int /\ watches' \in Nat
            /\ ceiling' \in Int /\ ceiling' <= MaxConnections
        BY <1>0, <3>0, InRange DEF PoolTypeOK
      <4> QED
        BY <1>0, <3>0, <3>1, <3>2, <4>1 DEF PoolTypeOK, Becomes, BudgetSound
    <3>4. Balanced("forgot", "waiting")
      <4>1. /\ permits' + 0 + 0 + ceiling = permits + 0 + 1 + ceiling'
            /\ workers' + 0 = workers + 0
        BY <1>0, <3>0
      <4> QED
        BY <4>1, PhaseBits DEF Balanced
    <3>5. Roomy("forgot", "waiting")
      <4>1. Shelf' = Shelf /\ IsFiniteSet(Shelved') /\ Shelf \in Nat
        BY <1>0, <3>0
      <4>2. Shelf' + 0 + 0 + ceiling <= Shelf + 0 + 1 + ceiling'
        BY <1>0, <3>0, <4>1
      <4> QED
        BY <4>1, <4>2, PhaseBits DEF Roomy
    <3>6. NobodyStranded'
      BY <1>0, <3>0, <3>1, NobodyLeft DEF Becomes
    <3>7. Watched(c, client[c].role) /\ Dated("waiting", client[c].asked, client[c].read, client[c].made)
      BY <1>0, <3>0, InRange DEF Watched, Dated
    <3> QED
      BY <3>0, <3>1, <3>2, <3>3, <3>4, <3>5, <3>6, <3>7, MoveKeeps
<2>2. ASSUME client[c].role # "worker"
       PROVE  PoolInv'
    <3>0. /\ client[c].phase = "forgot" /\ ceiling' = ceiling - 1 /\ Ends(c)
          /\ UNCHANGED <<permits, queue, watches, workers, parked, generation, invalidate, poolBudget>>
      BY <2>2, <1>10 DEF LowerCeiling
    <3>1. Becomes(c, "idle", "worker", 0, 0, 0, FALSE)
      BY <1>0, <3>0, <2>2, EndsBecomes
    <3>2. QueueSound' /\ queue' \in Seq(Clients)
      BY <1>0, <3>0, <3>1, QueueKept DEF Becomes, PoolTypeOK
    <3>3. PoolTypeOK'
      <4>1. /\ permits' \in Nat /\ workers' \in Int /\ watches' \in Nat
            /\ ceiling' \in Int /\ ceiling' <= MaxConnections
        BY <1>0, <3>0, InRange DEF PoolTypeOK
      <4> QED
        BY <1>0, <3>0, <3>1, <3>2, <4>1 DEF PoolTypeOK, Becomes, BudgetSound
    <3>4. Balanced("forgot", "idle")
      <4>1. /\ permits' + 0 + 0 + ceiling = permits + 0 + 1 + ceiling'
            /\ workers' + 0 = workers + 0
        BY <1>0, <3>0
      <4> QED
        BY <4>1, PhaseBits DEF Balanced
    <3>5. Roomy("forgot", "idle")
      <4>1. Shelf' = Shelf /\ IsFiniteSet(Shelved') /\ Shelf \in Nat
        BY <1>0, <3>0
      <4>2. Shelf' + 0 + 0 + ceiling <= Shelf + 0 + 1 + ceiling'
        BY <1>0, <3>0, <4>1
      <4> QED
        BY <4>1, <4>2, PhaseBits DEF Roomy
    <3>6. NobodyStranded'
      BY <1>0, <3>0, <3>1, NobodyLeft DEF Becomes
    <3>7. Watched(c, "worker") /\ Dated("idle", 0, 0, 0)
      BY <1>0, <3>0, InRange DEF Watched, Dated
    <3> QED
      BY <3>0, <3>1, <3>2, <3>3, <3>4, <3>5, <3>6, <3>7, MoveKeeps
  <2> QED
    BY <2>1, <2>2
<1>11. ASSUME ComesRound(c)
     PROVE  PoolInv'
  <2>0. /\ client[c].phase = "waiting" /\ queue' = Append(queue, c)
        /\ UNCHANGED <<permits, ceiling, watches, workers, parked, generation, invalidate, poolBudget>>
    BY <1>11 DEF ComesRound
  <2>1. Becomes(c, "queued", client[c].role, client[c].asked, client[c].read, client[c].made, FALSE)
    BY <1>0, <2>0, <1>11, RoundBecomes
  <2>2. QueueSound' /\ queue' \in Seq(Clients)
    BY <1>0, <2>0, <2>1, QueueJoined DEF Becomes
  <2>3. PoolTypeOK'
    <3>1. /\ permits' \in Nat /\ workers' \in Int /\ watches' \in Nat
          /\ ceiling' \in Int /\ ceiling' <= MaxConnections
      BY <1>0, <2>0, InRange DEF PoolTypeOK
    <3> QED
      BY <1>0, <2>0, <2>1, <2>2, <3>1 DEF PoolTypeOK, Becomes, BudgetSound
  <2>4. Balanced("waiting", "queued")
    <3>1. /\ permits' + 0 + 0 + ceiling = permits + 0 + 0 + ceiling'
          /\ workers' + 0 = workers + 0
      BY <1>0, <2>0
    <3> QED
      BY <3>1, PhaseBits DEF Balanced
  <2>5. Roomy("waiting", "queued")
    <3>1. Shelf' = Shelf /\ IsFiniteSet(Shelved') /\ Shelf \in Nat
      BY <1>0, <2>0
    <3>2. Shelf' + 0 + 0 + ceiling <= Shelf + 0 + 0 + ceiling'
      BY <1>0, <2>0, <3>1
    <3> QED
      BY <3>1, <3>2, PhaseBits DEF Roomy
  <2>6. NobodyStranded'
    BY <1>0, <2>0, <2>1, NobodyLeft DEF Becomes
  <2>7. Watched(c, client[c].role) /\ Dated("queued", client[c].asked, client[c].read, client[c].made)
    BY <1>0, <2>0, InRange DEF Watched, Dated
  <2> QED
    BY <2>0, <2>1, <2>2, <2>3, <2>4, <2>5, <2>6, <2>7, MoveKeeps
<1>12. ASSUME EndBorrow(c) PROVE PoolInv'
<2>1. ASSUME Drops(c, "ending")
       PROVE  PoolInv'
    <3>0. /\ client[c].phase = "lent" /\ Drops(c, "ending")
          /\ UNCHANGED <<permits, queue, ceiling, watches, workers, parked, generation, invalidate, poolBudget>>
      BY <2>1, <1>12 DEF EndBorrow
    <3>1. Becomes(c, "ending", client[c].role, client[c].asked, 0, 0, client[c].woken)
      BY <1>0, <3>0, <2>1, DropsBecomes DEF Phases
    <3>2. QueueSound' /\ queue' \in Seq(Clients)
      BY <1>0, <3>0, <3>1, QueueKept DEF Becomes, PoolTypeOK
    <3>3. PoolTypeOK'
      <4>1. /\ permits' \in Nat /\ workers' \in Int /\ watches' \in Nat
            /\ ceiling' \in Int /\ ceiling' <= MaxConnections
        BY <1>0, <3>0, InRange DEF PoolTypeOK
      <4> QED
        BY <1>0, <3>0, <3>1, <3>2, <4>1 DEF PoolTypeOK, Becomes, BudgetSound
    <3>4. Balanced("lent", "ending")
      <4>1. /\ permits' + 1 + 0 + ceiling = permits + 1 + 0 + ceiling'
            /\ workers' + 1 = workers + 1
        BY <1>0, <3>0
      <4> QED
        BY <4>1, PhaseBits DEF Balanced
    <3>5. Roomy("lent", "ending")
      <4>1. Shelf' = Shelf /\ IsFiniteSet(Shelved') /\ Shelf \in Nat
        BY <1>0, <3>0
      <4>2. Shelf' + 0 + 0 + ceiling <= Shelf + 1 + 0 + ceiling'
        BY <1>0, <3>0, <4>1
      <4> QED
        BY <4>1, <4>2, PhaseBits DEF Roomy
    <3>6. NobodyStranded'
      BY <1>0, <3>0, <3>1, NobodyLeft DEF Becomes
    <3>7. Watched(c, client[c].role) /\ Dated("ending", client[c].asked, 0, 0)
      BY <1>0, <3>0, InRange DEF Watched, Dated
    <3> QED
      BY <3>0, <3>1, <3>2, <3>3, <3>4, <3>5, <3>6, <3>7, MoveKeeps
<2>2. ASSUME Moves(c, "pushing")
       PROVE  PoolInv'
    <3>0. /\ client[c].phase = "lent" /\ Moves(c, "pushing")
          /\ UNCHANGED <<permits, queue, ceiling, watches, workers, parked, generation, invalidate, poolBudget>>
      BY <2>2, <1>12 DEF EndBorrow
    <3>1. Becomes(c, "pushing", client[c].role, client[c].asked, client[c].read, client[c].made, client[c].woken)
      BY <1>0, <3>0, <2>2, MovesBecomes DEF Phases
    <3>2. QueueSound' /\ queue' \in Seq(Clients)
      BY <1>0, <3>0, <3>1, QueueKept DEF Becomes, PoolTypeOK
    <3>3. PoolTypeOK'
      <4>1. /\ permits' \in Nat /\ workers' \in Int /\ watches' \in Nat
            /\ ceiling' \in Int /\ ceiling' <= MaxConnections
        BY <1>0, <3>0, InRange DEF PoolTypeOK
      <4> QED
        BY <1>0, <3>0, <3>1, <3>2, <4>1 DEF PoolTypeOK, Becomes, BudgetSound
    <3>4. Balanced("lent", "pushing")
      <4>1. /\ permits' + 1 + 0 + ceiling = permits + 1 + 0 + ceiling'
            /\ workers' + 1 = workers + 1
        BY <1>0, <3>0
      <4> QED
        BY <4>1, PhaseBits DEF Balanced
    <3>5. Roomy("lent", "pushing")
      <4>1. Shelf' = Shelf /\ IsFiniteSet(Shelved') /\ Shelf \in Nat
        BY <1>0, <3>0
      <4>2. Shelf' + 1 + 0 + ceiling <= Shelf + 1 + 0 + ceiling'
        BY <1>0, <3>0, <4>1
      <4> QED
        BY <4>1, <4>2, PhaseBits DEF Roomy
    <3>6. NobodyStranded'
      BY <1>0, <3>0, <3>1, NobodyLeft DEF Becomes
    <3>7. Watched(c, client[c].role) /\ Dated("pushing", client[c].asked, client[c].read, client[c].made)
      BY <1>0, <3>0, InRange DEF Watched, Dated
    <3> QED
      BY <3>0, <3>1, <3>2, <3>3, <3>4, <3>5, <3>6, <3>7, MoveKeeps
  <2> QED
    BY <1>12, <2>1, <2>2 DEF EndBorrow
<1>13. ASSUME Push(c)
     PROVE  PoolInv'
  <2>0. /\ client[c].phase = "pushing" /\ Drops(c, "ending") /\ client[c].made \in Generations
        /\ parked' = [parked EXCEPT ![client[c].made] = @ + 1] /\ parked' \in [Generations -> Nat]
        /\ UNCHANGED <<permits, queue, ceiling, watches, workers, generation, invalidate, poolBudget>>
    BY <1>13, <1>0, PushShelves
  <2>1. Becomes(c, "ending", client[c].role, client[c].asked, 0, 0, client[c].woken)
    BY <1>0, <2>0, <1>13, DropsBecomes DEF Phases
  <2>2. QueueSound' /\ queue' \in Seq(Clients)
    BY <1>0, <2>0, <2>1, QueueKept DEF Becomes, PoolTypeOK
  <2>3. PoolTypeOK'
    <3>1. /\ permits' \in Nat /\ workers' \in Int /\ watches' \in Nat
          /\ ceiling' \in Int /\ ceiling' <= MaxConnections
      BY <1>0, <2>0, InRange DEF PoolTypeOK
    <3> QED
      BY <1>0, <2>0, <2>1, <2>2, <3>1 DEF PoolTypeOK, Becomes, BudgetSound
  <2>4. Balanced("pushing", "ending")
    <3>1. /\ permits' + 1 + 0 + ceiling = permits + 1 + 0 + ceiling'
          /\ workers' + 1 = workers + 1
      BY <1>0, <2>0
    <3> QED
      BY <3>1, PhaseBits DEF Balanced
  <2>5. Roomy("pushing", "ending")
    <3>1. Shelf' <= Shelf + 1 /\ IsFiniteSet(Shelved') /\ Shelf \in Nat /\ Shelf' \in Nat
      BY <2>0, ShelfGiven
    <3>2. Shelf' + 0 + 0 + ceiling <= Shelf + 1 + 0 + ceiling'
      BY <1>0, <2>0, <3>1, LessRoom
    <3> QED
      BY <3>1, <3>2, PhaseBits DEF Roomy
  <2>6. NobodyStranded'
    BY <1>0, <2>0, <2>1, NobodyLeft DEF Becomes
  <2>7. Watched(c, client[c].role) /\ Dated("ending", client[c].asked, 0, 0)
    BY <1>0, <2>0, InRange DEF Watched, Dated
  <2> QED
    BY <2>0, <2>1, <2>2, <2>3, <2>4, <2>5, <2>6, <2>7, MoveKeeps
<1>14. ASSUME Uncount(c)
     PROVE  PoolInv'
  <2>0. /\ client[c].phase = "ending" /\ workers' = workers - 1 /\ Moves(c, "waking")
        /\ UNCHANGED <<permits, queue, ceiling, watches, parked, generation, invalidate, poolBudget>>
    BY <1>14 DEF Uncount
  <2>1. Becomes(c, "waking", client[c].role, client[c].asked, client[c].read, client[c].made, client[c].woken)
    BY <1>0, <2>0, <1>14, MovesBecomes DEF Phases
  <2>2. QueueSound' /\ queue' \in Seq(Clients)
    BY <1>0, <2>0, <2>1, QueueKept DEF Becomes, PoolTypeOK
  <2>3. PoolTypeOK'
    <3>1. /\ permits' \in Nat /\ workers' \in Int /\ watches' \in Nat
          /\ ceiling' \in Int /\ ceiling' <= MaxConnections
      BY <1>0, <2>0, InRange DEF PoolTypeOK
    <3> QED
      BY <1>0, <2>0, <2>1, <2>2, <3>1 DEF PoolTypeOK, Becomes, BudgetSound
  <2>4. Balanced("ending", "waking")
    <3>1. /\ permits' + 1 + 0 + ceiling = permits + 1 + 0 + ceiling'
          /\ workers' + 1 = workers + 0
      BY <1>0, <2>0
    <3> QED
      BY <3>1, PhaseBits DEF Balanced
  <2>5. Roomy("ending", "waking")
    <3>1. Shelf' = Shelf /\ IsFiniteSet(Shelved') /\ Shelf \in Nat
      BY <1>0, <2>0
    <3>2. Shelf' + 0 + 0 + ceiling <= Shelf + 0 + 0 + ceiling'
      BY <1>0, <2>0, <3>1
    <3> QED
      BY <3>1, <3>2, PhaseBits DEF Roomy
  <2>6. NobodyStranded'
    <3>1. c \in In({"waking"})'
      BY <2>1 DEF Becomes, In
    <3> QED
      BY <3>1 DEF NobodyStranded
  <2>7. Watched(c, client[c].role) /\ Dated("waking", client[c].asked, client[c].read, client[c].made)
    BY <1>0, <2>0, InRange DEF Watched, Dated
  <2> QED
    BY <2>0, <2>1, <2>2, <2>3, <2>4, <2>5, <2>6, <2>7, MoveKeeps
<1>15. ASSUME Wake(c)
     PROVE  PoolInv'
  <2>0. /\ client[c].phase = "waking" /\ permits' = permits + 1
        /\ UNCHANGED <<queue, ceiling, watches, workers, parked, generation, invalidate, poolBudget>>
    BY <1>15 DEF Wake
  <2>1. Becomes(c, "idle", "worker", 0, 0, 0, FALSE)
    BY <1>0, <2>0, <1>15, WakeBecomes
  <2>2. QueueSound' /\ queue' \in Seq(Clients)
    BY <1>0, <2>0, <2>1, QueueKept DEF Becomes, PoolTypeOK
  <2>3. PoolTypeOK'
    <3>1. /\ permits' \in Nat /\ workers' \in Int /\ watches' \in Nat
          /\ ceiling' \in Int /\ ceiling' <= MaxConnections
      BY <1>0, <2>0, InRange DEF PoolTypeOK
    <3> QED
      BY <1>0, <2>0, <2>1, <2>2, <3>1 DEF PoolTypeOK, Becomes, BudgetSound
  <2>4. Balanced("waking", "idle")
    <3>1. /\ permits' + 0 + 0 + ceiling = permits + 1 + 0 + ceiling'
          /\ workers' + 0 = workers + 0
      BY <1>0, <2>0
    <3> QED
      BY <3>1, PhaseBits DEF Balanced
  <2>5. Roomy("waking", "idle")
    <3>1. Shelf' = Shelf /\ IsFiniteSet(Shelved') /\ Shelf \in Nat
      BY <1>0, <2>0
    <3>2. Shelf' + 0 + 0 + ceiling <= Shelf + 0 + 0 + ceiling'
      BY <1>0, <2>0, <3>1
    <3> QED
      BY <3>1, <3>2, PhaseBits DEF Roomy
  <2>6. NobodyStranded'
    <3>1. ASSUME NEW d \in Clients, client'[d].phase \in {"forgot", "waiting"}, client'[d].role = "worker"
          PROVE  client'[d].woken
      <4>1. d # c /\ client[d].phase \in {"forgot", "waiting"} /\ client[d].role = "worker"
        BY <2>1, <3>1 DEF Becomes
      <4>2. Armed(d)
        BY <4>1 DEF Armed
      <4> QED
        BY <1>0, <1>15, <4>1, <4>2, WakeBecomes
    <3> QED
      BY <3>1 DEF NobodyStranded
  <2>7. Watched(c, "worker") /\ Dated("idle", 0, 0, 0)
    BY <1>0, <2>0, InRange DEF Watched, Dated
  <2> QED
    BY <2>0, <2>1, <2>2, <2>3, <2>4, <2>5, <2>6, <2>7, MoveKeeps
<1>16. ASSUME EndWatch(c) PROVE PoolInv'
  BY <1>0, <1>16, GiveUpKeeps DEF EndWatch
<1>17. ASSUME Drop(c) PROVE PoolInv'
  <2>1. BudgetSound /\ UNCHANGED <<ceiling, workers, parked, generation, invalidate>>
    BY <1>0, <1>17, BudgetSpent DEF Drop, PoolTypeOK, BudgetSound
  <2>2. CASE client[c].phase \in {"checking", "dialling"} /\ GiveUp(c) /\ UNCHANGED queue
    BY <2>1, <2>2, GiveUpKeeps
<2>3. ASSUME client[c].phase = "queued", Ends(c), UNCHANGED <<permits, watches>>,
              \E i \in 1..Len(queue) : LeavesQueue(c, i)
       PROVE  PoolInv'
    <3>0. /\ client[c].phase = "queued" /\ BudgetSound /\ \E i \in 1..Len(queue) : LeavesQueue(c, i)
          /\ UNCHANGED <<permits, ceiling, watches, workers, parked, generation, invalidate>>
      BY <2>3, <2>1
    <3>1. Becomes(c, "idle", "worker", 0, 0, 0, FALSE)
      BY <1>0, <3>0, <2>3, EndsBecomes
    <3>2. QueueSound' /\ queue' \in Seq(Clients)
      BY <1>0, <3>0, <3>1, QueueLeft DEF Becomes
    <3>3. PoolTypeOK'
      <4>1. /\ permits' \in Nat /\ workers' \in Int /\ watches' \in Nat
            /\ ceiling' \in Int /\ ceiling' <= MaxConnections
        BY <1>0, <3>0, InRange DEF PoolTypeOK
      <4> QED
        BY <1>0, <3>0, <3>1, <3>2, <4>1 DEF PoolTypeOK, Becomes, BudgetSound
    <3>4. Balanced("queued", "idle")
      <4>1. /\ permits' + 0 + 0 + ceiling = permits + 0 + 0 + ceiling'
            /\ workers' + 0 = workers + 0
        BY <1>0, <3>0
      <4> QED
        BY <4>1, PhaseBits DEF Balanced
    <3>5. Roomy("queued", "idle")
      <4>1. Shelf' = Shelf /\ IsFiniteSet(Shelved') /\ Shelf \in Nat
        BY <1>0, <3>0
      <4>2. Shelf' + 0 + 0 + ceiling <= Shelf + 0 + 0 + ceiling'
        BY <1>0, <3>0, <4>1
      <4> QED
        BY <4>1, <4>2, PhaseBits DEF Roomy
    <3>6. NobodyStranded'
      BY <1>0, <3>0, <3>1, NobodyLeft DEF Becomes
    <3>7. Watched(c, "worker") /\ Dated("idle", 0, 0, 0)
      BY <1>0, <3>0, InRange DEF Watched, Dated
    <3> QED
      BY <3>0, <3>1, <3>2, <3>3, <3>4, <3>5, <3>6, <3>7, MoveKeeps
<2>4. ASSUME client[c].phase = "waiting", Ends(c), UNCHANGED <<permits, watches>>, UNCHANGED queue
       PROVE  PoolInv'
    <3>0. /\ client[c].phase = "waiting" /\ BudgetSound
          /\ UNCHANGED <<permits, queue, ceiling, watches, workers, parked, generation, invalidate>>
      BY <2>4, <2>1
    <3>1. Becomes(c, "idle", "worker", 0, 0, 0, FALSE)
      BY <1>0, <3>0, <2>4, EndsBecomes
    <3>2. QueueSound' /\ queue' \in Seq(Clients)
      BY <1>0, <3>0, <3>1, QueueKept DEF Becomes, PoolTypeOK
    <3>3. PoolTypeOK'
      <4>1. /\ permits' \in Nat /\ workers' \in Int /\ watches' \in Nat
            /\ ceiling' \in Int /\ ceiling' <= MaxConnections
        BY <1>0, <3>0, InRange DEF PoolTypeOK
      <4> QED
        BY <1>0, <3>0, <3>1, <3>2, <4>1 DEF PoolTypeOK, Becomes, BudgetSound
    <3>4. Balanced("waiting", "idle")
      <4>1. /\ permits' + 0 + 0 + ceiling = permits + 0 + 0 + ceiling'
            /\ workers' + 0 = workers + 0
        BY <1>0, <3>0
      <4> QED
        BY <4>1, PhaseBits DEF Balanced
    <3>5. Roomy("waiting", "idle")
      <4>1. Shelf' = Shelf /\ IsFiniteSet(Shelved') /\ Shelf \in Nat
        BY <1>0, <3>0
      <4>2. Shelf' + 0 + 0 + ceiling <= Shelf + 0 + 0 + ceiling'
        BY <1>0, <3>0, <4>1
      <4> QED
        BY <4>1, <4>2, PhaseBits DEF Roomy
    <3>6. NobodyStranded'
      BY <1>0, <3>0, <3>1, NobodyLeft DEF Becomes
    <3>7. Watched(c, "worker") /\ Dated("idle", 0, 0, 0)
      BY <1>0, <3>0, InRange DEF Watched, Dated
    <3> QED
      BY <3>0, <3>1, <3>2, <3>3, <3>4, <3>5, <3>6, <3>7, MoveKeeps
  <2> QED
    BY <1>17, <2>2, <2>3, <2>4 DEF Drop
<1> QED
  BY <1>1, <1>2, <1>3, <1>4, <1>5, <1>6, <1>7, <1>8, <1>9, <1>10, <1>11, <1>12, <1>13, <1>14, <1>15,
     <1>16, <1>17 DEF PoolStep

\* No step of an invalidation does.
LEMMA InvalidatingKeeps ==
  ASSUME PoolInv, Invalidating
  PROVE  PoolInv'
<1> DEFINE h == Cardinality(In(Holding))
           f == Cardinality(In({"forgot"}))
           k == Cardinality(In(Connected))
           a == invalidate.add
           aa == invalidate'.add
           e == permits  ee == permits'  l == ceiling  ll == ceiling'  s == Shelf  ss == Shelf'
<1>0. /\ PoolTypeOK /\ client' = client /\ queue' = queue /\ workers' = workers
      /\ watches' = watches
  BY DEF PoolInv, Invalidating, BumpGeneration, ClearParked, RestoreCeiling, AddPermits
<1>1. /\ h \in Nat /\ f \in Nat /\ k \in Nat
  <2>1. \A P : In(P) \subseteq Clients
    BY DEF In
  <2> QED
    BY <1>0, <2>1, InRange, FS_Subset, FS_CardinalityType
<1>2. /\ e \in Nat /\ l \in Int /\ a \in Nat /\ s \in Nat /\ e + h + f + a = l /\ s + k + f + a <= l
      /\ l <= MaxConnections /\ IsFiniteSet(Shelved)
      /\ invalidate.step # "restored" => invalidate.add = 0
  BY FS_CardinalityType DEF PoolInv, PoolTypeOK, PoolCounts, BudgetBalances, Shelf
<1>3. QueueSound' /\ WatchSound' /\ NobodyStranded'
  BY <1>0 DEF PoolInv, QueueSound, WatchSound, NobodyStranded, In
<1>4. /\ In(Holding)' = In(Holding) /\ In({"forgot"})' = In({"forgot"})
      /\ In(Connected)' = In(Connected) /\ In(Counted)' = In(Counted)
  BY <1>0 DEF In
<1>c. \* what is left to show of the counts
  ASSUME ee + h + f + aa = ll, ss + k + f + aa <= ll, IsFiniteSet(Shelved'),
         invalidate'.step # "restored" => aa = 0
  PROVE  PoolCounts'
  <2>1. workers' = Cardinality(In(Counted))
    BY <1>0 DEF PoolInv, PoolCounts
  <2> QED
    BY <1>4, <1>c, <2>1 DEF PoolCounts, BudgetBalances
<1>g. ASSUME generation' \in Generations, generation' >= generation
      PROVE  GenerationsSound'
  <2>1. \A c \in Clients : client[c].asked \in Nat /\ generation \in Nat /\ generation' \in Nat
    BY <1>0, <1>g, InRange
  <2>2. \A c \in Clients : client[c].asked <= generation
    BY DEF PoolInv, GenerationsSound
  <2>3. \A c \in Clients : client[c].asked <= generation'
    BY <1>g, <2>1, <2>2
  <2> QED
    BY <1>0, <2>3 DEF PoolInv, GenerationsSound
<1>5. CASE BumpGeneration
  <2>1. /\ poolBudget' = [poolBudget EXCEPT !.changes = @ - 1] /\ poolBudget.changes > 0
        /\ generation' = generation + 1 /\ invalidate.step = "none"
        /\ invalidate' = [step |-> "bumped", add |-> 0]
        /\ UNCHANGED <<permits, ceiling, parked>>
    BY <1>5 DEF BumpGeneration
  <2>2. /\ poolBudget' \in [changes : Nat, faults : Nat, drops : Nat]
        /\ poolBudget'.changes = poolBudget.changes - 1 /\ poolBudget.changes \in Nat
    BY <1>0, <2>1, BudgetSpent DEF PoolTypeOK
  <2>3. /\ generation' \in Generations /\ generation' + poolBudget'.changes <= MaxInvalidates
        /\ generation' >= generation
    <3>1. generation \in Nat /\ MaxInvalidates \in Nat
      BY <1>0, InRange
    <3>2. generation + poolBudget.changes <= MaxInvalidates
      BY <1>0 DEF PoolTypeOK
    <3> DEFINE n == poolBudget.changes  nn == poolBudget'.changes  gg == generation'
    <3>3. n \in Nat /\ nn = n - 1 /\ n > 0 /\ gg = generation + 1 /\ generation + n <= MaxInvalidates
      BY <2>1, <2>2, <3>2
    <3> HIDE DEF n, nn, gg
    <3>4. gg \in 0..MaxInvalidates /\ gg + nn <= MaxInvalidates /\ gg >= generation
      BY <3>1, <3>3
    <3> QED
      BY <3>4 DEF n, nn, gg, Generations
  <2>4. PoolTypeOK'
    BY <1>0, <2>1, <2>2, <2>3 DEF PoolTypeOK
  <2>5. PoolCounts'
    <3>1. ss = s /\ IsFiniteSet(Shelved') /\ ee = e /\ ll = l /\ aa = 0 /\ a = 0
      BY <1>2, <2>1 DEF Shelf, Shelved
    <3> QED
      BY <1>1, <1>2, <1>c, <3>1
  <2> QED
    BY <1>3, <1>g, <2>3, <2>4, <2>5 DEF PoolInv
<1>6. CASE ClearParked
  <2>1. /\ parked' = [g \in Generations |-> 0] /\ invalidate.step = "bumped"
        /\ invalidate' = [step |-> "cleared", add |-> 0]
        /\ UNCHANGED <<permits, ceiling, generation, poolBudget>>
    BY <1>6 DEF ClearParked
  <2>2. PoolTypeOK'
    BY <1>0, <2>1 DEF PoolTypeOK
  <2>3. IsFiniteSet(Shelved') /\ ss = 0
    BY <2>1, ShelfEmptied
  <2>4. PoolCounts'
    <3>1. ee = e /\ ll = l /\ aa = 0 /\ a = 0
      BY <1>2, <2>1
    <3>2. ee + h + f + aa = ll
      BY <1>2, <3>1
    <3>3. ss + k + f + aa <= ll
      BY <1>1, <1>2, <2>3, <3>1
    <3>4. invalidate'.step # "restored" => aa = 0
      BY <3>1
    <3> QED
      BY <1>c, <2>3, <3>2, <3>3, <3>4
  <2>5. generation' \in Generations /\ generation' >= generation
    BY <1>0, <2>1, InRange
  <2> QED
    BY <1>3, <1>g, <2>2, <2>4, <2>5 DEF PoolInv
<1>7. CASE RestoreCeiling
  <2>1. /\ invalidate' = [step |-> "restored", add |-> MaxConnections - ceiling]
        /\ invalidate.step = "cleared" /\ ceiling' = MaxConnections
        /\ UNCHANGED <<permits, parked, generation, poolBudget>>
    BY <1>7 DEF RestoreCeiling
  <2>2. MaxConnections \in Nat /\ MaxConnections - ceiling \in Nat
    BY <1>0, <1>2, InRange
  <2>3. PoolTypeOK'
    BY <1>0, <2>1, <2>2 DEF PoolTypeOK
  <2>4. PoolCounts'
    <3>1. /\ ss = s /\ IsFiniteSet(Shelved') /\ ee = e /\ ll = MaxConnections
          /\ aa = MaxConnections - l /\ a = 0
      BY <1>2, <2>1 DEF Shelf, Shelved
    <3>2. ee + h + f + aa = ll
      BY <1>1, <1>2, <2>2, <3>1
    <3>3. ss + k + f + aa <= ll
      BY <1>1, <1>2, <2>2, <3>1
    <3> QED
      BY <1>c, <2>1, <3>1, <3>2, <3>3
  <2>5. generation' \in Generations /\ generation' >= generation
    BY <1>0, <2>1, InRange
  <2> QED
    BY <1>3, <1>g, <2>3, <2>4, <2>5 DEF PoolInv
<1>8. CASE AddPermits
  <2>1. /\ permits' = permits + invalidate.add /\ invalidate' = [step |-> "none", add |-> 0]
        /\ UNCHANGED <<ceiling, parked, generation, poolBudget>>
    BY <1>8 DEF AddPermits
  <2>2. PoolTypeOK'
    BY <1>0, <1>2, <2>1 DEF PoolTypeOK
  <2>3. PoolCounts'
    <3>1. ss = s /\ IsFiniteSet(Shelved') /\ ee = e + a /\ ll = l /\ aa = 0
      BY <1>2, <2>1 DEF Shelf, Shelved
    <3>2. ee + h + f + aa = ll
      BY <1>1, <1>2, <3>1
    <3>3. ss + k + f + aa <= ll
      BY <1>1, <1>2, <3>1
    <3> QED
      BY <1>c, <2>1, <3>1, <3>2, <3>3
  <2>4. generation' \in Generations /\ generation' >= generation
    BY <1>0, <2>1, InRange
  <2> QED
    BY <1>3, <1>g, <2>2, <2>3, <2>4 DEF PoolInv
<1> QED
  BY <1>5, <1>6, <1>7, <1>8 DEF Invalidating

\* A fresh pool keeps its books.
LEMMA PoolInvInit == PoolInit => PoolInv
<1> SUFFICES ASSUME PoolInit PROVE PoolInv
  OBVIOUS
<1>0. /\ MaxConnections \in Nat /\ MaxConnections > 0 /\ MaxInvalidates \in Nat /\ IsFiniteSet(Clients)
      /\ 0 \in Generations /\ Generations \subseteq Nat
  BY ImapPoolAssumption DEF Generations
<1>1. /\ permits = MaxConnections /\ queue = <<>> /\ ceiling = MaxConnections /\ watches = 0
      /\ workers = 0 /\ generation = 0 /\ client = [c \in Clients |-> Resting(c)]
      /\ invalidate = [step |-> "none", add |-> 0] /\ poolBudget \in PoolBudgets
  BY DEF PoolInit
<1>2. PICK n \in {0, 1} : parked = [g \in Generations |-> IF g = 0 THEN n ELSE 0]
  BY DEF PoolInit
<1>3. \A c \in Clients : Resting(c) \in Client
  BY <1>0 DEF Resting, Client, Phases
<1>4. poolBudget \in [changes : Nat, faults : Nat, drops : Nat] /\ poolBudget.changes <= MaxInvalidates
  BY <1>0, <1>1, ImapPoolAssumption
<1>5. PoolTypeOK
  <2>1. client \in [Clients -> Client]
    BY <1>1, <1>3
  <2>2. parked \in [Generations -> Nat]
    BY <1>2
  <2>3. invalidate \in [step : {"none", "bumped", "cleared", "restored"}, add : Nat]
    BY <1>1
  <2>4. generation + poolBudget.changes <= MaxInvalidates
    BY <1>0, <1>1, <1>4
  <2>5. queue \in Seq(Clients)
    BY <1>1
  <2> QED
    BY <1>0, <1>1, <1>4, <2>1, <2>2, <2>3, <2>4, <2>5 DEF PoolTypeOK
<1>6. \A c \in Clients : /\ client[c].phase = "idle" /\ client[c].role = "worker"
                         /\ client[c].asked = 0
  BY <1>1 DEF Resting
<1>7. QueueSound
  BY <1>1 DEF QueueSound
<1>8. /\ In(Holding) = {} /\ In(Connected) = {} /\ In({"forgot"}) = {} /\ In(Counted) = {}
      /\ {c \in Clients : client[c].role = "watch"} = {}
  BY <1>6 DEF In, Holding, Connected, Counted
<1>9. PoolCounts
  <2>1. Shelved \subseteq {<<0, 1>>}
    BY <1>2 DEF Shelved
  <2>2. IsFiniteSet(Shelved) /\ Shelf \in Nat /\ Shelf <= 1
    <3> DEFINE one == {<<0, 1>>}
    <3>1. IsFiniteSet(one) /\ Cardinality(one) = 1
      BY FS_Singleton
    <3> HIDE DEF one
    <3>2. Shelved \subseteq one
      BY <2>1 DEF one
    <3>3. IsFiniteSet(Shelved) /\ Cardinality(Shelved) <= Cardinality(one)
      BY <3>1, <3>2, FS_Subset
    <3> QED
      BY <3>1, <3>3, FS_CardinalityType DEF Shelf
  <2>3. Cardinality({}) = 0
    BY FS_EmptySet
  <2>4. Shelf + 0 + 0 + 0 <= MaxConnections
    BY <1>0, <2>2
  <2>5. BudgetBalances
    <3>1. MaxConnections + 0 + 0 + 0 = MaxConnections
      BY <1>0
    <3>2. invalidate.add = 0
      BY <1>1
    <3> QED
      BY <1>1, <1>8, <2>3, <3>1, <3>2 DEF BudgetBalances
  <2>6. invalidate.add = 0 /\ workers = Cardinality(In(Counted))
    BY <1>1, <1>8, <2>3
  <2>7. Shelf + Cardinality(In(Connected)) + Cardinality(In({"forgot"})) + invalidate.add <= ceiling
    BY <1>1, <1>8, <2>3, <2>4, <2>6
  <2> QED
    BY <2>2, <2>5, <2>6, <2>7 DEF PoolCounts
<1>10. WatchSound
  <2>1. Cardinality({c \in Clients : client[c].role = "watch"}) = 0
    BY <1>8, FS_EmptySet
  <2> QED
    BY <1>0, <1>1, <2>1 DEF WatchSound
<1>11. GenerationsSound
  BY <1>1, <1>6 DEF GenerationsSound
<1>12. NobodyStranded
  BY <1>6 DEF NobodyStranded
<1> QED
  BY <1>5, <1>7, <1>9, <1>10, <1>11, <1>12 DEF PoolInv

\* No step breaks the pool's invariant.
LEMMA PoolInvStep == PoolInv /\ [PoolNext]_poolVars => PoolInv'
<1> SUFFICES ASSUME PoolInv, [PoolNext]_poolVars PROVE PoolInv'
  OBVIOUS
<1>1. CASE PoolNext
  BY <1>1, ClientKeeps, InvalidatingKeeps DEF PoolNext
<1>2. CASE UNCHANGED poolVars
  <2>0. UNCHANGED <<permits, ceiling, workers, parked, client, invalidate>>
    BY <1>2 DEF poolVars
  <2>1. /\ Shelved' = Shelved /\ Shelf' = Shelf /\ In(Holding)' = In(Holding)
        /\ In(Connected)' = In(Connected) /\ In(Counted)' = In(Counted)
        /\ In({"forgot"})' = In({"forgot"}) /\ In({"waking"})' = In({"waking"})
    BY <2>0 DEF Shelf, Shelved, In, Holding, Connected, Counted
  <2>2. PoolTypeOK' /\ QueueSound'
    BY <1>2 DEF poolVars, PoolInv, PoolTypeOK, QueueSound
  <2>3. PoolCounts'
    BY <2>0, <2>1 DEF PoolInv, PoolCounts, BudgetBalances
  <2>4. WatchSound' /\ GenerationsSound'
    BY <1>2 DEF poolVars, PoolInv, WatchSound, GenerationsSound
  <2>5. NobodyStranded'
    BY <2>0, <2>1 DEF PoolInv, NobodyStranded
  <2> QED
    BY <2>2, <2>3, <2>4, <2>5 DEF PoolInv
<1> QED
  BY <1>1, <1>2

\* Every reachable state of the pool satisfies the invariant.
LEMMA PoolInvariant == PoolSpec => []PoolInv
BY PoolInvInit, PoolInvStep, PTL DEF PoolSpec

\* The semaphore's total is the ceiling, whatever refusals, lost calls and invalidations
\* overlap: for any number of clients (pool.rs, lower_ceiling and invalidate).
THEOREM PermitsBalance == PoolSpec => []BudgetBalances
<1>1. PoolInv => BudgetBalances
  BY DEF PoolInv, PoolCounts
<1> QED
  BY <1>1, PoolInvariant, PTL

\* The connections resting, borrowed, watching and being dialled never exceed the ceiling in
\* force, although a resting one stands on no permit (pool.rs, take_or_dial and park).
THEOREM SocketsBounded == PoolSpec => []SocketsWithinCeiling
<1>1. PoolInv => SocketsWithinCeiling
  <2> SUFFICES ASSUME PoolInv PROVE SocketsWithinCeiling
    OBVIOUS
  <2> DEFINE k == Cardinality(In(Connected))
             f == Cardinality(In({"forgot"}))
  <2>1. \A P : In(P) \subseteq Clients
    BY DEF In
  <2>2. k \in Nat /\ f \in Nat
    BY <2>1, InRange, FS_Subset, FS_CardinalityType DEF PoolInv
  <2>3. /\ Shelf \in Nat /\ invalidate.add \in Nat /\ ceiling \in Int
        /\ Shelf + k + f + invalidate.add <= ceiling
    BY FS_CardinalityType DEF PoolInv, PoolTypeOK, PoolCounts, Shelf
  <2> HIDE DEF k, f
  <2>4. Shelf + k <= ceiling
    BY <2>2, <2>3
  <2> QED
    BY <2>4 DEF SocketsWithinCeiling, k
<1> QED
  BY <1>1, PoolInvariant, PTL

\* A caller whose dial failed waits only while somebody is left to wake it (pool.rs, acquire's
\* wait on `returned`).
THEOREM WaitersWoken == PoolSpec => []NobodyStranded
<1>1. PoolInv => NobodyStranded
  BY DEF PoolInv
<1> QED
  BY <1>1, PoolInvariant, PTL

\* A call made after the network changed is never served by a connection dialled before it
\* (pool.rs, take_parked).
THEOREM NoSupersededConnection == PoolSpec => []SupersededNotReused
<1>1. PoolInv => SupersededNotReused
  BY DEF PoolInv, GenerationsSound, SupersededNotReused, In
<1> QED
  BY <1>1, PoolInvariant, PTL

\* While the ceiling is what it was built with, watches never hold every permit
\* (pool_watch.rs, reserve_watch).
THEOREM WorkersKeepOne == PoolSpec => []FloorUnlessLowered
<1>1. PoolInv => FloorUnlessLowered
  <2> SUFFICES ASSUME PoolInv, WatchesHoldAll PROVE ceiling < MaxConnections
    BY DEF FloorUnlessLowered
  <2> DEFINE S == {c \in In(Holding) : client[c].role = "watch"}
             T == {c \in Clients : client[c].role = "watch"}
  <2>1. S \subseteq T /\ T \subseteq Clients
    BY DEF In
  <2>2. Cardinality(S) >= ceiling /\ Cardinality(T) <= watches /\ watches < MaxConnections
    BY DEF WatchesHoldAll, PoolInv, WatchSound
  <2>3. ceiling \in Int /\ watches \in Nat /\ MaxConnections \in Nat
    BY InRange DEF PoolInv, PoolTypeOK
  <2> HIDE DEF S, T
  <2>4. IsFiniteSet(T)
    BY <2>1, InRange, FS_Subset DEF PoolInv
  <2>5. Cardinality(S) \in Nat /\ Cardinality(T) \in Nat /\ Cardinality(S) <= Cardinality(T)
    BY <2>1, <2>4, FS_Subset, FS_CardinalityType
  <2> QED
    BY <2>2, <2>3, <2>5
<1> QED
  BY <1>1, PoolInvariant, PTL

-------------------------------------------------------------------------------
(* The request gate.  A request registered ahead of a sleeper gets the next *)
(* wakeup before it, so until that wakeup comes it is no reason for the     *)
(* sleeper to be woken: only the others count towards the free lanes.       *)

GateTypeOK ==
  /\ limit \in Nat /\ inFlight \in Int
  /\ request \in [Requests -> RequestPhases]
  /\ sleepers \in Seq(Requests)
  /\ fired \subseteq Requests
  /\ stored \in BOOLEAN

\* What the Notify knows is what the requests wait for.
NotifySound ==
  /\ \A i, j \in 1..Len(sleepers) : sleepers[i] = sleepers[j] => i = j
  /\ \A i \in 1..Len(sleepers) : /\ sleepers[i] \notin fired
                                 /\ request[sleepers[i]] \in {"checking", "asleep"}
  /\ \A r \in fired : request[r] \in {"checking", "asleep"}
  /\ \A r \in Requests : request[r] = "asleep" => r \in fired \/ Registered(r)

Before(r, s) ==
  \E i, j \in 1..Len(sleepers) : i < j /\ sleepers[i] = r /\ sleepers[j] = s

\* Those that will look for a lane, or pass a wakeup on, before s would be
\* forgotten.
Due(s) ==
  fired \cup {r \in Requests : request[r] \in {"arming", "leaving"}}
        \cup {r \in Requests : request[r] = "checking" /\ ~Before(r, s)}

Sleeps(s) == request[s] = "asleep" /\ s \notin fired

LanesCovered ==
  \A s \in Requests :
    Sleeps(s) /\ inFlight < limit => limit - inFlight <= Cardinality(Due(s))

GateInv == GateTypeOK /\ NotifySound /\ LanesCovered

\* The queue `t` is sleepers without its k-th request.
Shortened(t, k) ==
  /\ t \in Seq(Requests) /\ Len(t) = Len(sleepers) - 1
  /\ \A j \in 1..(Len(sleepers) - 1) :
       t[j] = IF j < k THEN sleepers[j] ELSE sleepers[j + 1]

\* In a queue without its k-th request the others keep their order.
LEMMA ShortenedQueue ==
  ASSUME GateInv, NEW k \in 1..Len(sleepers), NEW t, Shortened(t, k)
  PROVE  /\ \A i, j \in 1..Len(t) : t[i] = t[j] => i = j
         /\ \A i \in 1..Len(t) : /\ t[i] # sleepers[k]
                                 /\ \E m \in 1..Len(sleepers) : t[i] = sleepers[m]
         /\ \A m \in 1..Len(sleepers) : m # k => \E i \in 1..Len(t) : t[i] = sleepers[m]
         /\ \A i, j \in 1..Len(t) : i < j => Before(t[i], t[j])
<1>0. /\ Len(sleepers) \in Nat /\ Len(t) = Len(sleepers) - 1 /\ k \in Nat /\ 1 <= k
      /\ k <= Len(sleepers) /\ Len(t) \in Nat
  BY DEF GateInv, GateTypeOK, Shortened
<1> DEFINE at(j) == IF j < k THEN j ELSE j + 1
<1>1. \A j \in 1..Len(t) : at(j) \in 1..Len(sleepers) /\ at(j) # k /\ t[j] = sleepers[at(j)]
  BY <1>0 DEF Shortened
<1>2. \A i, j \in 1..Len(t) : (i < j => at(i) < at(j)) /\ (at(i) = at(j) => i = j)
  BY <1>0
<1>3. \A m \in 1..Len(sleepers) : m # k => \E i \in 1..Len(t) : at(i) = m
  <2> SUFFICES ASSUME NEW m \in 1..Len(sleepers), m # k
               PROVE  \E i \in 1..Len(t) : at(i) = m
    OBVIOUS
  <2>1. CASE m < k
    <3>1. m \in 1..Len(t) /\ at(m) = m
      BY <1>0, <2>1
    <3> QED
      BY <3>1
  <2>2. CASE m > k
    <3>1. m - 1 \in 1..Len(t) /\ at(m - 1) = m
      BY <1>0, <2>2
    <3> QED
      BY <3>1
  <2> QED
    BY <1>0, <2>1, <2>2
<1>4. \A i, j \in 1..Len(sleepers) : sleepers[i] = sleepers[j] => i = j
  BY DEF GateInv, NotifySound
<1> HIDE DEF at
<1>5. \A i, j \in 1..Len(t) : t[i] = t[j] => i = j
  BY <1>1, <1>2, <1>4
<1>6. \A i \in 1..Len(t) : /\ t[i] # sleepers[k]
                           /\ \E m \in 1..Len(sleepers) : t[i] = sleepers[m]
  BY <1>1, <1>4
<1>7. \A m \in 1..Len(sleepers) : m # k => \E i \in 1..Len(t) : t[i] = sleepers[m]
  BY <1>1, <1>3
<1>8. \A i, j \in 1..Len(t) : i < j => Before(t[i], t[j])
  BY <1>1, <1>2 DEF Before
<1> QED
  BY <1>5, <1>6, <1>7, <1>8

\* notify_one takes the first.
LEMMA TailShortens ==
  ASSUME GateInv, sleepers # <<>>
  PROVE  /\ Shortened(Tail(sleepers), 1) /\ 1 \in 1..Len(sleepers)
         /\ Head(sleepers) = sleepers[1]
<1>1. sleepers \in Seq(Requests)
  BY DEF GateInv, GateTypeOK
<1>2. /\ Tail(sleepers) \in Seq(Requests) /\ Len(Tail(sleepers)) = Len(sleepers) - 1
      /\ Head(sleepers) = sleepers[1] /\ Len(sleepers) \in Nat /\ Len(sleepers) >= 1
      /\ \A j \in 1..(Len(sleepers) - 1) : Tail(sleepers)[j] = sleepers[j + 1]
  BY <1>1
<1> QED
  BY <1>2 DEF Shortened

\* A request that leaves the queue is the only one that does.
LEMMA UnregisterShortens ==
  ASSUME GateInv, NEW r, Unregister(r)
  PROVE  \/ sleepers' = sleepers /\ ~Registered(r)
         \/ \E k \in 1..Len(sleepers) : sleepers[k] = r /\ Shortened(sleepers', k)
<1>1. sleepers \in Seq(Requests)
  BY DEF GateInv, GateTypeOK
<1>2. CASE \E i \in 1..Len(sleepers) : sleepers[i] = r /\ sleepers' = RemoveAt(sleepers, i)
  BY <1>1, <1>2, RemoveAtProperties DEF Shortened
<1> QED
  BY <1>2 DEF Unregister, Registered

\* A sleeper waits in the queue, and who is ahead of all is due for nobody.
LEMMA SleeperQueued ==
  ASSUME GateInv, NEW s \in Requests, Sleeps(s)
  PROVE  /\ sleepers # <<>> /\ Head(sleepers) \in Requests
         /\ Head(sleepers) \notin Due(s)
         /\ IsFiniteSet(Due(s))
<1>0. sleepers \in Seq(Requests) /\ IsFiniteSet(Requests) /\ fired \subseteq Requests
  BY RequestGateAssumption DEF GateInv, GateTypeOK
<1>1. PICK j \in 1..Len(sleepers) : sleepers[j] = s
  BY DEF GateInv, NotifySound, Sleeps, Registered
<1>2. /\ sleepers # <<>> /\ Head(sleepers) = sleepers[1] /\ 1 \in 1..Len(sleepers)
      /\ sleepers[1] \in Requests
  BY <1>0, <1>1
<1>3. /\ sleepers[1] \notin fired
      /\ request[sleepers[1]] \in {"checking", "asleep"}
  BY <1>2 DEF GateInv, NotifySound
<1>4. request[sleepers[1]] = "checking" => Before(sleepers[1], s)
  <2>1. request[sleepers[1]] = "checking" => j # 1
    BY <1>1 DEF Sleeps
  <2> QED
    BY <1>0, <1>1, <1>2, <2>1 DEF Before
<1>5. sleepers[1] \notin Due(s)
  BY <1>3, <1>4 DEF Due
<1>6. Due(s) \subseteq Requests
  BY <1>0 DEF Due
<1> QED
  BY <1>0, <1>2, <1>5, <1>6, FS_Subset

(* A notification that finds a request registered reaches the first; the   *)
(* others stay as they were.                                                *)
LEMMA NotifyReaches ==
  ASSUME GateInv, NEW r \in Requests, NEW phase \in RequestPhases \ {"asleep", "checking"},
         request' = [request EXCEPT ![r] = phase],
         ~Registered(r),
         NotifyOne(sleepers, fired \ {r}, stored),
         limit' \in Nat, inFlight' \in Int
  PROVE  /\ GateTypeOK' /\ NotifySound'
         /\ \A s \in Requests : Sleeps(s)' =>
              /\ Sleeps(s) /\ Due(s) \ {r} \subseteq Due(s)'
              /\ Head(sleepers) \in Due(s)' /\ Head(sleepers) \notin Due(s)
              /\ IsFiniteSet(Due(s)) /\ IsFiniteSet(Due(s)')
<1>0. /\ sleepers \in Seq(Requests) /\ IsFiniteSet(Requests) /\ fired \subseteq Requests
      /\ stored \in BOOLEAN /\ request \in [Requests -> RequestPhases]
  BY RequestGateAssumption DEF GateInv, GateTypeOK
<1>1. /\ request'[r] = phase /\ \A q \in Requests \ {r} : request'[q] = request[q]
      /\ request' \in [Requests -> RequestPhases]
  BY <1>0
<1>2. CASE sleepers = <<>>
  <2>1. sleepers' = <<>> /\ fired' = fired \ {r} /\ stored' \in BOOLEAN
    BY <1>0, <1>2 DEF NotifyOne
  <2>2. GateTypeOK'
    BY <1>0, <1>1, <2>1 DEF GateTypeOK
  <2>3. Len(sleepers') = 0
    BY <2>1
  <2>4. \A q \in Requests : request[q] = "asleep" => q \in fired
    BY <1>2 DEF GateInv, NotifySound, Registered
  <2>5. NotifySound'
    <3>1. \A q \in fired' : request'[q] \in {"checking", "asleep"}
      BY <1>0, <1>1, <2>1 DEF GateInv, NotifySound
    <3>2. \A q \in Requests : request'[q] = "asleep" => q \in fired'
      BY <1>1, <2>1, <2>4
    <3> QED
      BY <2>3, <3>1, <3>2 DEF NotifySound
  <2>6. \A s \in Requests : ~(Sleeps(s)')
    BY <2>5, <2>3 DEF NotifySound, Registered, Sleeps
  <2> QED
    BY <2>2, <2>5, <2>6
<1>3. CASE sleepers # <<>>
  <2> DEFINE h == sleepers[1]
  <2>0. /\ sleepers' = Tail(sleepers) /\ Head(sleepers) = h /\ h \in Requests
        /\ fired' = (fired \ {r}) \cup {h} /\ stored' \in BOOLEAN
        /\ 1 \in 1..Len(sleepers) /\ Shortened(sleepers', 1)
        /\ h \notin fired /\ h # r
        /\ request[h] \in {"checking", "asleep"}
    BY <1>0, <1>3, TailShortens DEF NotifyOne, Registered, GateInv, NotifySound
  <2>1. GateTypeOK'
    BY <1>0, <1>1, <2>0 DEF GateTypeOK, Shortened
  <2>2. /\ \A i, j \in 1..Len(sleepers') : sleepers'[i] = sleepers'[j] => i = j
        /\ \A i \in 1..Len(sleepers') : /\ sleepers'[i] # sleepers[1]
                                        /\ \E m \in 1..Len(sleepers) : sleepers'[i] = sleepers[m]
        /\ \A m \in 1..Len(sleepers) : m # 1 => \E i \in 1..Len(sleepers') : sleepers'[i] = sleepers[m]
        /\ \A i, j \in 1..Len(sleepers') : i < j => Before(sleepers'[i], sleepers'[j])
    <3> DEFINE t == sleepers'
    <3>1. 1 \in 1..Len(sleepers) /\ Shortened(t, 1)
      BY <2>0
    <3> HIDE DEF t
    <3>2. /\ \A i, j \in 1..Len(t) : t[i] = t[j] => i = j
          /\ \A i \in 1..Len(t) : /\ t[i] # sleepers[1]
                                  /\ \E m \in 1..Len(sleepers) : t[i] = sleepers[m]
          /\ \A m \in 1..Len(sleepers) : m # 1 => \E i \in 1..Len(t) : t[i] = sleepers[m]
          /\ \A i, j \in 1..Len(t) : i < j => Before(t[i], t[j])
      BY <3>1, ShortenedQueue
    <3> QED
      BY <3>2 DEF t
  <2> HIDE DEF h
  <2>3. \A i \in 1..Len(sleepers') : /\ sleepers'[i] \notin fired'
                                     /\ sleepers'[i] \in Requests \ {r}
                                     /\ request'[sleepers'[i]] \in {"checking", "asleep"}
    <3> SUFFICES ASSUME NEW i \in 1..Len(sleepers')
                 PROVE  /\ sleepers'[i] \notin fired'
                        /\ sleepers'[i] \in Requests \ {r}
                        /\ request'[sleepers'[i]] \in {"checking", "asleep"}
      OBVIOUS
    <3>1. PICK m \in 1..Len(sleepers) : sleepers'[i] = sleepers[m]
      BY <2>2
    <3>2. /\ sleepers[m] # r /\ sleepers[m] \in Requests /\ sleepers[m] \notin fired
          /\ request[sleepers[m]] \in {"checking", "asleep"}
      BY <1>0 DEF Registered, GateInv, NotifySound
    <3> QED
      BY <1>1, <2>0, <2>2, <3>1, <3>2 DEF h
  <2>4. \A q \in fired' : request'[q] \in {"checking", "asleep"}
    BY <1>0, <1>1, <2>0 DEF GateInv, NotifySound
  <2>5. \A q \in Requests : request'[q] = "asleep" =>
           q \in fired' \/ \E i \in 1..Len(sleepers') : sleepers'[i] = q
    <3> SUFFICES ASSUME NEW q \in Requests, request'[q] = "asleep", q \notin fired'
                 PROVE  \E i \in 1..Len(sleepers') : sleepers'[i] = q
      OBVIOUS
    <3>1. q # r /\ request[q] = "asleep" /\ q \notin fired /\ q # h
      BY <1>1, <2>0
    <3>2. PICK m \in 1..Len(sleepers) : sleepers[m] = q
      BY <3>1 DEF GateInv, NotifySound, Registered
    <3>3. m # 1
      BY <3>1, <3>2 DEF h
    <3> QED
      BY <2>2, <3>2, <3>3
  <2>6. NotifySound'
    BY <2>2, <2>3, <2>4, <2>5 DEF NotifySound, Registered
  <2>7. ASSUME NEW s \in Requests, Sleeps(s)'
        PROVE  /\ Sleeps(s) /\ Due(s) \ {r} \subseteq Due(s)'
               /\ h \in Due(s)' /\ h \notin Due(s)
               /\ IsFiniteSet(Due(s)) /\ IsFiniteSet(Due(s)')
    <3>1. Sleeps(s)
      BY <1>1, <2>0, <2>7 DEF Sleeps
    <3>2. ASSUME NEW q \in Requests, Before(q, s)'
          PROVE  Before(q, s)
      <4>1. PICK i \in 1..Len(sleepers'), j \in 1..Len(sleepers') :
              i < j /\ sleepers'[i] = q /\ sleepers'[j] = s
        BY <3>2 DEF Before
      <4>2. Before(sleepers'[i], sleepers'[j])
        BY <2>2, <4>1
      <4> QED
        BY <4>1, <4>2
    <3>3. Due(s) \ {r} \subseteq Due(s)'
      BY <1>0, <1>1, <2>0, <3>2 DEF Due
    <3>4. Due(s)' \subseteq Requests
      BY <2>1 DEF Due, GateTypeOK
    <3> QED
      BY <1>0, <2>0, <3>1, <3>3, <3>4, SleeperQueued, FS_Subset DEF Due
  <2> QED
    BY <2>0, <2>1, <2>6, <2>7
<1> QED
  BY <1>2, <1>3

(* One that leaves the queue takes nothing from the others. *)
LEMMA UnregisterKeeps ==
  ASSUME GateInv, NEW r \in Requests, NEW phase \in RequestPhases \ {"asleep", "checking"},
         request' = [request EXCEPT ![r] = phase],
         r \notin fired, Unregister(r), UNCHANGED <<fired, stored>>,
         limit' \in Nat, inFlight' \in Int
  PROVE  /\ GateTypeOK' /\ NotifySound'
         /\ \A s \in Requests : Sleeps(s)' =>
              /\ Sleeps(s) /\ Due(s) \ {r} \subseteq Due(s)'
              /\ IsFiniteSet(Due(s)) /\ IsFiniteSet(Due(s)')
<1>0. /\ sleepers \in Seq(Requests) /\ IsFiniteSet(Requests) /\ fired \subseteq Requests
      /\ stored \in BOOLEAN /\ request \in [Requests -> RequestPhases]
  BY RequestGateAssumption DEF GateInv, GateTypeOK
<1>1. /\ request'[r] = phase /\ \A q \in Requests \ {r} : request'[q] = request[q]
      /\ request' \in [Requests -> RequestPhases]
  BY <1>0
<1>2. /\ sleepers' \in Seq(Requests)
      /\ \A i, j \in 1..Len(sleepers') : sleepers'[i] = sleepers'[j] => i = j
      /\ \A i \in 1..Len(sleepers') : /\ sleepers'[i] # r
                                      /\ \E m \in 1..Len(sleepers) : sleepers'[i] = sleepers[m]
      /\ \A m \in 1..Len(sleepers) : sleepers[m] # r => \E i \in 1..Len(sleepers') : sleepers'[i] = sleepers[m]
      /\ \A i, j \in 1..Len(sleepers') : i < j => Before(sleepers'[i], sleepers'[j])
  <2>1. CASE sleepers' = sleepers /\ ~Registered(r)
    BY <1>0, <2>1 DEF Registered, Before, GateInv, NotifySound
  <2>2. CASE \E k \in 1..Len(sleepers) : sleepers[k] = r /\ Shortened(sleepers', k)
    <3> DEFINE t == sleepers'
    <3>1. PICK k \in 1..Len(sleepers) : sleepers[k] = r /\ Shortened(t, k)
      BY <2>2
    <3> HIDE DEF t
    <3>2. /\ \A i, j \in 1..Len(t) : t[i] = t[j] => i = j
          /\ \A i \in 1..Len(t) : /\ t[i] # sleepers[k]
                                  /\ \E m \in 1..Len(sleepers) : t[i] = sleepers[m]
          /\ \A m \in 1..Len(sleepers) : m # k => \E i \in 1..Len(t) : t[i] = sleepers[m]
          /\ \A i, j \in 1..Len(t) : i < j => Before(t[i], t[j])
      BY <3>1, ShortenedQueue
    <3>3. t \in Seq(Requests)
      BY <3>1 DEF Shortened
    <3>4. \A m \in 1..Len(sleepers) : sleepers[m] # r => m # k
      BY <3>1
    <3> QED
      BY <3>1, <3>2, <3>3, <3>4 DEF t
  <2> QED
    BY <2>1, <2>2, UnregisterShortens
<1>3. GateTypeOK'
  BY <1>0, <1>1, <1>2 DEF GateTypeOK
<1>4. \A i \in 1..Len(sleepers') : /\ sleepers'[i] \notin fired'
                                   /\ sleepers'[i] \in Requests \ {r}
                                   /\ request'[sleepers'[i]] \in {"checking", "asleep"}
  <2> SUFFICES ASSUME NEW i \in 1..Len(sleepers')
               PROVE  /\ sleepers'[i] \notin fired'
                      /\ sleepers'[i] \in Requests \ {r}
                      /\ request'[sleepers'[i]] \in {"checking", "asleep"}
    OBVIOUS
  <2>1. PICK m \in 1..Len(sleepers) : sleepers'[i] = sleepers[m]
    BY <1>2
  <2>2. /\ sleepers[m] \in Requests /\ sleepers[m] \notin fired /\ sleepers[m] # r
        /\ request[sleepers[m]] \in {"checking", "asleep"}
    BY <1>0, <1>2, <2>1 DEF GateInv, NotifySound
  <2> QED
    BY <1>1, <2>1, <2>2
<1>5. \A q \in fired' : request'[q] \in {"checking", "asleep"}
  BY <1>0, <1>1 DEF GateInv, NotifySound
<1>6. \A q \in Requests : request'[q] = "asleep" =>
         q \in fired' \/ \E i \in 1..Len(sleepers') : sleepers'[i] = q
  <2> SUFFICES ASSUME NEW q \in Requests, request'[q] = "asleep", q \notin fired'
               PROVE  \E i \in 1..Len(sleepers') : sleepers'[i] = q
    OBVIOUS
  <2>1. q # r /\ request[q] = "asleep" /\ q \notin fired
    BY <1>1
  <2>2. PICK m \in 1..Len(sleepers) : sleepers[m] = q
    BY <2>1 DEF GateInv, NotifySound, Registered
  <2> QED
    BY <1>2, <2>1, <2>2
<1>7. NotifySound'
  BY <1>2, <1>4, <1>5, <1>6 DEF NotifySound, Registered
<1>8. ASSUME NEW s \in Requests, Sleeps(s)'
      PROVE  /\ Sleeps(s) /\ Due(s) \ {r} \subseteq Due(s)'
             /\ IsFiniteSet(Due(s)) /\ IsFiniteSet(Due(s)')
  <2>1. Sleeps(s)
    BY <1>1, <1>8 DEF Sleeps
  <2>2. ASSUME NEW q \in Requests, Before(q, s)'
        PROVE  Before(q, s)
    <3>1. PICK i \in 1..Len(sleepers'), j \in 1..Len(sleepers') :
            i < j /\ sleepers'[i] = q /\ sleepers'[j] = s
      BY <2>2 DEF Before
    <3>2. Before(sleepers'[i], sleepers'[j])
      BY <1>2, <3>1
    <3> QED
      BY <3>1, <3>2
  <2>3. Due(s) \ {r} \subseteq Due(s)'
    BY <1>0, <1>1, <2>2 DEF Due
  <2>4. Due(s)' \subseteq Requests /\ Due(s) \subseteq Requests
    BY <1>0, <1>3 DEF Due, GateTypeOK
  <2> QED
    BY <1>0, <2>1, <2>3, <2>4, FS_Subset
<1> QED
  BY <1>3, <1>7, <1>8

\* Fewer lanes are free, and no fewer are due.
LEMMA FewerFree ==
  ASSUME NEW l \in Nat, NEW f \in Int, NEW ll \in Nat, NEW ff \in Int, NEW d \in Nat, NEW dd \in Nat,
         ll - ff <= l - f, ff < ll, d <= dd
  PROVE  /\ f < l
         /\ l - f <= d => ll - ff <= dd
OBVIOUS

(* A step of the gate after which no fewer are due for any sleeper. *)
LEMMA CoverKept ==
  ASSUME GateInv, GateTypeOK', NotifySound',
         limit' - inFlight' <= limit - inFlight,
         \A s \in Requests : Sleeps(s)' /\ inFlight' < limit' =>
           Sleeps(s) /\ Cardinality(Due(s)) <= Cardinality(Due(s)')
           /\ Cardinality(Due(s)) \in Nat /\ Cardinality(Due(s)') \in Nat
  PROVE  GateInv'
<1>1. ASSUME NEW s \in Requests, Sleeps(s)', inFlight' < limit'
      PROVE  limit' - inFlight' <= Cardinality(Due(s)')
  <2>1. /\ Sleeps(s) /\ Cardinality(Due(s)) <= Cardinality(Due(s)')
        /\ Cardinality(Due(s)) \in Nat /\ Cardinality(Due(s)') \in Nat
    BY <1>1
  <2>2. limit \in Nat /\ inFlight \in Int /\ limit' \in Nat /\ inFlight' \in Int
    BY DEF GateInv, GateTypeOK
  <2>3. inFlight < limit
    BY <1>1, <2>1, <2>2, FewerFree
  <2>4. limit - inFlight <= Cardinality(Due(s))
    BY <2>1, <2>3 DEF GateInv, LanesCovered
  <2> QED
    BY <1>1, <2>1, <2>2, <2>4, FewerFree
<1> QED
  BY <1>1 DEF GateInv, LanesCovered

\* The gate opens with nobody asleep.
LEMMA GateInvInit == GateInit => GateInv
<1> SUFFICES ASSUME GateInit PROVE GateInv
  OBVIOUS
<1>1. Cardinality(Requests) \in Nat
  BY RequestGateAssumption, FS_CardinalityType
<1>2. GateTypeOK
  <2>1. limit \in Nat /\ inFlight \in Int
    BY <1>1 DEF GateInit, Unbounded
  <2>2. request \in [Requests -> RequestPhases]
    BY DEF GateInit, RequestPhases
  <2>3. sleepers \in Seq(Requests) /\ fired \subseteq Requests
    BY DEF GateInit
  <2>4. stored \in BOOLEAN
    BY DEF GateInit
  <2> QED
    BY <2>1, <2>2, <2>3, <2>4 DEF GateTypeOK
<1>3. Len(sleepers) = 0 /\ fired = {} /\ \A r \in Requests : request[r] = "unsent"
  BY DEF GateInit
<1>4. NotifySound
  BY <1>3 DEF NotifySound
<1>5. LanesCovered
  BY <1>3 DEF LanesCovered, Sleeps
<1> QED
  BY <1>2, <1>4, <1>5 DEF GateInv

\* No step of a request, of the Notify or of an adapter breaks the invariant.
LEMMA GateInvStep == GateInv /\ [GateNext]_gateVars => GateInv'
<1> SUFFICES ASSUME GateInv, [GateNext]_gateVars PROVE GateInv'
  OBVIOUS
<1>0. /\ limit \in Nat /\ inFlight \in Int /\ IsFiniteSet(Requests)
      /\ request \in [Requests -> RequestPhases] /\ sleepers \in Seq(Requests)
      /\ fired \subseteq Requests /\ stored \in BOOLEAN
  BY RequestGateAssumption DEF GateInv, GateTypeOK
<1>g. \* whose due only grow
  ASSUME GateTypeOK', NotifySound', limit' - inFlight' <= limit - inFlight,
         \A s \in Requests : Sleeps(s)' /\ inFlight' < limit' =>
           Sleeps(s) /\ Due(s) \subseteq Due(s)'
  PROVE  GateInv'
  <2>1. \A s \in Requests : Due(s) \subseteq Requests /\ Due(s)' \subseteq Requests
    BY <1>0, <1>g DEF Due, GateTypeOK
  <2>2. ASSUME NEW s \in Requests, Sleeps(s)', inFlight' < limit'
        PROVE  /\ Sleeps(s) /\ Cardinality(Due(s)) <= Cardinality(Due(s)')
               /\ Cardinality(Due(s)) \in Nat /\ Cardinality(Due(s)') \in Nat
    <3>1. Sleeps(s) /\ Due(s) \subseteq Due(s)'
      BY <1>g, <2>2
    <3>2. IsFiniteSet(Due(s)) /\ IsFiniteSet(Due(s)')
      BY <1>0, <2>1, FS_Subset
    <3> QED
      BY <3>1, <3>2, FS_Subset, FS_CardinalityType
  <2> QED
    BY <1>g, <2>2, CoverKept
<1>1. ASSUME NEW r \in Requests, Ask(r) PROVE GateInv'
  <2>1. /\ request[r] = "unsent" /\ request' = [request EXCEPT ![r] = "arming"]
        /\ UNCHANGED <<limit, inFlight, sleepers, fired, stored>>
    BY <1>1 DEF Ask
  <2>2. /\ request'[r] = "arming" /\ \A q \in Requests \ {r} : request'[q] = request[q]
        /\ request' \in [Requests -> RequestPhases]
    BY <1>0, <2>1 DEF RequestPhases
  <2>3. GateTypeOK'
    BY <1>0, <2>1, <2>2 DEF GateTypeOK
  <2>4. NotifySound'
    <3>1. r \notin fired /\ \A i \in 1..Len(sleepers) : sleepers[i] # r /\ sleepers[i] \in Requests
      BY <1>0, <2>1 DEF GateInv, NotifySound
    <3> QED
      BY <1>0, <2>1, <2>2, <3>1 DEF GateInv, NotifySound, Registered
  <2>5. \A s \in Requests : Sleeps(s)' => Sleeps(s) /\ Due(s) \subseteq Due(s)'
    BY <2>1, <2>2 DEF Sleeps, Due, Before
  <2>6. limit' - inFlight' <= limit - inFlight
    BY <1>0, <2>1
  <2> QED
    BY <1>g, <2>3, <2>4, <2>5, <2>6
<1>2. ASSUME NEW r \in Requests, Arm(r) PROVE GateInv'
  <2>1. /\ request[r] = "arming" /\ request' = [request EXCEPT ![r] = "checking"]
        /\ sleepers' = IF stored THEN sleepers ELSE Append(sleepers, r)
        /\ stored' = FALSE /\ UNCHANGED <<limit, inFlight, fired>>
    BY <1>2 DEF Arm
  <2>2. /\ request'[r] = "checking" /\ \A q \in Requests \ {r} : request'[q] = request[q]
        /\ request' \in [Requests -> RequestPhases]
    BY <1>0, <2>1 DEF RequestPhases
  <2>3. r \notin fired /\ \A i \in 1..Len(sleepers) : sleepers[i] # r /\ sleepers[i] \in Requests
    BY <1>0, <2>1 DEF GateInv, NotifySound
  <2>4. /\ sleepers' \in Seq(Requests)
        /\ Len(sleepers) \in Nat /\ Len(sleepers') \in {Len(sleepers), Len(sleepers) + 1}
        /\ \A i \in 1..Len(sleepers) : sleepers'[i] = sleepers[i]
        /\ \A i \in 1..Len(sleepers') : i \in 1..Len(sleepers) \/ (sleepers'[i] = r /\ i = Len(sleepers) + 1)
    <3>1. CASE sleepers' = sleepers
      BY <1>0, <3>1
    <3>2. CASE sleepers' = Append(sleepers, r)
      <4>1. /\ Append(sleepers, r) \in Seq(Requests) /\ Len(Append(sleepers, r)) = Len(sleepers) + 1
            /\ Len(sleepers) \in Nat /\ Append(sleepers, r)[Len(sleepers) + 1] = r
            /\ \A i \in 1..Len(sleepers) : Append(sleepers, r)[i] = sleepers[i]
        BY <1>0, AppendProperties
      <4> QED
        BY <3>2, <4>1
    <3>3. sleepers' = sleepers \/ sleepers' = Append(sleepers, r)
      BY <2>1
    <3> QED
      BY <3>1, <3>2, <3>3
  <2>5. GateTypeOK'
    <3>1. stored' \in BOOLEAN
      BY <2>1
    <3> QED
      BY <1>0, <2>1, <2>2, <2>4, <3>1 DEF GateTypeOK
  <2>6. NotifySound'
    <3>1. \A i, j \in 1..Len(sleepers') : sleepers'[i] = sleepers'[j] => i = j
      BY <2>3, <2>4 DEF GateInv, NotifySound
    <3>2. \A i \in 1..Len(sleepers') : /\ sleepers'[i] \notin fired'
                                       /\ request'[sleepers'[i]] \in {"checking", "asleep"}
      BY <2>1, <2>2, <2>3, <2>4 DEF GateInv, NotifySound
    <3>3. \A q \in fired' : request'[q] \in {"checking", "asleep"}
      BY <1>0, <2>1, <2>2 DEF GateInv, NotifySound
    <3>4. ASSUME NEW q \in Requests, request'[q] = "asleep"
          PROVE  q \in fired' \/ \E i \in 1..Len(sleepers') : sleepers'[i] = q
      <4>1. q \in fired \/ \E i \in 1..Len(sleepers) : sleepers[i] = q
        BY <2>2, <3>4 DEF GateInv, NotifySound, Registered
      <4>2. 1..Len(sleepers) \subseteq 1..Len(sleepers')
        BY <2>4
      <4> QED
        BY <2>1, <2>4, <4>1, <4>2
    <3> QED
      BY <3>1, <3>2, <3>3, <3>4 DEF NotifySound, Registered
  <2>7. ASSUME NEW s \in Requests, Sleeps(s)'
        PROVE  Sleeps(s) /\ Due(s) \subseteq Due(s)'
    <3>1. s # r /\ Sleeps(s)
      BY <2>1, <2>2, <2>7 DEF Sleeps
    <3>2. ASSUME NEW q \in Requests, Before(q, s)'
          PROVE  q # r /\ Before(q, s)
      <4>1. PICK i \in 1..Len(sleepers'), j \in 1..Len(sleepers') :
              i < j /\ sleepers'[i] = q /\ sleepers'[j] = s
        BY <3>2 DEF Before
      <4>2. j \in 1..Len(sleepers)
        BY <2>4, <3>1, <4>1
      <4>3. i \in 1..Len(sleepers)
        BY <2>4, <4>1, <4>2
      <4> QED
        BY <2>3, <2>4, <4>1, <4>2, <4>3 DEF Before
    <3> QED
      BY <2>1, <2>2, <3>1, <3>2 DEF Due
  <2>8. limit' - inFlight' <= limit - inFlight
    BY <1>0, <2>1
  <2> QED
    BY <1>g, <2>5, <2>6, <2>7, <2>8
<1>3. ASSUME NEW r \in Requests, TakeLane(r) PROVE GateInv'
  <2>1. /\ request[r] = "checking" /\ inFlight < limit /\ inFlight' = inFlight + 1
        /\ request' = [request EXCEPT ![r] = "holding"] /\ limit' = limit /\ Forget(r)
    BY <1>3 DEF TakeLane
  <2>2. limit' \in Nat /\ inFlight' \in Int /\ "holding" \in RequestPhases \ {"asleep", "checking"}
    BY <1>0, <2>1 DEF RequestPhases
  <2>3. CASE r \in fired
    <3>1. ~Registered(r) /\ NotifyOne(sleepers, fired \ {r}, stored)
      BY <2>1, <2>3 DEF Forget, Registered, GateInv, NotifySound
    <3>2. /\ GateTypeOK' /\ NotifySound'
          /\ \A s \in Requests : Sleeps(s)' =>
               /\ Sleeps(s) /\ Due(s) \ {r} \subseteq Due(s)'
               /\ Head(sleepers) \in Due(s)' /\ Head(sleepers) \notin Due(s)
               /\ IsFiniteSet(Due(s)) /\ IsFiniteSet(Due(s)')
      BY <2>1, <2>2, <3>1, NotifyReaches
    <3>3. limit' - inFlight' <= limit - inFlight
      BY <1>0, <2>1
    <3>4. ASSUME NEW s \in Requests, Sleeps(s)'
          PROVE  /\ Sleeps(s) /\ Cardinality(Due(s)) <= Cardinality(Due(s)')
                 /\ Cardinality(Due(s)) \in Nat /\ Cardinality(Due(s)') \in Nat
      BY <3>2, <3>4, CountSwap
    <3> QED
      BY <3>2, <3>3, <3>4, CoverKept
  <2>4. CASE r \notin fired
    <3>1. Unregister(r) /\ UNCHANGED <<fired, stored>>
      BY <2>1, <2>4 DEF Forget
    <3>2. /\ GateTypeOK' /\ NotifySound'
          /\ \A s \in Requests : Sleeps(s)' =>
               /\ Sleeps(s) /\ Due(s) \ {r} \subseteq Due(s)'
               /\ IsFiniteSet(Due(s)) /\ IsFiniteSet(Due(s)')
      BY <2>1, <2>2, <2>4, <3>1, UnregisterKeeps
    <3>3. ASSUME NEW s \in Requests, Sleeps(s)'
          PROVE  limit' - inFlight' <= Cardinality(Due(s)')
      <4>1. /\ Cardinality(Due(s)) \in Nat /\ Cardinality(Due(s)') \in Nat
            /\ Cardinality(Due(s)) - 1 <= Cardinality(Due(s)')
        BY <3>2, <3>3, CountWithout
      <4>2. limit - inFlight <= Cardinality(Due(s))
        BY <2>1, <3>2, <3>3 DEF GateInv, LanesCovered
      <4> QED
        BY <1>0, <2>1, <4>1, <4>2
    <3> QED
      BY <3>2, <3>3 DEF GateInv, LanesCovered
  <2> QED
    BY <2>3, <2>4
<1>4. ASSUME NEW r \in Requests, FindNoLane(r) PROVE GateInv'
  <2>1. /\ request[r] = "checking" /\ inFlight >= limit
        /\ request' = [request EXCEPT ![r] = IF r \in fired \/ Registered(r) THEN "asleep" ELSE "arming"]
        /\ UNCHANGED <<limit, inFlight, sleepers, fired, stored>>
    BY <1>4 DEF FindNoLane
  <2>2. /\ request'[r] = IF r \in fired \/ Registered(r) THEN "asleep" ELSE "arming"
        /\ \A q \in Requests \ {r} : request'[q] = request[q]
        /\ request' \in [Requests -> RequestPhases]
    BY <1>0, <2>1 DEF RequestPhases
  <2>3. GateTypeOK'
    BY <1>0, <2>1, <2>2 DEF GateTypeOK
  <2>4. NotifySound'
    <3>1. \A i \in 1..Len(sleepers) : sleepers[i] \in Requests
      BY <1>0
    <3>2. \A i \in 1..Len(sleepers) : request'[sleepers[i]] \in {"checking", "asleep"}
      BY <2>2, <3>1 DEF GateInv, NotifySound, Registered
    <3>3. \A q \in fired : request'[q] \in {"checking", "asleep"}
      BY <1>0, <2>2 DEF GateInv, NotifySound
    <3>4. \A q \in Requests : request'[q] = "asleep" => q \in fired \/ Registered(q)
      BY <2>2 DEF GateInv, NotifySound
    <3> QED
      BY <2>1, <3>2, <3>3, <3>4 DEF GateInv, NotifySound, Registered
  <2>5. ~(inFlight' < limit')
    BY <1>0, <2>1
  <2> QED
    BY <2>3, <2>4, <2>5 DEF GateInv, LanesCovered
<1>5. ASSUME NEW r \in Requests, WakeUp(r) PROVE GateInv'
  <2>1. /\ request[r] = "asleep" /\ r \in fired /\ fired' = fired \ {r}
        /\ request' = [request EXCEPT ![r] = "arming"]
        /\ UNCHANGED <<limit, inFlight, sleepers, stored>>
    BY <1>5 DEF WakeUp
  <2>2. /\ request'[r] = "arming" /\ \A q \in Requests \ {r} : request'[q] = request[q]
        /\ request' \in [Requests -> RequestPhases]
    BY <1>0, <2>1 DEF RequestPhases
  <2>3. GateTypeOK'
    BY <1>0, <2>1, <2>2 DEF GateTypeOK
  <2>4. NotifySound'
    <3>1. \A i \in 1..Len(sleepers) : sleepers[i] # r /\ sleepers[i] \in Requests
      BY <1>0, <2>1 DEF GateInv, NotifySound
    <3> QED
      BY <1>0, <2>1, <2>2, <3>1 DEF GateInv, NotifySound, Registered
  <2>5. \A s \in Requests : Sleeps(s)' => Sleeps(s) /\ Due(s) \subseteq Due(s)'
    BY <2>1, <2>2 DEF Sleeps, Due, Before
  <2>6. limit' - inFlight' <= limit - inFlight
    BY <1>0, <2>1
  <2> QED
    BY <1>g, <2>3, <2>4, <2>5, <2>6
<1>6. ASSUME NEW r \in Requests, ReturnLane(r) PROVE GateInv'
  <2>1. /\ request[r] = "holding" /\ inFlight' = inFlight - 1
        /\ request' = [request EXCEPT ![r] = "leaving"]
        /\ UNCHANGED <<limit, sleepers, fired, stored>>
    BY <1>6 DEF ReturnLane
  <2>2. /\ request'[r] = "leaving" /\ \A q \in Requests \ {r} : request'[q] = request[q]
        /\ request' \in [Requests -> RequestPhases]
    BY <1>0, <2>1 DEF RequestPhases
  <2>3. GateTypeOK'
    BY <1>0, <2>1, <2>2 DEF GateTypeOK
  <2>4. r \notin fired /\ \A i \in 1..Len(sleepers) : sleepers[i] # r /\ sleepers[i] \in Requests
    BY <1>0, <2>1 DEF GateInv, NotifySound
  <2>5. NotifySound'
    BY <1>0, <2>1, <2>2, <2>4 DEF GateInv, NotifySound, Registered
  <2>6. ASSUME NEW s \in Requests, Sleeps(s)', inFlight' < limit'
        PROVE  limit' - inFlight' <= Cardinality(Due(s)')
    <3>1. Sleeps(s) /\ Due(s) \subseteq Due(s)' /\ r \in Due(s)' /\ r \notin Due(s)
      BY <2>1, <2>2, <2>4, <2>6 DEF Sleeps, Due, Before
    <3>2. Due(s)' \subseteq Requests /\ Due(s) \subseteq Requests
      BY <1>0, <2>3 DEF Due, GateTypeOK
    <3>3. /\ Cardinality(Due(s)) \in Nat /\ Cardinality(Due(s)') \in Nat
          /\ Cardinality(Due(s)) + 1 <= Cardinality(Due(s)')
      BY <1>0, <3>1, <3>2, CountMore, FS_Subset
    <3>4. inFlight < limit => limit - inFlight <= Cardinality(Due(s))
      BY <3>1 DEF GateInv, LanesCovered
    <3> QED
      BY <1>0, <2>1, <3>3, <3>4
  <2> QED
    BY <2>3, <2>5, <2>6 DEF GateInv, LanesCovered
<1>7. ASSUME NEW r \in Requests, Notify(r) PROVE GateInv'
  <2>1. /\ request[r] = "leaving" /\ request' = [request EXCEPT ![r] = "done"]
        /\ NotifyOne(sleepers, fired, stored) /\ UNCHANGED <<limit, inFlight>>
    BY <1>7 DEF Notify
  <2>2. limit' \in Nat /\ inFlight' \in Int /\ "done" \in RequestPhases \ {"asleep", "checking"}
    BY <1>0, <2>1 DEF RequestPhases
  <2>3. r \notin fired /\ ~Registered(r)
    BY <2>1 DEF Registered, GateInv, NotifySound
  <2>4. NotifyOne(sleepers, fired \ {r}, stored)
    <3>1. fired \ {r} = fired
      BY <2>3
    <3> QED
      BY <2>1, <3>1
  <2>5. /\ GateTypeOK' /\ NotifySound'
        /\ \A s \in Requests : Sleeps(s)' =>
             /\ Sleeps(s) /\ Due(s) \ {r} \subseteq Due(s)'
             /\ Head(sleepers) \in Due(s)' /\ Head(sleepers) \notin Due(s)
             /\ IsFiniteSet(Due(s)) /\ IsFiniteSet(Due(s)')
    BY <2>1, <2>2, <2>3, <2>4, NotifyReaches
  <2>6. limit' - inFlight' <= limit - inFlight
    BY <1>0, <2>1
  <2>7. ASSUME NEW s \in Requests, Sleeps(s)'
        PROVE  /\ Sleeps(s) /\ Cardinality(Due(s)) <= Cardinality(Due(s)')
               /\ Cardinality(Due(s)) \in Nat /\ Cardinality(Due(s)') \in Nat
    BY <2>5, <2>7, CountSwap
  <2> QED
    BY <2>5, <2>6, <2>7, CoverKept
<1>8. ASSUME NEW r \in Requests, Abandon(r) PROVE GateInv'
  <2>1. /\ request[r] = "asleep" /\ request' = [request EXCEPT ![r] = "done"]
        /\ Forget(r) /\ UNCHANGED <<limit, inFlight>>
    BY <1>8 DEF Abandon
  <2>2. limit' \in Nat /\ inFlight' \in Int /\ "done" \in RequestPhases \ {"asleep", "checking"}
    BY <1>0, <2>1 DEF RequestPhases
  <2>3. limit' - inFlight' <= limit - inFlight
    BY <1>0, <2>1
  <2>4. CASE r \in fired
    <3>1. ~Registered(r) /\ NotifyOne(sleepers, fired \ {r}, stored)
      BY <2>1, <2>4 DEF Forget, Registered, GateInv, NotifySound
    <3>2. /\ GateTypeOK' /\ NotifySound'
          /\ \A s \in Requests : Sleeps(s)' =>
               /\ Sleeps(s) /\ Due(s) \ {r} \subseteq Due(s)'
               /\ Head(sleepers) \in Due(s)' /\ Head(sleepers) \notin Due(s)
               /\ IsFiniteSet(Due(s)) /\ IsFiniteSet(Due(s)')
      BY <2>1, <2>2, <3>1, NotifyReaches
    <3>4. ASSUME NEW s \in Requests, Sleeps(s)'
          PROVE  /\ Sleeps(s) /\ Cardinality(Due(s)) <= Cardinality(Due(s)')
                 /\ Cardinality(Due(s)) \in Nat /\ Cardinality(Due(s)') \in Nat
      BY <3>2, <3>4, CountSwap
    <3> QED
      BY <2>3, <3>2, <3>4, CoverKept
  <2>5. CASE r \notin fired
    <3>1. Unregister(r) /\ UNCHANGED <<fired, stored>>
      BY <2>1, <2>5 DEF Forget
    <3>2. /\ GateTypeOK' /\ NotifySound'
          /\ \A s \in Requests : Sleeps(s)' =>
               /\ Sleeps(s) /\ Due(s) \ {r} \subseteq Due(s)'
               /\ IsFiniteSet(Due(s)) /\ IsFiniteSet(Due(s)')
      BY <2>1, <2>2, <2>5, <3>1, UnregisterKeeps
    <3>3. \A s \in Requests : r \notin Due(s)
      BY <2>1, <2>5 DEF Due
    <3> QED
      BY <1>g, <2>3, <3>2, <3>3
  <2> QED
    BY <2>4, <2>5
<1>9. ASSUME NEW c \in Ceilings, NarrowTo(c) PROVE GateInv'
  <2>1. /\ Stated(c) < limit /\ limit' = Stated(c) /\ Stated(c) \in Nat
        /\ UNCHANGED <<inFlight, request, sleepers, fired, stored>>
    BY <1>9, RequestGateAssumption DEF NarrowTo, Stated
  <2>2. GateTypeOK' /\ NotifySound'
    BY <1>0, <2>1 DEF GateTypeOK, GateInv, NotifySound, Registered
  <2>3. limit' - inFlight' <= limit - inFlight
    BY <1>0, <2>1
  <2>4. \A s \in Requests : Sleeps(s)' => Sleeps(s) /\ Due(s) \subseteq Due(s)'
    BY <2>1 DEF Sleeps, Due, Before
  <2> QED
    BY <1>g, <2>2, <2>3, <2>4
<1>10. CASE UNCHANGED gateVars
  BY <1>10 DEF gateVars, GateInv, GateTypeOK, NotifySound, Registered, LanesCovered, Sleeps,
               Due, Before
<1> QED
  BY <1>1, <1>2, <1>3, <1>4, <1>5, <1>6, <1>7, <1>8, <1>9, <1>10 DEF GateNext, GateStep

\* A request sleeps only while the lanes it could have are spoken for, by a wakeup under
\* way or a request about to look: for any number of requests and any ceilings (gate.rs,
\* acquire, RequestPermit's drop and narrow_to).
THEOREM LanesNeverLost == GateSpec => []WakeupsCoverLanes
<1>1. GateInv => WakeupsCoverLanes
  <2> SUFFICES ASSUME GateInv, NEW s \in Requests, Sleeps(s), inFlight < limit
               PROVE  limit - inFlight <=
                        Cardinality(fired \cup {r \in Requests :
                          request[r] \in {"arming", "checking", "leaving"}})
    BY DEF WakeupsCoverLanes, Sleeps
  <2> DEFINE all == fired \cup {r \in Requests : request[r] \in {"arming", "checking", "leaving"}}
  <2>1. Due(s) \subseteq all /\ all \subseteq Requests
    BY DEF Due, GateInv, GateTypeOK
  <2> HIDE DEF all
  <2>2. IsFiniteSet(all) /\ IsFiniteSet(Due(s))
    BY <2>1, RequestGateAssumption, FS_Subset
  <2>3. Cardinality(Due(s)) <= Cardinality(all) /\ Cardinality(Due(s)) \in Nat /\ Cardinality(all) \in Nat
    BY <2>1, <2>2, FS_Subset, FS_CardinalityType
  <2>4. limit - inFlight <= Cardinality(Due(s)) /\ limit \in Nat /\ inFlight \in Int
    BY DEF GateInv, LanesCovered, GateTypeOK
  <2>5. limit - inFlight <= Cardinality(all)
    BY <2>3, <2>4
  <2> QED
    BY <2>5 DEF all
<1> QED
  BY <1>1, GateInvInit, GateInvStep, PTL DEF GateSpec

-------------------------------------------------------------------------------
(* One call of the funnel *)

CallEnds == {"none", "notReceived", "unknown", "applied", "refused"}

SendTypeOK ==
  /\ kind \in {"idempotent", "write", "submission"}
  /\ pieces \in Nat
  /\ exchange \in [phase : {"idle", "sending", "replied", "over"}, left : Nat,
                   gate : {"closed", "asked", "open", "refused"}, got : BOOLEAN,
                   acted : BOOLEAN, status : Statuses \cup {"none"}]
  /\ recorded \in BOOLEAN
  /\ applied \in Nat
  /\ end \in CallEnds

\* A gate that opened recorded the hand-over, and one that is asked, or refused,
\* holds the last piece back.
GateHolds ==
  /\ kind = "submission" /\ exchange.gate = "open" => recorded
  /\ exchange.gate \in {"asked", "refused"} => kind = "submission"
  /\ exchange.phase = "sending" /\ exchange.gate \in {"asked", "refused"} => exchange.left = 1

\* A submission all of whose pieces are out was recorded.
WholeRecorded ==
  kind = "submission" /\ exchange.phase \in {"sending", "replied"} /\ exchange.left = 0
    => recorded

\* A server has only what went out and acts only on what it has.
ServerSound ==
  exchange.phase = "sending" =>
    /\ exchange.got => exchange.left = 0
    /\ exchange.acted => exchange.got

\* Where an attempt stands tells how often a request that is not idempotent was
\* applied: a replay follows only an attempt that applied nothing.
AppliedSound ==
  kind # "idempotent" =>
    /\ applied <= 1
    /\ exchange.phase = "idle" => applied = 0
    /\ exchange.phase \in {"sending", "replied"} => (applied = 1 <=> exchange.acted)
    /\ exchange.phase = "replied" /\ exchange.acted => exchange.status \in {"200", "502", "503"}

\* A call that ended takes no further step.
EndedIsOver == end # "none" => exchange.phase = "over"

SendInv ==
  /\ SendTypeOK /\ GateHolds /\ WholeRecorded /\ HandedOverFirst
  /\ ServerSound /\ AppliedSound /\ EndedIsOver /\ NotReceivedIsUnapplied

\* A call starts with nothing sent.
LEMMA SendInvInit == SendInit => SendInv
<1> SUFFICES ASSUME SendInit PROVE SendInv
  OBVIOUS
<1>1. pieces \in Nat
  BY HttpSendAssumption DEF SendInit
<1>2. /\ exchange.phase = "idle" /\ exchange.gate = "closed" /\ ~exchange.got
      /\ recorded = FALSE /\ applied = 0 /\ end = "none"
  BY DEF SendInit
<1>3. SendTypeOK
  BY <1>1 DEF SendInit, SendTypeOK, Statuses, CallEnds
<1> QED
  BY <1>2, <1>3
     DEF SendInv, GateHolds, WholeRecorded, HandedOverFirst, ServerSound, AppliedSound,
         EndedIsOver, NotReceivedIsUnapplied

\* No step of the funnel, of the server or of the network breaks the invariant.
LEMMA SendInvStep == SendInv /\ [SendNext]_sendVars => SendInv'
<1> SUFFICES ASSUME SendInv, [SendNext]_sendVars PROVE SendInv'
  OBVIOUS
<1> USE DEF SendInv, SendTypeOK, GateHolds, WholeRecorded, HandedOverFirst, ServerSound,
            AppliedSound, EndedIsOver, NotReceivedIsUnapplied, CallEnds
<1>1. CASE Begin
  <2>1. exchange' = [phase |-> "sending", left |-> pieces, gate |-> "closed", got |-> FALSE,
                     acted |-> FALSE, status |-> "none"]
        /\ recorded' = (recorded \/ (kind = "submission" /\ pieces = 0))
        /\ UNCHANGED <<kind, pieces, applied, end>>
        /\ exchange.phase = "idle" /\ end = "none"
    BY <1>1 DEF Begin, Fresh
  <2>2. /\ exchange'.phase = "sending" /\ exchange'.left = pieces
        /\ exchange'.gate = "closed" /\ exchange'.got = FALSE /\ exchange'.acted = FALSE
    BY <2>1
  <2>3. recorded' \in BOOLEAN /\ (kind = "submission" /\ pieces = 0 => recorded')
    BY <2>1
  <2>4. SendTypeOK'
    BY <2>1, <2>3
  <2> QED
    BY <2>1, <2>2, <2>3, <2>4
<1>2. CASE BeginWithheld
  BY <1>2 DEF BeginWithheld
<1>3. CASE HandPiece
  BY <1>3 DEF HandPiece, Sending, HeldBack
<1>4. CASE AskHandOver
  BY <1>4 DEF AskHandOver, Sending, HeldBack
<1>5. CASE CommitHandOver
  BY <1>5 DEF CommitHandOver, Sending
<1>6. CASE ServerReceives
  BY <1>6 DEF ServerReceives, Sending, Whole
<1>7. CASE ServerActs
  <2>1. /\ exchange' = [exchange EXCEPT !.acted = TRUE] /\ applied' = applied + 1
        /\ exchange.phase = "sending" /\ exchange.got /\ ~exchange.acted
        /\ UNCHANGED <<kind, pieces, recorded, end>>
    BY <1>7 DEF ServerActs, Sending
  <2>2. kind # "idempotent" => applied = 0
    BY <2>1
  <2>3. end = "none"
    BY <2>1
  <2>4. SendTypeOK'
    <3>1. exchange' \in [phase : {"idle", "sending", "replied", "over"}, left : Nat,
                         gate : {"closed", "asked", "open", "refused"}, got : BOOLEAN,
                         acted : BOOLEAN, status : Statuses \cup {"none"}]
      BY <2>1
    <3> QED
      BY <2>1, <3>1
  <2>6. GateHolds' /\ WholeRecorded' /\ HandedOverFirst' /\ ServerSound'
    BY <2>1
  <2>5. AppliedSound' /\ EndedIsOver' /\ NotReceivedIsUnapplied'
    BY <2>1, <2>2, <2>3
  <2> QED
    BY <2>4, <2>5, <2>6
<1>8. CASE ServerReplies
  BY <1>8, HttpSendAssumption DEF ServerReplies, Sending, Statuses
<1>9. CASE ExchangeFails
  <2>1. /\ exchange' = [exchange EXCEPT !.phase = "over"] /\ exchange.phase = "sending"
        /\ recorded' \in {recorded, recorded \/ exchange.gate = "asked"}
        /\ UNCHANGED <<kind, pieces, applied>>
    BY <1>9 DEF ExchangeFails, Sending
  <2>2. recorded' \in BOOLEAN /\ (recorded => recorded')
    BY <2>1
  <2>3. /\ end' \in {"notReceived", "unknown"}
        /\ end' = "notReceived" => exchange.left # 0 \/ ~exchange.got
    BY <1>9 DEF ExchangeFails, Sending, Reached, Whole
  <2>4. kind # "idempotent" /\ end' = "notReceived" => applied = 0
    BY <2>1, <2>3
  <2> QED
    BY <2>1, <2>2, <2>3, <2>4
<1>10. CASE ReplyLost
  BY <1>10 DEF ReplyLost
<1>11. CASE Replay
  BY <1>11 DEF Replay, Throttled, Retryable
<1>12. CASE HandBack
  BY <1>12 DEF HandBack, OutcomeOf
<1>13. CASE UNCHANGED sendVars
  BY <1>13 DEF sendVars
<1> QED
  BY <1>1, <1>2, <1>3, <1>4, <1>5, <1>6, <1>7, <1>8, <1>9, <1>10, <1>11, <1>12, <1>13
     DEF SendNext

\* The sleeps alone need no invariant but themselves: next_delay grants a wait only
\* if the sum with it fits, and an attempt only if it is not the last.
LEMMA WaitsStep ==
  ASSUME number \in Nat, WaitsBounded, [SendNext]_sendVars
  PROVE  number' \in Nat /\ WaitsBounded'
<1>1. CASE Replay
  BY <1>1, HttpSendAssumption DEF Replay, Granted, WaitsBounded
<1>2. CASE UNCHANGED <<number, waited>>
  BY <1>2 DEF WaitsBounded
<1>3. Replay \/ UNCHANGED <<number, waited>>
  BY DEF SendNext, sendVars, Begin, BeginWithheld, HandPiece, AskHandOver, CommitHandOver,
         ServerReceives, ServerActs, ServerReplies, ExchangeFails, ReplyLost, HandBack
<1> QED
  BY <1>1, <1>2, <1>3

\* Every reachable state of a call satisfies the invariant.
LEMMA SendInvariant == SendSpec => []SendInv
BY SendInvInit, SendInvStep, PTL DEF SendSpec

\* The server has the whole of a submission only after the outbox recorded its
\* hand-over, through replays, refused records and deadlines (hand_over.rs, deadline.rs).
THEOREM HandOverComesFirst == SendSpec => []HandedOverFirst
<1>1. SendInv => HandedOverFirst
  BY DEF SendInv
<1> QED
  BY <1>1, SendInvariant, PTL

\* A request that is not idempotent is applied at most once, however replies are lost
\* and replayed (retryable).
THEOREM WriteAppliedOnce == SendSpec => []AppliedOnce
<1>1. SendInv => AppliedOnce
  BY DEF SendInv, AppliedSound, AppliedOnce
<1> QED
  BY <1>1, SendInvariant, PTL

\* A write the funnel reports as not received was not applied (SendError::http).
THEOREM NotReceivedNotApplied == SendSpec => []NotReceivedIsUnapplied
<1>1. SendInv => NotReceivedIsUnapplied
  BY DEF SendInv
<1> QED
  BY <1>1, SendInvariant, PTL

\* A call sleeps no longer than its budget and makes no more than its attempts
\* (RetryPolicy::next_delay).
THEOREM SleepsWithinBudget == SendSpec => []WaitsBounded
<1> DEFINE Bounded == number \in Nat /\ WaitsBounded
<1>1. SendInit => Bounded
  BY HttpSendAssumption DEF SendInit, WaitsBounded
<1>2. Bounded /\ [SendNext]_sendVars => Bounded'
  BY WaitsStep
<1>3. Bounded => WaitsBounded
  OBVIOUS
<1> HIDE DEF Bounded
<1> QED
  BY <1>1, <1>2, <1>3, PTL DEF SendSpec
===============================================================================
