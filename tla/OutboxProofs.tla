----------------------------- MODULE OutboxProofs -----------------------------
(***************************************************************************)
(* Theorems about Outbox, for every set of ops and every bound.            *)
(***************************************************************************)
EXTENDS Outbox, FiniteSetTheorems, TLAPS

Outcomes == {"Succeeded", "NeedsConfirmation", "Retryable", "RetryableNow", "Permanent"}

LEMMA RecordOutcomeType ==
  ASSUME NEW o \in Ops, NEW row \in Row, NEW outcome \in Outcomes
  PROVE  RecordOutcome(o, row, outcome) \in Row
BY DEF RecordOutcome, Row, States, Outcomes

LEMMA RecoverType ==
  ASSUME NEW o \in Ops, NEW row \in Row
  PROVE  Recover(o, row) \in Row
<1>1. InterruptedOutcome(o, row.handedOver # 0) \in Outcomes
  BY DEF InterruptedOutcome, Outcomes
<1>2. RecordOutcome(o, row, InterruptedOutcome(o, row.handedOver # 0)) \in Row
  BY <1>1, RecordOutcomeType
<1> QED
  BY <1>2 DEF Recover, Row

LEMMA RecoverDeadType ==
  ASSUME op \in [Ops -> Row]
  PROVE  RecoverDead(op) \in [Ops -> Row]
BY RecoverType DEF RecoverDead

LEMMA ViewType ==
  ASSUME op \in [Ops -> Row], NEW o \in Ops
  PROVE  View(o) \in Row
BY RecoverType DEF View

LEMMA LeaseAllType ==
  ASSUME TypeOK, NEW rows \in [Ops -> Row], NEW S \in SUBSET Ops, LeaseAll(rows, S)
  PROVE  TypeOK'
<1>1. op' \in [Ops -> Row]
  BY DEF LeaseAll, Lease, Row, States
<1>2. att' \subseteq Attempt
  BY DEF LeaseAll, TypeOK, Attempt, Phases, Row
<1> QED
  BY <1>1, <1>2 DEF TypeOK, LeaseAll

LEMMA MovesToType ==
  ASSUME att \subseteq Attempt, NEW a \in att, NEW phase \in Phases, MovesTo(a, phase)
  PROVE  att' \subseteq Attempt
BY DEF MovesTo, Attempt

LEMMA AnswerType ==
  ASSUME att \subseteq Attempt, NEW r, NEW phase \in Phases, Answer(r, phase)
  PROVE  att' \subseteq Attempt
<1> SUFFICES ASSUME NEW b \in att' PROVE b \in Attempt
  OBVIOUS
<1>1. PICK a \in att : b = IF a.op = r.op /\ a.token = r.token /\ a.phase = "awaiting"
                             THEN [a EXCEPT !.phase = phase] ELSE a
  BY DEF Answer
<1>2. a \in Attempt
  OBVIOUS
<1> QED
  BY <1>1, <1>2 DEF Attempt

(* Every action keeps the types of the rows, the attempts and the counters. *)
LEMMA TypeStep ==
  ASSUME TypeOK, [Next]_vars
  PROVE  TypeOK'
<1>1. ASSUME NEW o \in Ops, Enqueue(o) PROVE TypeOK'
  BY <1>1 DEF Enqueue, TypeOK, NoRow, Row, States
<1>2. ASSUME NEW o \in Ops, ClaimOne(o) PROVE TypeOK'
  BY <1>2, RecoverDeadType, LeaseAllType DEF ClaimOne, TypeOK
<1>3. ASSUME NEW o \in Ops, ClaimRefused(o) PROVE TypeOK'
  BY <1>3, RecoverDeadType, LeaseAllType DEF ClaimRefused, TypeOK
<1>4. ASSUME NEW o \in Ops, LeaseLapses(o) PROVE TypeOK'
  <2>1. op' \in [Ops -> Row]
    BY <1>4 DEF LeaseLapses, TypeOK, Row
  <2>2. faults' \in Nat
    BY <1>4 DEF LeaseLapses, Fault, TypeOK
  <2> QED
    BY <1>4, <2>1, <2>2 DEF LeaseLapses, TypeOK
<1>5. ASSUME NEW o \in Ops, BackoffElapses(o) PROVE TypeOK'
  <2>1. op' \in [Ops -> Row]
    BY <1>5 DEF BackoffElapses, TypeOK, Row
  <2> QED
    BY <1>5, <2>1 DEF BackoffElapses, TypeOK
<1>6. ASSUME NEW o \in Ops, HostStep(o) PROVE TypeOK'
  <2>0. View(o) \in Row
    BY ViewType DEF TypeOK
  <2>1. CASE Cancel(o)
    BY <2>0, <2>1 DEF Cancel, Withdrawn, TypeOK, Row, States
  <2>2. CASE RetryNow(o)
    BY <2>0, <2>2 DEF RetryNow, Rearm, TypeOK, Row, States
  <2>3. CASE ConfirmDelivered(o)
    BY <2>0, <2>3 DEF ConfirmDelivered, Confirmed, TypeOK, Row, States
  <2>4. CASE ConfirmNotDelivered(o)
    BY <2>0, <2>4 DEF ConfirmNotDelivered, Rearm, TypeOK, Row, States
  <2>5. CASE VerbRefused(o)
    BY <2>0, <2>5 DEF VerbRefused, TypeOK
  <2> QED
    BY <1>6, <2>1, <2>2, <2>3, <2>4, <2>5 DEF HostStep
<1>7. ASSUME NEW o \in Ops, PlanReconcile(o) PROVE TypeOK'
  BY <1>7 DEF PlanReconcile, TypeOK
<1>8. ASSUME NEW o \in Ops, Reconcile(o) PROVE TypeOK'
  <2> DEFINE rows == IF op[o].state = "InFlight" THEN RecoverDead(op) ELSE op
  <2>1. rows \in [Ops -> Row]
    BY RecoverDeadType DEF TypeOK
  <2> HIDE DEF rows
  <2>2. [rows EXCEPT ![o].state = "Succeeded", ![o].lease = "none"] \in [Ops -> Row]
    BY <2>1 DEF Row, States
  <2>3. op' \in [Ops -> Row]
    BY <1>8, <2>1, <2>2 DEF Reconcile, rows
  <2> QED
    BY <1>8, <2>3 DEF Reconcile, TypeOK
<1>9. ASSUME NEW limit, ClaimBatch(limit) PROVE TypeOK'
  <2>1. BatchOf(RecoverDead(op), limit) \subseteq Ops
    BY DEF BatchOf
  <2> QED
    BY <1>9, <2>1, RecoverDeadType, LeaseAllType DEF ClaimBatch, TypeOK
<1>10. ASSUME RecoverInterrupted PROVE TypeOK'
  BY <1>10, RecoverType DEF RecoverInterrupted, Fault, TypeOK
<1>11. ASSUME NEW a \in att, AttemptStep(a) PROVE TypeOK'
  <2>0. a \in Attempt /\ a.op \in Ops /\ a.token \in Nat
    BY DEF TypeOK, Attempt
  <2>1. CASE CommitHandOver(a)
    BY <2>0, <2>1, MovesToType DEF CommitHandOver, TypeOK, Row, Phases
  <2>2. CASE HandOverRefused(a)
    BY <2>0, <2>2, MovesToType DEF HandOverRefused, TypeOK, Phases
  <2>3. CASE SendRequest(a)
    BY <2>0, <2>3, MovesToType DEF SendRequest, TypeOK, Phases, Request
  <2>4. ASSUME NEW outcome \in OutcomesOf(a), Mark(a, outcome) PROVE TypeOK'
    <3>1. outcome \in Outcomes
      BY DEF OutcomesOf, Outcomes
    <3>2. RecordOutcome(a.op, op[a.op], outcome) \in Row
      BY <2>0, <3>1, RecordOutcomeType DEF TypeOK
    <3> QED
      BY <2>0, <2>4, <3>2 DEF Mark, TypeOK
  <2>5. CASE MarkRefused(a)
    BY <2>5 DEF MarkRefused, TypeOK
  <2> QED
    BY <1>11, <2>1, <2>2, <2>3, <2>4, <2>5 DEF AttemptStep
<1>12. ASSUME NEW a \in att, FailEarly(a) \/ AnswerLost(a) PROVE TypeOK'
  <2>1. PICK phase \in Phases : MovesTo(a, phase)
    BY <1>12 DEF FailEarly, AnswerLost, Phases
  <2>2. att' \subseteq Attempt
    BY <2>1, MovesToType DEF TypeOK
  <2>3. CASE FailEarly(a)
    BY <2>2, <2>3 DEF FailEarly, Fault, TypeOK
  <2>4. CASE AnswerLost(a)
    BY <2>2, <2>4 DEF AnswerLost, Fault, TypeOK
  <2> QED
    BY <1>12, <2>3, <2>4
<1>13. ASSUME NEW a \in att, AttemptDies(a) PROVE TypeOK'
  BY <1>13 DEF AttemptDies, Fault, TypeOK
<1>14. ASSUME NEW a \in att, Renew(a) PROVE TypeOK'
  BY <1>14 DEF Renew, TypeOK, Row, Attempt
<1>15. ASSUME NEW r \in wire, ServerAccepts(r) PROVE TypeOK'
  <2>1. att' \subseteq Attempt
    BY <1>15, AnswerType DEF ServerAccepts, TypeOK, Phases
  <2>2. r.op \in Ops
    BY DEF TypeOK, Request
  <2>3. delivered' \in [Ops -> Nat]
    BY <1>15, <2>2 DEF ServerAccepts, TypeOK
  <2>4. wire' \subseteq Request
    BY <1>15 DEF ServerAccepts, TypeOK
  <2> QED
    BY <1>15, <2>1, <2>3, <2>4 DEF ServerAccepts, TypeOK
<1>16. ASSUME NEW r \in wire, ServerRefuses(r) \/ RequestLost(r) PROVE TypeOK'
  <2>1. PICK phase \in Phases : Answer(r, phase)
    BY <1>16 DEF ServerRefuses, RequestLost, Phases
  <2>2. att' \subseteq Attempt
    BY <2>1, AnswerType DEF TypeOK
  <2>3. CASE ServerRefuses(r)
    BY <2>2, <2>3 DEF ServerRefuses, Fault, TypeOK
  <2>4. CASE RequestLost(r)
    BY <2>2, <2>4 DEF RequestLost, Fault, TypeOK
  <2> QED
    BY <1>16, <2>3, <2>4
<1>17. CASE UNCHANGED vars
  BY <1>17 DEF vars, TypeOK
<1> QED
  BY <1>1, <1>2, <1>3, <1>4, <1>5, <1>6, <1>7, <1>8, <1>9, <1>10, <1>11,
     <1>12, <1>13, <1>14, <1>15, <1>16, <1>17 DEF Next

(* The rows, the attempts and the requests keep their types: no transition *)
(* of the store writes a state, a lease or a token it does not know.       *)
THEOREM TypeCorrect == Spec => []TypeOK
<1>1. Init => TypeOK
  BY OutboxAssumption DEF Init, TypeOK, NoRow, Row, States, Attempt, Request
<1> QED
  BY <1>1, TypeStep, PTL DEF Spec

-------------------------------------------------------------------------------
(***************************************************************************)
(* A send is delivered at most once per licence, and a withdrawn send not  *)
(* at all.  Neither is inductive: what an attempt may still do depends on  *)
(* the licence its hand-over took.  The inductive invariant is the ledger  *)
(* of licences, with what makes its entries move by one: sound rows, one   *)
(* attempt per lease, and finite sets to count.                            *)
(***************************************************************************)
BooksFinite == \A o \in Ops : IsFiniteSet(Committed(o)) /\ IsFiniteSet(OnWire(o))

LedgerInv == TypeOK /\ RowsSound /\ LeasesSound /\ BooksFinite /\ Ledger

\* A change of the row of o that no attempt can tell from losing its lease, and
\* that uses no licence `granted` does not cover.
KeepsBooks(o, row, new, granted) ==
  /\ RowSound(o, new)
  /\ row.token <= new.token
  /\ (row.token = new.token /\ row.state = "InFlight") => new.state = "InFlight"
  /\ new.handedOver \in {0, row.handedOver}
  /\ Unused(new) + Licence(row) <= Unused(row) + Licence(new) + granted

LEMMA Counted ==
  ASSUME LedgerInv, NEW o \in Ops
  PROVE  /\ Cardinality(Committed(o)) \in Nat
         /\ Cardinality(OnWire(o)) \in Nat
         /\ op[o] \in Row /\ delivered[o] \in Nat /\ saidNo[o] \in Nat
BY FS_CardinalityType DEF LedgerInv, BooksFinite, TypeOK

LEMMA CountAdd ==
  ASSUME NEW S, NEW x, IsFiniteSet(S)
  PROVE  /\ IsFiniteSet(S \cup {x})
         /\ Cardinality(S \cup {x}) \in Nat
         /\ Cardinality(S \cup {x}) <= Cardinality(S) + 1
<1>1. IsFiniteSet(S \cup {x})
  BY FS_AddElement
<1>2. Cardinality(S) \in Nat /\ Cardinality(S \cup {x}) \in Nat
  BY <1>1, FS_CardinalityType
<1>3. Cardinality(S \cup {x}) = IF x \in S THEN Cardinality(S) ELSE Cardinality(S) + 1
  BY FS_AddElement
<1> QED
  BY <1>1, <1>2, <1>3

LEMMA CountRemove ==
  ASSUME NEW S, NEW x \in S, IsFiniteSet(S)
  PROVE  /\ IsFiniteSet(S \ {x})
         /\ Cardinality(S \ {x}) \in Nat
         /\ Cardinality(S \ {x}) = Cardinality(S) - 1
BY FS_RemoveElement, FS_CardinalityType

LEMMA KeepsSame ==
  ASSUME NEW o \in Ops, NEW row \in Row, RowSound(o, row)
  PROVE  KeepsBooks(o, row, row, 0)
BY DEF KeepsBooks, Row, Unused, Licence

(* Recovery gives the licence of a dead attempt back exactly when the *)
(* attempt never recorded its hand-over.                               *)
LEMMA KeepsRecover ==
  ASSUME NEW o \in Ops, NEW row \in Row, RowSound(o, row), row.state = "InFlight"
  PROVE  KeepsBooks(o, row, Recover(o, row), 0)
<1> DEFINE outcome == InterruptedOutcome(o, row.handedOver # 0)
           new == RecordOutcome(o, row, outcome)
<1>1. outcome = IF ~IsSend(o) THEN "Retryable"
                ELSE IF row.handedOver # 0 THEN "NeedsConfirmation" ELSE "RetryableNow"
  BY DEF InterruptedOutcome
<1>2. /\ new.token = row.token
      /\ new.state = IF outcome = "NeedsConfirmation" THEN outcome
                     ELSE IF IsSend(o) THEN "Pending" ELSE new.state
      /\ new.handedOver = IF outcome = "NeedsConfirmation" THEN row.handedOver ELSE 0
      /\ ~IsSend(o) => new.state \in {"Pending", "Failed"}
  BY <1>1 DEF RecordOutcome, SettlesOnAttempts
<1>3. /\ Recover(o, row).token = row.token + 1
      /\ Recover(o, row).state = new.state
      /\ Recover(o, row).handedOver = new.handedOver
  BY <1>2 DEF Recover, RecordOutcome
<1> HIDE DEF new, outcome
<1>4. row.token \in Nat /\ row.handedOver \in Nat
  BY DEF Row
<1>5. CASE outcome = "NeedsConfirmation"
  BY <1>1, <1>2, <1>3, <1>4, <1>5 DEF KeepsBooks, RowSound, Unsent, Unused, Licence
<1>6. CASE outcome # "NeedsConfirmation"
  <2>1. new.state \in {"Pending", "Failed"} /\ new.handedOver = 0
    BY <1>1, <1>2, <1>6
  <2>2. IsSend(o) => row.handedOver = 0
    BY <1>1, <1>6
  <2>3. row.handedOver = 0
    BY <2>2 DEF RowSound
  <2> QED
    BY <1>3, <1>4, <2>1, <2>3 DEF KeepsBooks, RowSound, Unsent, Unused, Licence
<1> QED
  BY <1>5, <1>6

LEMMA KeepsThen ==
  ASSUME NEW o \in Ops, NEW r1 \in Row, NEW r2 \in Row, NEW r3 \in Row, NEW g \in Nat,
         KeepsBooks(o, r1, r2, 0), KeepsBooks(o, r2, r3, g)
  PROVE  KeepsBooks(o, r1, r3, g)
<1>1. r1.token \in Nat /\ r2.token \in Nat /\ r3.token \in Nat
  BY DEF Row
<1>2. /\ Unused(r1) \in Nat /\ Unused(r2) \in Nat /\ Unused(r3) \in Nat
      /\ Licence(r1) \in Nat /\ Licence(r2) \in Nat /\ Licence(r3) \in Nat
  BY DEF Unused, Licence
<1> QED
  BY <1>1, <1>2 DEF KeepsBooks

LEMMA KeepsRecoverDead ==
  ASSUME LedgerInv, NEW o \in Ops
  PROVE  KeepsBooks(o, op[o], RecoverDead(op)[o], 0)
<1>1. op[o] \in Row /\ RowSound(o, op[o])
  BY DEF LedgerInv, TypeOK, RowsSound
<1> QED
  BY <1>1, KeepsSame, KeepsRecover DEF RecoverDead, IsDead

LEMMA KeepsView ==
  ASSUME LedgerInv, NEW o \in Ops
  PROVE  KeepsBooks(o, op[o], View(o), 0)
<1>1. op[o] \in Row /\ RowSound(o, op[o])
  BY DEF LedgerInv, TypeOK, RowsSound
<1> QED
  BY <1>1, KeepsSame, KeepsRecover DEF View, IsDead

(* A step that changes rows only, each within its books, keeps the ledger; *)
(* it may also start attempts, each under a token nobody has had.          *)
LEMMA RowsStep ==
  ASSUME LedgerInv, TypeOK',
         \A o \in Ops : KeepsBooks(o, op[o], op'[o], saidNo'[o] - saidNo[o]),
         att \subseteq att',
         \A a \in att' \ att : /\ a.phase = "preparing"
                               /\ op[a.op].token < a.token
                               /\ a.token = op'[a.op].token
                               /\ op'[a.op].state = "InFlight"
                               /\ op'[a.op].handedOver = 0,
         \A a, b \in att' \ att : a.op = b.op => a = b,
         wire' = wire, delivered' = delivered
  PROVE  LedgerInv'
<1>0. /\ \A o \in Ops : op[o] \in Row /\ op'[o] \in Row
      /\ \A a \in att' : a.op \in Ops /\ a.token \in Nat
      /\ \A a \in att : a.op \in Ops /\ a.token \in Nat
      /\ \A o \in Ops : saidNo[o] \in Nat /\ saidNo'[o] \in Nat
  BY DEF LedgerInv, TypeOK, Attempt
<1>1. \A o \in Ops : /\ op[o].token \in Nat /\ op[o].handedOver \in Nat
                     /\ op'[o].token \in Nat /\ op'[o].handedOver \in Nat
  BY <1>0 DEF Row
<1>2. RowsSound'
  BY DEF RowsSound, KeepsBooks, RowSound
<1>3. \A a \in att : 0 < a.token /\ a.token <= op[a.op].token
  BY DEF LedgerInv, LeasesSound
<1>4. LeasesSound'
  <2>1. ASSUME NEW a \in att', NEW b \in att', a.op = b.op, a.token = b.token
        PROVE  a = b
    <3>1. CASE a \in att /\ b \in att
      BY <2>1, <3>1 DEF LedgerInv, LeasesSound
    <3>2. CASE a \notin att /\ b \notin att
      BY <2>1, <3>2
    <3>3. CASE a \in att /\ b \notin att
      BY <2>1, <3>3, <1>0, <1>1, <1>3
    <3>4. CASE a \notin att /\ b \in att
      BY <2>1, <3>4, <1>0, <1>1, <1>3
    <3> QED
      BY <3>1, <3>2, <3>3, <3>4
  <2>2. ASSUME NEW a \in att'
        PROVE  /\ 0 < a.token /\ a.token <= op'[a.op].token
               /\ op'[a.op].token = a.token => op'[a.op].state = "InFlight"
               /\ a.phase = "preparing" => op'[a.op].handedOver # a.token
    <3>1. CASE a \in att
      <4>1. KeepsBooks(a.op, op[a.op], op'[a.op], saidNo'[a.op] - saidNo[a.op])
        BY <1>0
      <4>2. /\ op[a.op].token = a.token => op[a.op].state = "InFlight"
            /\ a.phase = "preparing" => op[a.op].handedOver # a.token
        BY <3>1 DEF LedgerInv, LeasesSound, Current
      <4> QED
        BY <3>1, <4>1, <4>2, <1>0, <1>1, <1>3 DEF KeepsBooks
    <3>2. CASE a \notin att
      BY <3>2, <1>0, <1>1
    <3> QED
      BY <3>1, <3>2
  <2> QED
    BY <2>1, <2>2 DEF LeasesSound, Current
<1>5. \A o \in Ops : Committed(o)' = Committed(o) /\ OnWire(o)' = OnWire(o)
  BY DEF Committed, OnWire
<1>6. BooksFinite'
  BY <1>5 DEF BooksFinite, LedgerInv
<1>7. ASSUME NEW o \in Ops PROVE GivenBack(o)' <= GivenBack(o)
  <2>1. ASSUME NEW a \in att', a.op = o, a.phase = "refused", a.token = op'[o].handedOver
        PROVE  a \in att /\ a.token = op[o].handedOver
    <3>1. a \in att
      BY <2>1
    <3>2. op'[o].handedOver # 0
      BY <2>1, <3>1, <1>3, <1>0
    <3> QED
      BY <2>1, <3>1, <3>2 DEF KeepsBooks
  <2> QED
    BY <2>1 DEF GivenBack
<1>8. Ledger'
  <2> SUFFICES ASSUME NEW o \in Ops, IsSend(o)
               PROVE  delivered[o] + Cardinality(Committed(o)) + Cardinality(OnWire(o))
                        + Unused(op'[o]) + GivenBack(o)' <= saidNo'[o] + Licence(op'[o])
    BY <1>5 DEF Ledger
  <2>1. delivered[o] + Cardinality(Committed(o)) + Cardinality(OnWire(o))
          + Unused(op[o]) + GivenBack(o) <= saidNo[o] + Licence(op[o])
    BY DEF LedgerInv, Ledger
  <2>2. Unused(op'[o]) + Licence(op[o])
          <= Unused(op[o]) + Licence(op'[o]) + (saidNo'[o] - saidNo[o])
    BY DEF KeepsBooks
  <2>3. /\ Unused(op[o]) \in Nat /\ Unused(op'[o]) \in Nat
        /\ Licence(op[o]) \in Nat /\ Licence(op'[o]) \in Nat
        /\ GivenBack(o) \in Nat /\ GivenBack(o)' \in Nat
    BY DEF Unused, Licence, GivenBack
  <2> QED
    BY <2>1, <2>2, <2>3, <1>0, <1>7, Counted
<1> QED
  BY <1>2, <1>4, <1>6, <1>8 DEF LedgerInv

(* A step that changes no row, moves one attempt to a phase that neither   *)
(* commits nor gives back, or drops it, and sends nothing, keeps the       *)
(* ledger: so do stalls, deaths, lost answers and superseded attempts.     *)
LEMMA AttemptsStep ==
  ASSUME LedgerInv, TypeOK',
         \A b \in att' : \E a \in att :
            /\ b.op = a.op /\ b.token = a.token
            /\ \/ b = a
               \/ b.phase \in {"accepted", "ambiguous"}
               \/ b.phase = "refused" /\ op[a.op].handedOver # a.token,
         \A a, b \in att' : (a.op = b.op /\ a.token = b.token) => a = b,
         op' = op, saidNo' = saidNo,
         wire' = wire, delivered' = delivered
  PROVE  LedgerInv'
<1>1. RowsSound'
  BY DEF RowsSound, RowSound, LedgerInv
<1>2. LeasesSound'
  <2>1. ASSUME NEW b \in att'
        PROVE  /\ 0 < b.token /\ b.token <= op[b.op].token
               /\ op[b.op].token = b.token => op[b.op].state = "InFlight"
               /\ b.phase = "preparing" => op[b.op].handedOver # b.token
    <3>1. PICK a \in att : /\ b.op = a.op /\ b.token = a.token
                           /\ b = a \/ b.phase \in {"accepted", "ambiguous", "refused"}
      OBVIOUS
    <3> QED
      BY <3>1 DEF LedgerInv, LeasesSound, Current
  <2> QED
    BY <2>1 DEF LeasesSound, Current
<1>3. \A o \in Ops : Committed(o)' \subseteq Committed(o) /\ OnWire(o)' = OnWire(o)
  BY DEF Committed, OnWire
<1>4. \A o \in Ops : /\ IsFiniteSet(Committed(o)')
                     /\ Cardinality(Committed(o)') \in Nat
                     /\ Cardinality(Committed(o)') <= Cardinality(Committed(o))
  BY <1>3, FS_Subset, FS_CardinalityType DEF LedgerInv, BooksFinite
<1>5. BooksFinite'
  BY <1>3, <1>4 DEF BooksFinite, LedgerInv
<1>6. ASSUME NEW o \in Ops PROVE GivenBack(o)' <= GivenBack(o)
  <2>1. ASSUME NEW b \in att', b.op = o, b.phase = "refused", b.token = op[o].handedOver
        PROVE  b \in att
    BY <2>1
  <2> QED
    BY <2>1 DEF GivenBack
<1>7. Ledger'
  <2> SUFFICES ASSUME NEW o \in Ops, IsSend(o)
               PROVE  delivered[o] + Cardinality(Committed(o)') + Cardinality(OnWire(o))
                        + Unused(op[o]) + GivenBack(o)' <= saidNo[o] + Licence(op[o])
    BY <1>3 DEF Ledger
  <2>1. delivered[o] + Cardinality(Committed(o)) + Cardinality(OnWire(o))
          + Unused(op[o]) + GivenBack(o) <= saidNo[o] + Licence(op[o])
    BY DEF LedgerInv, Ledger
  <2>2. /\ Unused(op[o]) \in Nat /\ Licence(op[o]) \in Nat
        /\ GivenBack(o) \in Nat /\ GivenBack(o)' \in Nat
    BY DEF Unused, Licence, GivenBack
  <2> QED
    BY <2>1, <2>2, <1>4, <1>6, Counted
<1> QED
  BY <1>1, <1>2, <1>5, <1>7 DEF LedgerInv

(* Recording the hand-over takes the licence the row had unused: it is the  *)
(* attempt's own lease, so no other attempt recorded under it.              *)
LEMMA CommitStep ==
  ASSUME LedgerInv, TypeOK', NEW a \in att, CommitHandOver(a)
  PROVE  LedgerInv'
<1> DEFINE o == a.op
           b == [a EXCEPT !.phase = "committed"]
<1>0. /\ o \in Ops /\ a.token \in Nat /\ a \in Attempt
      /\ b.op = o /\ b.token = a.token /\ b.phase = "committed"
      /\ \A c \in att : c.op \in Ops /\ c.token \in Nat
      /\ op[o] \in Row
  BY DEF LedgerInv, TypeOK, Attempt
<1>1. /\ IsSend(o) /\ a.phase = "preparing"
      /\ op[o].token = a.token /\ op[o].state = "InFlight"
      /\ op' = [op EXCEPT ![o].handedOver = a.token]
      /\ att' = (att \ {a}) \cup {b}
      /\ wire' = wire /\ delivered' = delivered /\ saidNo' = saidNo
  BY DEF CommitHandOver, MovesTo, Current
<1> HIDE DEF o, b
<1>2. op[o].handedOver = 0
  BY <1>0, <1>1 DEF LedgerInv, RowsSound, RowSound, LeasesSound, o
<1>3. /\ op'[o].token = op[o].token /\ op'[o].state = "InFlight"
      /\ op'[o].handedOver = a.token
      /\ \A p \in Ops \ {o} : op'[p] = op[p]
  BY <1>0, <1>1 DEF LedgerInv, TypeOK, Row
<1>4. RowsSound'
  <2> SUFFICES ASSUME NEW p \in Ops PROVE RowSound(p, op'[p])
    BY DEF RowsSound, RowSound
  <2>1. CASE p = o
    BY <1>0, <1>1, <1>3, <2>1 DEF RowSound, Unsent
  <2>2. CASE p # o
    BY <1>3, <2>2 DEF LedgerInv, RowsSound
  <2> QED
    BY <2>1, <2>2
<1>5. \A c \in att : (c.op = o /\ c.token = a.token) => c = a
  BY DEF LedgerInv, LeasesSound, o
<1>6. LeasesSound'
  <2>1. \A c, d \in att' : (c.op = d.op /\ c.token = d.token) => c = d
    BY <1>0, <1>1, <1>5 DEF LedgerInv, LeasesSound
  <2>2. ASSUME NEW c \in att'
        PROVE  /\ 0 < c.token /\ c.token <= op'[c.op].token
               /\ op'[c.op].token = c.token => op'[c.op].state = "InFlight"
               /\ c.phase = "preparing" => op'[c.op].handedOver # c.token
    <3>1. CASE c = b
      BY <1>0, <1>1, <1>3, <3>1 DEF LedgerInv, LeasesSound, o
    <3>2. CASE c # b
      <4>1. c \in att /\ c # a
        BY <1>1, <3>2
      <4>2. CASE c.op = o
        BY <1>0, <1>1, <1>3, <1>5, <4>1, <4>2 DEF LedgerInv, LeasesSound, Current
      <4>3. CASE c.op # o
        BY <1>0, <1>3, <4>1, <4>3 DEF LedgerInv, LeasesSound, Current
      <4> QED
        BY <4>2, <4>3
    <3> QED
      BY <3>1, <3>2
  <2> QED
    BY <2>1, <2>2 DEF LeasesSound, Current
<1>7. /\ \A p \in Ops : OnWire(p)' = OnWire(p)
      /\ \A p \in Ops \ {o} : Committed(p)' = Committed(p)
      /\ Committed(o)' = Committed(o) \cup {b}
  BY <1>0, <1>1 DEF Committed, OnWire, o
<1>8. /\ IsFiniteSet(Committed(o)')
      /\ Cardinality(Committed(o)') \in Nat
      /\ Cardinality(Committed(o)') <= Cardinality(Committed(o)) + 1
  <2>1. IsFiniteSet(Committed(o))
    BY <1>0 DEF LedgerInv, BooksFinite
  <2> QED
    BY <1>7, <2>1, CountAdd
<1>9. BooksFinite'
  BY <1>7, <1>8 DEF BooksFinite, LedgerInv
<1>10. \A p \in Ops \ {o} : GivenBack(p)' = GivenBack(p)
  BY <1>0, <1>1, <1>3 DEF GivenBack, o
<1>11. GivenBack(o)' = 0
  BY <1>0, <1>1, <1>3, <1>5 DEF GivenBack
<1>12. Ledger'
  <2> SUFFICES ASSUME NEW p \in Ops, IsSend(p)
               PROVE  delivered[p] + Cardinality(Committed(p)') + Cardinality(OnWire(p))
                        + Unused(op'[p]) + GivenBack(p)' <= saidNo[p] + Licence(op'[p])
    BY <1>1, <1>7 DEF Ledger
  <2>1. delivered[p] + Cardinality(Committed(p)) + Cardinality(OnWire(p))
          + Unused(op[p]) + GivenBack(p) <= saidNo[p] + Licence(op[p])
    BY DEF LedgerInv, Ledger
  <2>2. CASE p # o
    BY <1>3, <1>7, <1>10, <2>1, <2>2
  <2>3. CASE p = o
    <3>1. Unused(op[o]) = 1 /\ Licence(op[o]) = 1
      BY <1>1, <1>2 DEF Unused, Licence
    <3>2. Unused(op'[o]) = 0 /\ Licence(op'[o]) = 1
      <4>1. a.token # 0
        BY <1>0 DEF LedgerInv, LeasesSound
      <4> QED
        BY <1>3, <4>1 DEF Unused, Licence, Unsent
    <3>3. GivenBack(o) \in Nat
      BY DEF GivenBack
    <3> QED
      BY <1>8, <1>11, <2>1, <2>3, <3>1, <3>2, <3>3, Counted
  <2> QED
    BY <2>2, <2>3
<1> QED
  BY <1>4, <1>6, <1>9, <1>12 DEF LedgerInv

(* The licence moves with the request, whether or not the row still knows  *)
(* of the attempt.                                                          *)
LEMMA SendStep ==
  ASSUME LedgerInv, TypeOK', NEW a \in att, SendRequest(a)
  PROVE  LedgerInv'
<1> DEFINE o == a.op
           b == [a EXCEPT !.phase = "awaiting"]
           r == [op |-> a.op, token |-> a.token]
<1>0. /\ o \in Ops /\ a \in Attempt
      /\ b.op = o /\ b.token = a.token /\ b.phase = "awaiting"
      /\ r.op = o
  BY DEF LedgerInv, TypeOK, Attempt
<1>1. /\ a.phase = IF IsSend(o) THEN "committed" ELSE "preparing"
      /\ att' = (att \ {a}) \cup {b}
      /\ wire' = wire \cup {r}
      /\ op' = op /\ delivered' = delivered /\ saidNo' = saidNo
  BY DEF SendRequest, MovesTo
<1> HIDE DEF o, b, r
<1>2. RowsSound'
  BY <1>1 DEF RowsSound, RowSound, LedgerInv
<1>3. LeasesSound'
  <2>1. \A c, d \in att' : (c.op = d.op /\ c.token = d.token) => c = d
    BY <1>0, <1>1 DEF LedgerInv, LeasesSound, o
  <2>2. ASSUME NEW c \in att'
        PROVE  /\ 0 < c.token /\ c.token <= op[c.op].token
               /\ op[c.op].token = c.token => op[c.op].state = "InFlight"
               /\ c.phase = "preparing" => op[c.op].handedOver # c.token
    <3>1. CASE c = b
      BY <1>0, <3>1 DEF LedgerInv, LeasesSound, Current, o
    <3>2. CASE c # b
      BY <1>1, <3>2 DEF LedgerInv, LeasesSound, Current
    <3> QED
      BY <3>1, <3>2
  <2> QED
    BY <1>1, <2>1, <2>2 DEF LeasesSound, Current
<1>4. /\ \A p \in Ops \ {o} : Committed(p)' = Committed(p) /\ OnWire(p)' = OnWire(p)
      /\ Committed(o)' = Committed(o) \ {a}
      /\ OnWire(o)' = OnWire(o) \cup {r}
  BY <1>0, <1>1 DEF Committed, OnWire, o
<1>5. IsFiniteSet(Committed(o)) /\ IsFiniteSet(OnWire(o))
  BY <1>0 DEF LedgerInv, BooksFinite
<1>6. /\ IsFiniteSet(OnWire(o)')
      /\ Cardinality(OnWire(o)') \in Nat
      /\ Cardinality(OnWire(o)') <= Cardinality(OnWire(o)) + 1
  <2>1. /\ IsFiniteSet(OnWire(o) \cup {r})
        /\ Cardinality(OnWire(o) \cup {r}) \in Nat
        /\ Cardinality(OnWire(o) \cup {r}) <= Cardinality(OnWire(o)) + 1
    BY <1>5, CountAdd
  <2> QED
    BY <1>4, <2>1
<1>7. IsFiniteSet(Committed(o)')
  BY <1>4, <1>5, FS_Subset
<1>8. BooksFinite'
  BY <1>4, <1>6, <1>7 DEF BooksFinite, LedgerInv
<1>9. \A p \in Ops : GivenBack(p)' = GivenBack(p)
  BY <1>0, <1>1 DEF GivenBack
<1>10. Ledger'
  <2> SUFFICES ASSUME NEW p \in Ops, IsSend(p)
               PROVE  delivered[p] + Cardinality(Committed(p)') + Cardinality(OnWire(p)')
                        + Unused(op[p]) + GivenBack(p)' <= saidNo[p] + Licence(op[p])
    BY <1>1 DEF Ledger
  <2>1. delivered[p] + Cardinality(Committed(p)) + Cardinality(OnWire(p))
          + Unused(op[p]) + GivenBack(p) <= saidNo[p] + Licence(op[p])
    BY DEF LedgerInv, Ledger
  <2>2. CASE p # o
    BY <1>4, <1>9, <2>1, <2>2
  <2>3. CASE p = o
    <3>1. a \in Committed(o)
      BY <1>1, <2>3 DEF Committed, o
    <3>2. /\ Cardinality(Committed(o)') \in Nat
          /\ Cardinality(Committed(o)') = Cardinality(Committed(o)) - 1
      BY <1>4, <1>5, <3>1, CountRemove
    <3>3. /\ Unused(op[o]) \in Nat /\ Licence(op[o]) \in Nat /\ GivenBack(o) \in Nat
      BY DEF Unused, Licence, GivenBack
    <3> QED
      BY <1>6, <1>9, <2>1, <2>3, <3>2, <3>3, Counted
  <2> QED
    BY <2>2, <2>3
<1> QED
  BY <1>2, <1>3, <1>8, <1>10 DEF LedgerInv

(* The request leaves the wire: accepted, it becomes a delivery; refused,   *)
(* its licence is given back at most once; lost, it is gone.                *)
LEMMA ServerStep ==
  ASSUME LedgerInv, TypeOK', NEW r \in wire,
         ServerAccepts(r) \/ ServerRefuses(r) \/ RequestLost(r)
  PROVE  LedgerInv'
<1> DEFINE o == r.op
<1>0. o \in Ops /\ \A a \in att : a \in Attempt
  BY DEF LedgerInv, TypeOK, Request
<1>1. /\ op' = op /\ saidNo' = saidNo /\ wire' = wire \ {r}
      /\ \/ Answer(r, "refused") /\ delivered' = delivered
         \/ Answer(r, "ambiguous") /\ delivered' = delivered
         \/ /\ Answer(r, "accepted")
            /\ delivered' = [delivered EXCEPT ![o] = @ + 1]
  BY DEF ServerAccepts, ServerRefuses, RequestLost
<1>2. PICK phase \in {"refused", "ambiguous", "accepted"} :
        /\ Answer(r, phase)
        /\ \/ delivered' = delivered
           \/ phase = "accepted" /\ delivered' = [delivered EXCEPT ![o] = @ + 1]
  BY <1>1
<1>3. \A c \in att' : \E a \in att :
        /\ c.op = a.op /\ c.token = a.token
        /\ c = a \/ (c.phase = phase /\ a.phase = "awaiting" /\ a.op = o)
  <2> SUFFICES ASSUME NEW c \in att'
               PROVE \E a \in att :
                       /\ c.op = a.op /\ c.token = a.token
                       /\ c = a \/ (c.phase = phase /\ a.phase = "awaiting" /\ a.op = o)
    OBVIOUS
  <2>1. PICK a \in att : c = IF a.op = r.op /\ a.token = r.token /\ a.phase = "awaiting"
                               THEN [a EXCEPT !.phase = phase] ELSE a
    BY <1>2 DEF Answer
  <2>2. a \in Attempt
    BY <1>0
  <2>3. /\ c.op = a.op /\ c.token = a.token
        /\ c = a \/ (c.phase = phase /\ a.phase = "awaiting" /\ a.op = o)
    BY <2>1, <2>2 DEF Attempt
  <2> QED
    BY <2>3
<1>4. \A a \in att : a.phase # "awaiting" => a \in att'
  BY <1>2 DEF Answer
<1>5. \A c, d \in att' : (c.op = d.op /\ c.token = d.token) => c = d
  <2> SUFFICES ASSUME NEW c \in att', NEW d \in att', c.op = d.op, c.token = d.token
               PROVE  c = d
    OBVIOUS
  <2>1. PICK a \in att : c = IF a.op = r.op /\ a.token = r.token /\ a.phase = "awaiting"
                               THEN [a EXCEPT !.phase = phase] ELSE a
    BY <1>2 DEF Answer
  <2>2. PICK b \in att : d = IF b.op = r.op /\ b.token = r.token /\ b.phase = "awaiting"
                               THEN [b EXCEPT !.phase = phase] ELSE b
    BY <1>2 DEF Answer
  <2>3. c.op = a.op /\ c.token = a.token /\ d.op = b.op /\ d.token = b.token
    BY <1>0, <2>1, <2>2 DEF Attempt
  <2>4. a = b
    BY <2>3 DEF LedgerInv, LeasesSound
  <2> QED
    BY <2>1, <2>2, <2>4
<1> HIDE DEF o
<1>6. RowsSound'
  BY <1>1 DEF RowsSound, RowSound, LedgerInv
<1>7. LeasesSound'
  <2>1. ASSUME NEW c \in att'
        PROVE  /\ 0 < c.token /\ c.token <= op[c.op].token
               /\ op[c.op].token = c.token => op[c.op].state = "InFlight"
               /\ c.phase = "preparing" => op[c.op].handedOver # c.token
    BY <1>3 DEF LedgerInv, LeasesSound, Current
  <2> QED
    BY <1>1, <1>5, <2>1 DEF LeasesSound, Current
<1>8. /\ \A p \in Ops : Committed(p)' = Committed(p)
      /\ \A p \in Ops \ {o} : OnWire(p)' = OnWire(p)
      /\ OnWire(o)' = OnWire(o) \ {r}
  <2>1. \A p \in Ops : Committed(p)' = Committed(p)
    BY <1>3, <1>4 DEF Committed
  <2> QED
    BY <1>1, <2>1 DEF OnWire, o
<1>9. /\ IsFiniteSet(OnWire(o)')
      /\ Cardinality(OnWire(o)') \in Nat
      /\ Cardinality(OnWire(o)') = Cardinality(OnWire(o)) - 1
  <2>1. IsFiniteSet(OnWire(o)) /\ r \in OnWire(o)
    BY <1>0 DEF LedgerInv, BooksFinite, OnWire, o
  <2> QED
    BY <1>8, <2>1, CountRemove
<1>10. BooksFinite'
  BY <1>8, <1>9 DEF BooksFinite, LedgerInv
<1>11. \A p \in Ops \ {o} : GivenBack(p)' <= GivenBack(p)
  <2> SUFFICES ASSUME NEW p \in Ops \ {o} PROVE GivenBack(p)' <= GivenBack(p)
    OBVIOUS
  <2>1. \A c \in att' : c.op = p => c \in att
    BY <1>3
  <2> QED
    BY <1>1, <2>1 DEF GivenBack
<1>12. phase # "refused" => GivenBack(o)' <= GivenBack(o)
  <2>1. phase # "refused" => \A c \in att' : c.phase = "refused" => c \in att
    BY <1>3
  <2> QED
    BY <1>1, <2>1 DEF GivenBack
<1>13. Ledger'
  <2> SUFFICES ASSUME NEW p \in Ops, IsSend(p)
               PROVE  delivered'[p] + Cardinality(Committed(p)) + Cardinality(OnWire(p)')
                        + Unused(op[p]) + GivenBack(p)' <= saidNo[p] + Licence(op[p])
    BY <1>1, <1>8 DEF Ledger
  <2>1. delivered[p] + Cardinality(Committed(p)) + Cardinality(OnWire(p))
          + Unused(op[p]) + GivenBack(p) <= saidNo[p] + Licence(op[p])
    BY DEF LedgerInv, Ledger
  <2>0. /\ Unused(op[p]) \in Nat /\ Licence(op[p]) \in Nat
        /\ GivenBack(p) \in Nat /\ GivenBack(p)' \in Nat /\ GivenBack(p)' <= 1
    BY DEF Unused, Licence, GivenBack
  <2>2. CASE p # o
    <3>1. delivered'[p] = delivered[p]
      BY <1>1, <2>2 DEF LedgerInv, TypeOK
    <3> QED
      BY <1>8, <1>11, <2>0, <2>1, <2>2, <3>1, Counted
  <2>3. CASE p = o
    <3>1. CASE delivered' = delivered
      BY <1>9, <2>0, <2>1, <2>3, <3>1, Counted
    <3>2. CASE delivered' # delivered
      <4>1. delivered'[o] = delivered[o] + 1
        BY <1>0, <1>1, <3>2 DEF LedgerInv, TypeOK
      <4>2. phase = "accepted"
        BY <1>2, <3>2
      <4>3. GivenBack(o)' <= GivenBack(o)
        BY <4>2, <1>12
      <4> QED
        BY <1>9, <2>0, <2>1, <2>3, <4>1, <4>3, Counted
    <3> QED
      BY <3>1, <3>2
  <2> QED
    BY <2>2, <2>3
<1> QED
  BY <1>6, <1>7, <1>10, <1>13 DEF LedgerInv

(* The outcome releases the attempt's licence into the row: a refusal gives *)
(* it back, a delivery or an open question keeps it spent.                  *)
LEMMA MarkStep ==
  ASSUME LedgerInv, TypeOK', NEW a \in att, NEW outcome \in OutcomesOf(a),
         Mark(a, outcome)
  PROVE  LedgerInv'
<1> DEFINE o == a.op
           new == RecordOutcome(o, op[o], outcome)
<1>0. /\ o \in Ops /\ a.token \in Nat /\ op[o] \in Row
      /\ op[o].token \in Nat /\ op[o].handedOver \in Nat
      /\ 0 < a.token
      /\ \A c \in att : c.op \in Ops /\ c.token \in Nat /\ 0 < c.token
  BY DEF LedgerInv, TypeOK, Attempt, LeasesSound, Row
<1>1. /\ Finished(a)
      /\ MayMark(a)
      /\ op' = [op EXCEPT ![o] = new]
      /\ att' = att \ {a}
      /\ wire' = wire /\ delivered' = delivered /\ saidNo' = saidNo
  BY DEF Mark
<1>2. op'[o] = new /\ \A p \in Ops \ {o} : op'[p] = op[p]
  BY <1>0, <1>1 DEF LedgerInv, TypeOK
<1>3. /\ new.token = op[o].token
      /\ outcome \in {"Succeeded", "NeedsConfirmation"} => new.state = outcome
      /\ outcome \in {"Retryable", "Permanent"} => new.state \in {"Pending", "Failed"}
      /\ new.handedOver = IF outcome = "NeedsConfirmation" THEN op[o].handedOver ELSE 0
  BY DEF RecordOutcome
<1>4. /\ a.phase = "accepted" => outcome = "Succeeded"
      /\ outcome = "NeedsConfirmation" => IsSend(o) /\ a.phase = "ambiguous"
      /\ outcome \in {"Retryable", "Permanent"} => a.phase # "accepted"
      /\ (IsSend(o) /\ outcome \in {"Retryable", "Permanent"}) => a.phase = "refused"
      /\ outcome \in {"Succeeded", "NeedsConfirmation", "Retryable", "Permanent"}
  BY <1>1 DEF OutcomesOf, Finished
<1> HIDE DEF o, new
<1>5. /\ op[o].token = a.token => op[o].state = "InFlight"
      /\ op[o].state = "InFlight" \/ op[o].state = "NeedsConfirmation"
      /\ op[o].handedOver = a.token \/ (op[o].state = "InFlight" /\ op[o].handedOver = 0)
  <2>1. op[o].token = a.token => op[o].state = "InFlight"
    BY DEF LedgerInv, LeasesSound, Current, o
  <2>2. RowSound(o, op[o])
    BY <1>0 DEF LedgerInv, RowsSound
  <2> QED
    BY <1>1, <2>1, <2>2 DEF MayMark, Current, RowSound, o
<1>6. RowSound(o, new)
  <2>1. RowSound(o, op[o])
    BY <1>0 DEF LedgerInv, RowsSound
  <2> QED
    BY <1>0, <1>3, <1>4, <2>1 DEF RowSound, Unsent
<1>7. RowsSound'
  BY <1>2, <1>6 DEF RowsSound, RowSound, LedgerInv
<1>8. LeasesSound'
  <2>1. \A c, d \in att' : (c.op = d.op /\ c.token = d.token) => c = d
    BY <1>1 DEF LedgerInv, LeasesSound
  <2>2. ASSUME NEW c \in att'
        PROVE  /\ 0 < c.token /\ c.token <= op'[c.op].token
               /\ op'[c.op].token = c.token => op'[c.op].state = "InFlight"
               /\ c.phase = "preparing" => op'[c.op].handedOver # c.token
    <3>0. /\ c \in att /\ c # a
          /\ 0 < c.token /\ c.token <= op[c.op].token
          /\ op[c.op].token = c.token => op[c.op].state = "InFlight"
          /\ c.phase = "preparing" => op[c.op].handedOver # c.token
      BY <1>1 DEF LedgerInv, LeasesSound, Current
    <3>1. CASE c.op # o
      BY <1>0, <1>2, <3>0, <3>1
    <3>2. CASE c.op = o
      <4>1. c.token # a.token
        BY <3>0, <3>2 DEF LedgerInv, LeasesSound, o
      <4>2. op[o].token # c.token
        BY <1>1, <1>5, <3>0, <3>2, <4>1 DEF MayMark, Current, o
      <4> QED
        BY <1>0, <1>2, <1>3, <3>0, <3>2, <4>2
    <3> QED
      BY <3>1, <3>2
  <2> QED
    BY <2>1, <2>2 DEF LeasesSound, Current
<1>9. \A p \in Ops : Committed(p)' = Committed(p) /\ OnWire(p)' = OnWire(p)
  BY <1>1 DEF Committed, OnWire, Finished
<1>10. BooksFinite'
  BY <1>9 DEF BooksFinite, LedgerInv
<1>11. \A p \in Ops \ {o} : GivenBack(p)' <= GivenBack(p)
  BY <1>1, <1>2 DEF GivenBack
<1>12. /\ outcome # "NeedsConfirmation" => GivenBack(o)' = 0
       /\ outcome = "NeedsConfirmation" => GivenBack(o)' <= GivenBack(o)
  BY <1>0, <1>1, <1>2, <1>3 DEF GivenBack
<1>13. Ledger'
  <2> SUFFICES ASSUME NEW p \in Ops, IsSend(p)
               PROVE  delivered[p] + Cardinality(Committed(p)) + Cardinality(OnWire(p))
                        + Unused(op'[p]) + GivenBack(p)' <= saidNo[p] + Licence(op'[p])
    BY <1>1, <1>9 DEF Ledger
  <2>1. delivered[p] + Cardinality(Committed(p)) + Cardinality(OnWire(p))
          + Unused(op[p]) + GivenBack(p) <= saidNo[p] + Licence(op[p])
    BY DEF LedgerInv, Ledger
  <2>2. /\ Unused(op[p]) \in Nat /\ Licence(op[p]) \in Nat
        /\ GivenBack(p) \in Nat /\ GivenBack(p)' \in Nat
    BY DEF Unused, Licence, GivenBack
  <2>3. CASE p # o
    BY <1>2, <1>11, <2>1, <2>2, <2>3, Counted
  <2>4. CASE p = o
    <3>1. Licence(op[o]) = 1 /\ Licence(new) = 1
      BY <1>3, <1>4, <1>5 DEF Licence
    <3>2. CASE outcome \in {"Succeeded", "NeedsConfirmation"}
      <4>1. Unused(new) = 0
        BY <1>3, <3>2 DEF Unused, Unsent
      <4>2. GivenBack(o)' <= GivenBack(o)
        BY <1>12, <2>2, <2>4
      <4> QED
        BY <1>2, <2>1, <2>2, <2>4, <3>1, <4>1, <4>2, Counted
    <3>3. CASE outcome \in {"Retryable", "Permanent"}
      <4>1. Unused(new) <= 1 /\ Unused(new) \in Nat
        BY DEF Unused
      <4>2. GivenBack(o)' = 0
        BY <1>12, <3>3
      <4>3. a.phase = "refused"
        BY <1>4, <2>4, <3>3
      <4>4. Unused(op[o]) = 1 \/ GivenBack(o) = 1
        BY <1>5, <4>3 DEF Unused, GivenBack, o
      <4> QED
        BY <1>2, <2>1, <2>2, <2>4, <3>1, <4>1, <4>2, <4>4, Counted
    <3> QED
      BY <1>4, <3>2, <3>3
  <2> QED
    BY <2>3, <2>4
<1> QED
  BY <1>7, <1>8, <1>10, <1>13 DEF LedgerInv

(* A claim recovers the dead and leases under tokens nobody has had. *)
LEMMA LeaseStep ==
  ASSUME LedgerInv, TypeOK', NEW S \in SUBSET Ops,
         \A o \in S : RecoverDead(op)[o].state = "Pending",
         LeaseAll(RecoverDead(op), S)
  PROVE  LedgerInv'
<1> DEFINE rows == RecoverDead(op)
<1>0. rows \in [Ops -> Row]
  BY RecoverDeadType DEF LedgerInv, TypeOK
<1>1. \A o \in Ops : KeepsBooks(o, op[o], rows[o], 0)
  BY KeepsRecoverDead
<1>2. /\ \A o \in Ops : op'[o] = IF o \in S THEN Lease(rows[o]) ELSE rows[o]
      /\ att' = att \cup {[op |-> o, token |-> rows[o].token + 1,
                           phase |-> "preparing"] : o \in S}
      /\ wire' = wire /\ delivered' = delivered /\ saidNo' = saidNo
  BY DEF LeaseAll
<1>3. \A o \in S : rows[o].state = "Pending"
  OBVIOUS
<1> HIDE DEF rows
<1>4. \A o \in Ops : KeepsBooks(o, op[o], op'[o], saidNo'[o] - saidNo[o])
  <2> SUFFICES ASSUME NEW o \in Ops PROVE KeepsBooks(o, op[o], op'[o], 0)
    BY <1>2 DEF LedgerInv, TypeOK
  <2>1. CASE o \notin S
    BY <1>1, <1>2, <2>1
  <2>2. CASE o \in S
    <3>1. RowSound(o, rows[o])
      BY <1>1 DEF KeepsBooks
    <3>2. KeepsBooks(o, rows[o], Lease(rows[o]), 0)
      BY <1>0, <1>3, <2>2, <3>1
      DEF KeepsBooks, Lease, RowSound, Unsent, Unused, Licence, Row
    <3>3. op[o] \in Row /\ rows[o] \in Row /\ op'[o] \in Row
      BY <1>0 DEF LedgerInv, TypeOK
    <3> QED
      BY <1>1, <1>2, <2>2, <3>2, <3>3, KeepsThen
  <2> QED
    BY <2>1, <2>2
<1>5. ASSUME NEW a \in att' \ att
      PROVE  /\ a.op \in S /\ a.phase = "preparing"
             /\ op[a.op].token < a.token
             /\ a.token = op'[a.op].token
             /\ op'[a.op].state = "InFlight"
             /\ op'[a.op].handedOver = 0
  <2>1. PICK o \in S : a = [op |-> o, token |-> rows[o].token + 1, phase |-> "preparing"]
    BY <1>2
  <2>2. op'[o] = Lease(rows[o]) /\ rows[o] \in Row /\ op[o] \in Row
    BY <1>0, <1>2 DEF LedgerInv, TypeOK
  <2>3. op[o].token <= rows[o].token /\ rows[o].handedOver = 0
    BY <1>1, <1>3 DEF KeepsBooks, RowSound, Unsent
  <2> QED
    BY <2>1, <2>2, <2>3 DEF Lease, Row
<1>6. \A a, b \in att' \ att : a.op = b.op => a = b
  BY <1>2
<1> QED
  BY <1>2, <1>4, <1>5, <1>6, RowsStep

LEMMA LedgerStep ==
  ASSUME LedgerInv, TypeOK', [Next]_vars
  PROVE  LedgerInv'
<1>0. /\ op \in [Ops -> Row] /\ op' \in [Ops -> Row]
      /\ \A o \in Ops : op[o] \in Row /\ RowSound(o, op[o])
      /\ \A a \in att : a \in Attempt /\ a.op \in Ops /\ a.token \in Nat
      /\ \A a, b \in att : (a.op = b.op /\ a.token = b.token) => a = b
      /\ saidNo \in [Ops -> Nat]
  BY DEF LedgerInv, TypeOK, Attempt, RowsSound, LeasesSound
\* A step that rewrites the row of one op and starts or ends no attempt.
<1>a. ASSUME NEW o \in Ops, NEW new \in Row, op' = [op EXCEPT ![o] = new],
             KeepsBooks(o, op[o], new, 0),
             att' = att, wire' = wire, delivered' = delivered, saidNo' = saidNo
      PROVE  LedgerInv'
  <2>1. \A p \in Ops : KeepsBooks(p, op[p], op'[p], saidNo'[p] - saidNo[p])
    BY <1>0, <1>a, KeepsSame
  <2> QED
    BY <1>a, <2>1, RowsStep
<1>1. ASSUME NEW o \in Ops, Enqueue(o) PROVE LedgerInv'
  <2>1. [NoRow EXCEPT !.state = "Pending"] \in Row
    BY DEF NoRow, Row, States
  <2>2. KeepsBooks(o, op[o], [NoRow EXCEPT !.state = "Pending"], 0)
    <3>1. op[o].token = 0
      BY <1>0, <1>1 DEF Enqueue, RowSound
    <3> QED
      BY <1>0, <1>1, <3>1
      DEF Enqueue, NoRow, KeepsBooks, RowSound, Unsent, Unused, Licence, Row
  <2> QED
    BY <1>1, <1>a, <2>1, <2>2 DEF Enqueue
<1>2. ASSUME NEW o \in Ops, ClaimOne(o) PROVE LedgerInv'
  <2>1. RecoverDead(op)[o].state = "Pending"
    BY <1>2 DEF ClaimOne, Claimable, Runnable
  <2> QED
    BY <1>2, <2>1, LeaseStep DEF ClaimOne
<1>3. ASSUME NEW o \in Ops, ClaimRefused(o) PROVE LedgerInv'
  BY <1>3, LeaseStep DEF ClaimRefused
<1>4. ASSUME NEW o \in Ops, LeaseLapses(o) PROVE LedgerInv'
  <2> DEFINE new == [op[o] EXCEPT !.lease = "lapsed"]
  <2>1. new \in Row /\ op' = [op EXCEPT ![o] = new]
    BY <1>0, <1>4 DEF LeaseLapses, Row
  <2>2. KeepsBooks(o, op[o], new, 0)
    BY <1>0 DEF KeepsBooks, RowSound, Unused, Licence, Row
  <2> QED
    BY <1>4, <1>a, <2>1, <2>2 DEF LeaseLapses
<1>5. ASSUME NEW o \in Ops, BackoffElapses(o) PROVE LedgerInv'
  <2> DEFINE new == [op[o] EXCEPT !.backoff = "over"]
  <2>1. new \in Row /\ op' = [op EXCEPT ![o] = new]
    BY <1>0, <1>5 DEF BackoffElapses, Row
  <2>2. KeepsBooks(o, op[o], new, 0)
    BY <1>0 DEF KeepsBooks, RowSound, Unused, Licence, Row
  <2> QED
    BY <1>5, <1>a, <2>1, <2>2 DEF BackoffElapses
<1>6. ASSUME NEW o \in Ops, HostStep(o) PROVE LedgerInv'
  <2> DEFINE row == View(o)
  <2>0. /\ row \in Row /\ KeepsBooks(o, op[o], row, 0) /\ RowSound(o, row)
        /\ row.token \in Nat
    BY <1>0, ViewType, KeepsView DEF KeepsBooks, Row
  <2>a. ASSUME NEW new \in Row, KeepsBooks(o, row, new, 0), op' = [op EXCEPT ![o] = new],
               att' = att, wire' = wire, delivered' = delivered, saidNo' = saidNo
        PROVE  LedgerInv'
    BY <1>0, <1>a, <2>0, <2>a, KeepsThen
  <2>1. CASE Cancel(o)
    <3>1. Withdrawn(row) \in Row
      BY <2>0 DEF Withdrawn, Row, States
    <3>2. KeepsBooks(o, row, Withdrawn(row), 0)
      BY <2>0, <2>1
      DEF Cancel, HostMayAct, Withdrawn, KeepsBooks, RowSound, Unsent, Unused, Licence, Row
    <3> QED
      BY <2>1, <2>a, <3>1, <3>2 DEF Cancel
  <2>2. CASE RetryNow(o)
    <3> DEFINE new == IF row.state = "Failed" THEN Rearm(row)
                      ELSE [row EXCEPT !.backoff = "over"]
    <3>1. CASE row.state = "Failed"
      <4>1. Rearm(row) \in Row
        BY <2>0 DEF Rearm, Row, States
      <4>2. KeepsBooks(o, row, Rearm(row), 0)
        BY <2>0, <3>1 DEF Rearm, KeepsBooks, RowSound, Unsent, Unused, Licence, Row
      <4> QED
        BY <2>2, <2>a, <3>1, <4>1, <4>2 DEF RetryNow
    <3>2. CASE row.state # "Failed"
      <4>1. [row EXCEPT !.backoff = "over"] \in Row
        BY <2>0 DEF Row
      <4>2. KeepsBooks(o, row, [row EXCEPT !.backoff = "over"], 0)
        BY <2>0 DEF KeepsBooks, RowSound, Unused, Licence, Row
      <4> QED
        BY <2>2, <2>a, <3>2, <4>1, <4>2 DEF RetryNow
    <3> QED
      BY <3>1, <3>2
  <2>3. CASE ConfirmDelivered(o)
    <3>1. Confirmed(row) \in Row
      BY <2>0 DEF Confirmed, Row, States
    <3>2. KeepsBooks(o, row, Confirmed(row), 0)
      BY <2>0, <2>3
      DEF ConfirmDelivered, Confirmed, KeepsBooks, RowSound, Unsent, Unused, Licence, Row
    <3> QED
      BY <2>3, <2>a, <3>1, <3>2 DEF ConfirmDelivered
  <2>4. CASE ConfirmNotDelivered(o)
    <3>1. Rearm(row) \in Row
      BY <2>0 DEF Rearm, Row, States
    <3>2. KeepsBooks(o, row, Rearm(row), 1)
      BY <2>0, <2>4
      DEF ConfirmNotDelivered, Rearm, KeepsBooks, RowSound, Unsent, Unused, Licence, Row
    <3>3. KeepsBooks(o, op[o], Rearm(row), 1)
      BY <1>0, <2>0, <3>1, <3>2, KeepsThen
    <3>4. \A p \in Ops : KeepsBooks(p, op[p], op'[p], saidNo'[p] - saidNo[p])
      <4>1. /\ op'[o] = Rearm(row) /\ saidNo'[o] - saidNo[o] = 1
            /\ \A p \in Ops \ {o} : op'[p] = op[p] /\ saidNo'[p] - saidNo[p] = 0
        BY <1>0, <2>4 DEF ConfirmNotDelivered
      <4> QED
        BY <1>0, <3>3, <4>1, KeepsSame
    <3> QED
      BY <2>4, <3>4, RowsStep DEF ConfirmNotDelivered
  <2>5. CASE VerbRefused(o)
    BY <1>a, <2>0, <2>5 DEF VerbRefused
  <2> QED
    BY <1>6, <2>1, <2>2, <2>3, <2>4, <2>5 DEF HostStep
<1>7. ASSUME NEW o \in Ops, PlanReconcile(o) PROVE LedgerInv'
  BY <1>7, <1>0, AttemptsStep DEF PlanReconcile
<1>8. ASSUME NEW o \in Ops, Reconcile(o) PROVE LedgerInv'
  <2> DEFINE rows == IF op[o].state = "InFlight" THEN RecoverDead(op) ELSE op
             new == [rows EXCEPT ![o].state = "Succeeded", ![o].lease = "none"]
  <2>1. /\ rows \in [Ops -> Row]
        /\ \A p \in Ops : KeepsBooks(p, op[p], rows[p], 0) /\ RowSound(p, rows[p])
    BY <1>0, RecoverDeadType, KeepsRecoverDead, KeepsSame DEF KeepsBooks
  <2>2. \/ op' = rows
        \/ rows[o].state = "NeedsConfirmation" /\ op' = new
    BY <1>8 DEF Reconcile
  <2>3. att' = att /\ wire' = wire /\ delivered' = delivered /\ saidNo' = saidNo
    BY <1>8 DEF Reconcile
  <2> HIDE DEF rows
  <2>4. ASSUME rows[o].state = "NeedsConfirmation"
        PROVE  \A p \in Ops : KeepsBooks(p, rows[p], new[p], 0) /\ new[p] \in Row
    <3>1. new \in [Ops -> Row]
      BY <2>1 DEF Row, States
    <3>2. \A p \in Ops \ {o} : new[p] = rows[p]
      BY <2>1
    <3>3. /\ new[o].state = "Succeeded" /\ new[o].token = rows[o].token
          /\ new[o].handedOver = rows[o].handedOver
      BY <2>1 DEF Row
    <3>4. KeepsBooks(o, rows[o], new[o], 0)
      BY <2>1, <2>4, <3>1, <3>3 DEF KeepsBooks, RowSound, Unsent, Unused, Licence, Row
    <3> QED
      BY <2>1, <3>1, <3>2, <3>4, KeepsSame
  <2> HIDE DEF new
  <2>5. \A p \in Ops : KeepsBooks(p, op[p], op'[p], 0)
    BY <1>0, <2>1, <2>2, <2>4, KeepsThen
  <2>6. \A p \in Ops : KeepsBooks(p, op[p], op'[p], saidNo'[p] - saidNo[p])
    BY <1>0, <2>3, <2>5
  <2> QED
    BY <2>3, <2>6, RowsStep
<1>9. ASSUME NEW limit, ClaimBatch(limit) PROVE LedgerInv'
  <2>1. /\ BatchOf(RecoverDead(op), limit) \subseteq Ops
        /\ \A o \in BatchOf(RecoverDead(op), limit) :
             RecoverDead(op)[o].state = "Pending"
    BY DEF BatchOf, Claimable, Runnable
  <2> QED
    BY <1>9, <2>1, LeaseStep DEF ClaimBatch
<1>10. ASSUME RecoverInterrupted PROVE LedgerInv'
  <2>1. \A p \in Ops : KeepsBooks(p, op[p], op'[p], 0)
    BY <1>0, <1>10, KeepsSame, KeepsRecover DEF RecoverInterrupted
  <2>2. \A p \in Ops : saidNo'[p] - saidNo[p] = 0
    BY <1>0, <1>10 DEF RecoverInterrupted
  <2>3. \A p \in Ops : KeepsBooks(p, op[p], op'[p], saidNo'[p] - saidNo[p])
    BY <2>1, <2>2
  <2> QED
    BY <1>10, <2>3, RowsStep DEF RecoverInterrupted
\* A step that moves one attempt to a phase that neither commits nor gives back.
<1>b. ASSUME NEW a \in att, NEW phase \in {"accepted", "ambiguous", "refused"},
             phase = "refused" => op[a.op].handedOver # a.token,
             MovesTo(a, phase), op' = op, saidNo' = saidNo,
             wire' = wire, delivered' = delivered
      PROVE  LedgerInv'
  <2> DEFINE c == [a EXCEPT !.phase = phase]
  <2>1. /\ c.op = a.op /\ c.token = a.token /\ c.phase = phase
        /\ att' = (att \ {a}) \cup {c}
    BY <1>0, <1>b DEF MovesTo, Attempt
  <2> HIDE DEF c
  <2>2. \A b \in att' : \E d \in att :
          /\ b.op = d.op /\ b.token = d.token
          /\ \/ b = d
             \/ b.phase \in {"accepted", "ambiguous"}
             \/ b.phase = "refused" /\ op[d.op].handedOver # d.token
    BY <1>b, <2>1
  <2>3. \A b, d \in att' : (b.op = d.op /\ b.token = d.token) => b = d
    BY <1>0, <2>1
  <2> QED
    BY <1>b, <2>2, <2>3, AttemptsStep
<1>c. ASSUME NEW a \in att, att' = att \ {a}, op' = op, saidNo' = saidNo,
             wire' = wire, delivered' = delivered
      PROVE  LedgerInv'
  BY <1>0, <1>c, AttemptsStep
<1>11. ASSUME NEW a \in att, AttemptStep(a) PROVE LedgerInv'
  <2>1. CASE CommitHandOver(a)
    BY <2>1, CommitStep
  <2>2. CASE HandOverRefused(a)
    <3>1. op[a.op].handedOver # a.token
      BY <2>2 DEF HandOverRefused, LedgerInv, LeasesSound
    <3> QED
      BY <1>b, <2>2, <3>1 DEF HandOverRefused
  <2>3. CASE SendRequest(a)
    BY <2>3, SendStep
  <2>4. ASSUME NEW outcome \in OutcomesOf(a), Mark(a, outcome) PROVE LedgerInv'
    BY <2>4, MarkStep
  <2>5. CASE MarkRefused(a)
    BY <1>c, <2>5 DEF MarkRefused
  <2> QED
    BY <1>11, <2>1, <2>2, <2>3, <2>4, <2>5 DEF AttemptStep
<1>12. ASSUME NEW a \in att, FailEarly(a) PROVE LedgerInv'
  <2>1. op[a.op].handedOver # a.token
    BY <1>12 DEF FailEarly, LedgerInv, LeasesSound
  <2> QED
    BY <1>b, <1>12, <2>1 DEF FailEarly
<1>13. ASSUME NEW a \in att, AnswerLost(a) PROVE LedgerInv'
  BY <1>b, <1>13 DEF AnswerLost
<1>14. ASSUME NEW a \in att, AttemptDies(a) PROVE LedgerInv'
  BY <1>c, <1>14 DEF AttemptDies
<1>15. ASSUME NEW a \in att, Renew(a) PROVE LedgerInv'
  <2> DEFINE o == a.op
             new == [op[o] EXCEPT !.lease = "live"]
  <2>1. o \in Ops /\ new \in Row /\ op' = [op EXCEPT ![o] = new]
    BY <1>0, <1>15 DEF Renew, Row
  <2>2. KeepsBooks(o, op[o], new, 0)
    BY <1>0, <2>1 DEF KeepsBooks, RowSound, Unused, Licence, Row
  <2> QED
    BY <1>15, <1>a, <2>1, <2>2 DEF Renew
<1>16. ASSUME NEW r \in wire, ServerAccepts(r) \/ ServerRefuses(r) \/ RequestLost(r)
       PROVE  LedgerInv'
  BY <1>16, ServerStep
<1>17. CASE UNCHANGED vars
  BY <1>0, <1>17, AttemptsStep DEF vars
<1> QED
  BY <1>1, <1>2, <1>3, <1>4, <1>5, <1>6, <1>7, <1>8, <1>9, <1>10, <1>11,
     <1>12, <1>13, <1>14, <1>15, <1>16, <1>17 DEF Next

LEMMA InitLedger ==
  ASSUME Init
  PROVE  LedgerInv
<1>1. TypeOK
  BY OutboxAssumption DEF Init, TypeOK, NoRow, Row, States, Attempt, Request
<1>2. \A o \in Ops : op[o] = NoRow /\ delivered[o] = 0 /\ saidNo[o] = 0
  BY DEF Init
<1>3. RowsSound /\ LeasesSound
  BY <1>2 DEF Init, RowsSound, RowSound, NoRow, LeasesSound, Unsent
<1>4. \A o \in Ops : Committed(o) = {} /\ OnWire(o) = {}
  BY DEF Init, Committed, OnWire
<1>5. BooksFinite
  BY <1>4, FS_EmptySet DEF BooksFinite
<1>6. Ledger
  <2> SUFFICES ASSUME NEW o \in Ops
               PROVE  delivered[o] + Cardinality(Committed(o)) + Cardinality(OnWire(o))
                        + Unused(op[o]) + GivenBack(o) <= saidNo[o] + Licence(op[o])
    BY DEF Ledger
  <2>1. Cardinality(Committed(o)) = 0 /\ Cardinality(OnWire(o)) = 0
    BY <1>4, FS_EmptySet
  <2>2. Unused(op[o]) = 1 /\ GivenBack(o) = 0 /\ Licence(op[o]) = 1
    BY <1>2 DEF Unused, Unsent, GivenBack, Licence, NoRow, Init
  <2> QED
    BY <1>2, <2>1, <2>2
<1> QED
  BY <1>1, <1>3, <1>5, <1>6 DEF LedgerInv

(* The ledger of licences balances in every reachable state: a hand-over is *)
(* recorded, a request sent and a delivery made only under a licence that   *)
(* nothing else holds.                                                      *)
THEOREM LedgerBalances == Spec => []LedgerInv
<1>1. Init => LedgerInv
  BY InitLedger
<1>2. LedgerInv /\ [Next]_vars => LedgerInv'
  <2> SUFFICES ASSUME LedgerInv, [Next]_vars PROVE LedgerInv'
    OBVIOUS
  <2>1. TypeOK'
    BY TypeStep DEF LedgerInv
  <2> QED
    BY <2>1, LedgerStep
<1> QED
  BY <1>1, <1>2, PTL DEF Spec

LEMMA LedgerDeliversOnce ==
  ASSUME LedgerInv
  PROVE  DeliveredOnce
<1> SUFFICES ASSUME NEW o \in Ops, IsSend(o)
             PROVE  delivered[o] <= 1 + saidNo[o]
  BY DEF DeliveredOnce
<1>1. delivered[o] + Cardinality(Committed(o)) + Cardinality(OnWire(o))
        + Unused(op[o]) + GivenBack(o) <= saidNo[o] + Licence(op[o])
  BY DEF LedgerInv, Ledger
<1>2. /\ Unused(op[o]) \in Nat /\ GivenBack(o) \in Nat
      /\ Licence(op[o]) \in Nat /\ Licence(op[o]) <= 1
  BY DEF Unused, GivenBack, Licence
<1> QED
  BY <1>1, <1>2, Counted

(* The server accepts a send at most once more than the host answered       *)
(* NotDelivered for it: no stall, death, recovery, lost answer or retry of  *)
(* an attempt delivers it again.                                            *)
THEOREM SendDeliveredOnce == Spec => []DeliveredOnce
<1>1. LedgerInv => DeliveredOnce
  BY LedgerDeliversOnce
<1> QED
  BY <1>1, LedgerBalances, PTL

LEMMA LedgerWithdraws ==
  ASSUME LedgerInv
  PROVE  WithdrawnUnsent
<1> SUFFICES ASSUME NEW o \in Ops, IsSend(o),
                    op[o].state = "Cancelled", saidNo[o] = 0
             PROVE  /\ delivered[o] = 0
                    /\ \A r \in wire : r.op # o
                    /\ \A a \in att : a.op = o => a.phase # "committed"
  BY DEF WithdrawnUnsent
<1>1. delivered[o] + Cardinality(Committed(o)) + Cardinality(OnWire(o))
        + Unused(op[o]) + GivenBack(o) <= saidNo[o] + Licence(op[o])
  BY DEF LedgerInv, Ledger
<1>2. Unused(op[o]) \in Nat /\ GivenBack(o) \in Nat /\ Licence(op[o]) = 0
  BY DEF Unused, GivenBack, Licence
<1>3. /\ delivered[o] = 0
      /\ Cardinality(Committed(o)) = 0 /\ Cardinality(OnWire(o)) = 0
  <2> DEFINE d == delivered[o]
             c == Cardinality(Committed(o))
             w == Cardinality(OnWire(o))
             u == Unused(op[o])
             g == GivenBack(o)
  <2>1. d \in Nat /\ c \in Nat /\ w \in Nat /\ u \in Nat /\ g \in Nat
    BY <1>2, Counted
  <2>2. d + c + w + u + g <= 0
    BY <1>1, <1>2
  <2> HIDE DEF d, c, w, u, g
  <2>3. d = 0 /\ c = 0 /\ w = 0
    BY <2>1, <2>2
  <2> QED
    BY <2>3 DEF d, c, w
<1>4. Committed(o) = {} /\ OnWire(o) = {}
  BY <1>3, FS_EmptySet DEF LedgerInv, BooksFinite
<1> QED
  BY <1>3, <1>4 DEF Committed, OnWire

(* A send that reads as Cancelled was not delivered and nothing under way    *)
(* can deliver it, unless the host had answered NotDelivered before.         *)
THEOREM WithdrawnStaysUnsent == Spec => []WithdrawnUnsent
<1>1. LedgerInv => WithdrawnUnsent
  BY LedgerWithdraws
<1> QED
  BY <1>1, LedgerBalances, PTL
===============================================================================
