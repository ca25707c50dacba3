-------------------------- MODULE OutboxDurableProofs --------------------------
(***************************************************************************)
(* The outbox keeps its promises through power cuts.  A cut takes the rows *)
(* back to the disk's and leaves what was sent, so the books must balance  *)
(* for the disk as well: the rows it holds grant no licence that a commit  *)
(* they missed has used.                                                   *)
(***************************************************************************)
EXTENDS OutboxDurable, OutboxSafetyProofs

\* What is spent of the licences of o, with whoever holds it.
Spent(o) == delivered[o] + Cardinality(Committed(o)) + Cardinality(OnWire(o))

\* A row the disk may hold of o: sound, and no claim to a licence that is spent.
DiskRow(o, row) ==
  /\ row \in Row /\ RowSound(o, row) /\ Tidy(o, row)
  /\ IsSend(o) => Spent(o) + Unused(row) <= saidNo[o] + Licence(row)

\* What the host was told has happened is on the disk.
Kept(row, kept) ==
  /\ row.state # "Absent" => kept.state # "Absent"
  /\ row.state = "Cancelled" => kept.state = "Cancelled"

DiskSound ==
  /\ disk \in [Ops -> Row]
  /\ \A o \in Ops : DiskRow(o, disk[o]) /\ Kept(op[o], disk[o])

DurableInv == TidyInv /\ DiskSound

LEMMA SpentType ==
  ASSUME LedgerInv, NEW o \in Ops
  PROVE  /\ Spent(o) \in Nat /\ saidNo[o] \in Nat
         /\ Cardinality(Committed(o)) \in Nat /\ Cardinality(OnWire(o)) \in Nat
         /\ delivered[o] \in Nat
         /\ IsFiniteSet(Committed(o)) /\ IsFiniteSet(OnWire(o))
BY Counted DEF Spent, LedgerInv, BooksFinite

LEMMA SpentTypeNext ==
  ASSUME LedgerInv', NEW o \in Ops
  PROVE  /\ Spent(o)' \in Nat /\ saidNo'[o] \in Nat
         /\ Cardinality(Committed(o)') \in Nat /\ Cardinality(OnWire(o)') \in Nat
         /\ delivered'[o] \in Nat
<1>1. /\ IsFiniteSet(Committed(o)') /\ IsFiniteSet(OnWire(o)')
      /\ delivered'[o] \in Nat /\ saidNo'[o] \in Nat
  BY DEF LedgerInv, BooksFinite, TypeOK
<1>2. Cardinality(Committed(o)') \in Nat /\ Cardinality(OnWire(o)') \in Nat
  BY <1>1, FS_CardinalityType
<1> QED
  BY <1>1, <1>2 DEF Spent

LEMMA BooksRow ==
  ASSUME TidyInv, NEW o \in Ops
  PROVE  DiskRow(o, op[o])
<1>1. op[o] \in Row /\ RowSound(o, op[o]) /\ Tidy(o, op[o])
  BY DEF TidyInv, RowsTidy, LedgerInv, TypeOK, RowsSound
<1>2. ASSUME IsSend(o) PROVE Spent(o) + Unused(op[o]) <= saidNo[o] + Licence(op[o])
  <2>1. delivered[o] + Cardinality(Committed(o)) + Cardinality(OnWire(o))
          + Unused(op[o]) + GivenBack(o) <= saidNo[o] + Licence(op[o])
    BY <1>2 DEF TidyInv, LedgerInv, Ledger
  <2>2. /\ GivenBack(o) \in Nat /\ Unused(op[o]) \in Nat /\ Licence(op[o]) \in Nat
    BY DEF GivenBack, Unused, Licence
  <2> QED
    BY <2>1, <2>2, SpentType DEF Spent, TidyInv
<1> QED
  BY <1>1, <1>2 DEF DiskRow

LEMMA BooksRowNext ==
  ASSUME TidyInv', NEW o \in Ops
  PROVE  DiskRow(o, op[o])'
<1>1. op'[o] \in Row /\ RowSound(o, op'[o]) /\ Tidy(o, op'[o])
  BY DEF TidyInv, RowsTidy, LedgerInv, TypeOK, RowsSound, RowSound, Tidy
<1>2. ASSUME IsSend(o) PROVE Spent(o)' + Unused(op'[o]) <= saidNo'[o] + Licence(op'[o])
  <2>1. delivered'[o] + Cardinality(Committed(o)') + Cardinality(OnWire(o)')
          + Unused(op'[o]) + GivenBack(o)' <= saidNo'[o] + Licence(op'[o])
    BY <1>2 DEF TidyInv, LedgerInv, Ledger
  <2>2. /\ GivenBack(o)' \in Nat /\ Unused(op'[o]) \in Nat /\ Licence(op'[o]) \in Nat
    BY DEF GivenBack, Unused, Licence
  <2> QED
    BY <2>1, <2>2, SpentTypeNext DEF Spent, TidyInv
<1> QED
  BY <1>1, <1>2 DEF DiskRow, RowSound, Tidy

(* Only recording a hand-over spends a licence: a request takes the one of  *)
(* its attempt with it, and a delivery the one of its request.              *)
LEMMA SpendStep ==
  ASSUME LedgerInv, LedgerInv', [Next]_vars, NEW o \in Ops, IsSend(o),
         \A a \in att : ~CommitHandOver(a)
  PROVE  Spent(o)' <= Spent(o) /\ saidNo[o] <= saidNo'[o]
<1>0. /\ Spent(o) \in Nat /\ Spent(o)' \in Nat
      /\ saidNo[o] \in Nat /\ saidNo'[o] \in Nat
      /\ Cardinality(Committed(o)) \in Nat /\ Cardinality(OnWire(o)) \in Nat
      /\ Cardinality(Committed(o)') \in Nat /\ Cardinality(OnWire(o)') \in Nat
      /\ delivered[o] \in Nat /\ delivered'[o] \in Nat
      /\ IsFiniteSet(Committed(o)) /\ IsFiniteSet(OnWire(o))
  BY SpentType, SpentTypeNext
<1>x. /\ delivered \in [Ops -> Nat] /\ saidNo \in [Ops -> Nat]
      /\ \A a \in att : a \in Attempt
      /\ \A r \in wire : r \in Request
  BY DEF LedgerInv, TypeOK
\* A step that commits nothing, sends nothing and delivers nothing.
<1>a. ASSUME Committed(o)' \subseteq Committed(o), OnWire(o)' \subseteq OnWire(o),
             delivered'[o] = delivered[o]
      PROVE  Spent(o)' <= Spent(o)
  <2>1. /\ Cardinality(Committed(o)') <= Cardinality(Committed(o))
        /\ Cardinality(OnWire(o)') <= Cardinality(OnWire(o))
    BY <1>0, <1>a, FS_Subset
  <2> QED
    BY <1>0, <1>a, <2>1 DEF Spent
<1>b. ASSUME att' = att, wire' = wire, delivered' = delivered
      PROVE  Spent(o)' <= Spent(o)
  BY <1>a, <1>b DEF Committed, OnWire
<1>1. ASSUME NEW rows, NEW S, LeaseAll(rows, S) PROVE Spent(o)' <= Spent(o)
  BY <1>1, <1>a DEF LeaseAll, Committed, OnWire
<1>2. ASSUME NEW a \in att, SendRequest(a) PROVE Spent(o)' <= Spent(o)
  <2> DEFINE b == [a EXCEPT !.phase = "awaiting"]
             r == [op |-> a.op, token |-> a.token]
  <2>0. /\ b.op = a.op /\ b.phase = "awaiting" /\ r.op = a.op
        /\ att' = (att \ {a}) \cup {b} /\ wire' = wire \cup {r}
        /\ delivered' = delivered
    BY <1>0, <1>2 DEF SendRequest, MovesTo, Attempt
  <2> HIDE DEF b, r
  <2>1. CASE a.op = o /\ a.phase = "committed"
    <3>1. Committed(o)' = Committed(o) \ {a} /\ OnWire(o)' = OnWire(o) \cup {r}
      BY <2>0, <2>1 DEF Committed, OnWire
    <3>2. a \in Committed(o)
      BY <2>1 DEF Committed
    <3>3. Cardinality(Committed(o)') = Cardinality(Committed(o)) - 1
      BY <1>0, <3>1, <3>2, CountRemove
    <3>4. Cardinality(OnWire(o)') <= Cardinality(OnWire(o)) + 1
      BY <1>0, <3>1, CountAdd
    <3> QED
      BY <1>0, <2>0, <3>3, <3>4 DEF Spent
  <2>2. CASE a.op # o
    <3>1. Committed(o)' \subseteq Committed(o) /\ OnWire(o)' \subseteq OnWire(o)
      BY <2>0, <2>2 DEF Committed, OnWire
    <3> QED
      BY <1>a, <2>0, <3>1
  <2>3. a.op = o => a.phase = "committed"
    BY <1>2 DEF SendRequest
  <2> QED
    BY <2>1, <2>2, <2>3
<1>3. ASSUME NEW r \in wire, ServerAccepts(r) \/ ServerRefuses(r) \/ RequestLost(r)
      PROVE  Spent(o)' <= Spent(o)
  <2>1. PICK phase \in {"accepted", "refused", "ambiguous"} : Answer(r, phase)
    BY <1>3 DEF ServerAccepts, ServerRefuses, RequestLost
  <2>2. Committed(o)' \subseteq Committed(o)
    <3> SUFFICES ASSUME NEW b \in att', b.phase = "committed" PROVE b \in att
      BY DEF Committed
    <3>1. PICK c \in att : b = IF c.op = r.op /\ c.token = r.token /\ c.phase = "awaiting"
                                 THEN [c EXCEPT !.phase = phase] ELSE c
      BY <2>1 DEF Answer
    <3> QED
      BY <1>x, <3>1 DEF Attempt
  <2>3. OnWire(o)' = OnWire(o) \ {r}
    BY <1>3 DEF ServerAccepts, ServerRefuses, RequestLost, OnWire
  <2>4. CASE delivered'[o] = delivered[o]
    BY <1>a, <2>2, <2>3, <2>4
  <2>5. CASE delivered'[o] # delivered[o]
    <3>1. r.op = o /\ delivered'[o] = delivered[o] + 1
      BY <1>3, <1>x, <2>5 DEF ServerAccepts, ServerRefuses, RequestLost
    <3>2. r \in OnWire(o)
      BY <3>1 DEF OnWire
    <3>3. Cardinality(OnWire(o)') = Cardinality(OnWire(o)) - 1
      BY <1>0, <2>3, <3>2, CountRemove
    <3>4. Cardinality(Committed(o)') <= Cardinality(Committed(o))
      BY <1>0, <2>2, FS_Subset
    <3> QED
      BY <1>0, <3>1, <3>3, <3>4 DEF Spent
  <2> QED
    BY <2>4, <2>5
<1>4. ASSUME NEW a \in att, NEW phase, phase # "committed", MovesTo(a, phase),
             wire' = wire, delivered' = delivered
      PROVE  Spent(o)' <= Spent(o)
  <2>1. Committed(o)' \subseteq Committed(o)
    BY <1>x, <1>4 DEF MovesTo, Attempt, Committed
  <2> QED
    BY <1>4, <1>a, <2>1 DEF OnWire
<1>5. ASSUME NEW a \in att, att' = att \ {a}, wire' = wire, delivered' = delivered
      PROVE  Spent(o)' <= Spent(o)
  BY <1>5, <1>a DEF Committed, OnWire
<1>6. Spent(o)' <= Spent(o)
  <2>1. ASSUME NEW p \in Ops, ClaimOne(p) \/ ClaimRefused(p) PROVE Spent(o)' <= Spent(o)
    BY <1>1, <2>1 DEF ClaimOne, ClaimRefused
  <2>2. ASSUME NEW limit, ClaimBatch(limit) PROVE Spent(o)' <= Spent(o)
    BY <1>1, <2>2 DEF ClaimBatch
  <2>3. ASSUME NEW p \in Ops, \/ Enqueue(p) \/ LeaseLapses(p) \/ BackoffElapses(p)
                              \/ HostStep(p) \/ PlanReconcile(p) \/ Reconcile(p)
        PROVE  Spent(o)' <= Spent(o)
    BY <1>b, <2>3
    DEF Enqueue, LeaseLapses, BackoffElapses, HostStep, PlanReconcile, Reconcile,
        Cancel, RetryNow, ConfirmDelivered, ConfirmNotDelivered, VerbRefused
  <2>4. CASE RecoverInterrupted
    BY <1>b, <2>4 DEF RecoverInterrupted
  <2>5. ASSUME NEW a \in att, AttemptStep(a) PROVE Spent(o)' <= Spent(o)
    <3>1. CASE HandOverRefused(a)
      BY <1>4, <3>1 DEF HandOverRefused
    <3>2. CASE MarkRefused(a)
      BY <1>5, <3>2 DEF MarkRefused
    <3>3. ASSUME NEW outcome, Mark(a, outcome) PROVE Spent(o)' <= Spent(o)
      BY <1>5, <3>3 DEF Mark
    <3> QED
      BY <1>2, <2>5, <3>1, <3>2, <3>3 DEF AttemptStep
  <2>6. ASSUME NEW a \in att, FailEarly(a) \/ AnswerLost(a) \/ AttemptDies(a) \/ Renew(a)
        PROVE  Spent(o)' <= Spent(o)
    <3>1. CASE FailEarly(a)
      BY <1>4, <3>1 DEF FailEarly
    <3>2. CASE AnswerLost(a)
      BY <1>4, <3>2 DEF AnswerLost
    <3>3. CASE AttemptDies(a)
      BY <1>5, <3>3 DEF AttemptDies
    <3>4. CASE Renew(a)
      BY <1>b, <3>4 DEF Renew
    <3> QED
      BY <2>6, <3>1, <3>2, <3>3, <3>4
  <2>7. CASE UNCHANGED vars
    BY <1>b, <2>7 DEF vars
  <2> QED
    BY <1>3, <2>1, <2>2, <2>3, <2>4, <2>5, <2>6, <2>7 DEF Next
<1>7. saidNo[o] <= saidNo'[o]
  <2>1. CASE saidNo' = saidNo
    BY <1>0, <2>1
  <2>2. ASSUME NEW p \in Ops, ConfirmNotDelivered(p) PROVE saidNo[o] <= saidNo'[o]
    BY <1>0, <1>x, <2>2 DEF ConfirmNotDelivered
  <2> QED
    BY <2>1, <2>2
    DEF Next, vars, Enqueue, ClaimOne, ClaimRefused, ClaimBatch, LeaseAll, LeaseLapses,
        BackoffElapses, HostStep, Cancel, RetryNow, ConfirmDelivered, VerbRefused,
        PlanReconcile, Reconcile, RecoverInterrupted, AttemptStep, CommitHandOver,
        HandOverRefused, SendRequest, Mark, MarkRefused, FailEarly, AnswerLost,
        AttemptDies, Renew, ServerAccepts, ServerRefuses, RequestLost
<1> QED
  BY <1>6, <1>7

LEMMA RecoverState ==
  ASSUME NEW o \in Ops, NEW row \in Row
  PROVE  Recover(o, row).state \in {"Pending", "Failed", "NeedsConfirmation"}
<1> DEFINE outcome == InterruptedOutcome(o, row.handedOver # 0)
<1>1. outcome \in {"Retryable", "RetryableNow", "NeedsConfirmation"}
  BY DEF InterruptedOutcome
<1> HIDE DEF outcome
<1>2. RecordOutcome(o, row, outcome).state \in {"Pending", "Failed", "NeedsConfirmation"}
  BY <1>1 DEF RecordOutcome
<1>3. Recover(o, row).state = RecordOutcome(o, row, outcome).state
  BY DEF Recover, RecordOutcome, outcome
<1> QED
  BY <1>2, <1>3

(* A row begins with an enqueue and is withdrawn by a Cancel, and by nothing *)
(* else; no step of the process forgets it.                                   *)
LEMMA StateStep ==
  ASSUME TidyInv, [Next]_vars, NEW o \in Ops
  PROVE  /\ op[o].state # "Absent" => op'[o].state # "Absent"
         /\ op[o].state = "Absent" /\ op'[o].state # "Absent" => Enqueue(o)
         /\ op[o].state # "Cancelled" /\ op'[o].state = "Cancelled" => Cancel(o)
<1> DEFINE Quiet == /\ op[o].state = "Absent" <=> op'[o].state = "Absent"
                    /\ op'[o].state = "Cancelled" => op[o].state = "Cancelled"
<1>0. /\ op \in [Ops -> Row]
      /\ \A a \in att : a.op \in Ops
      /\ \A p \in Ops : op[p] \in Row
      /\ \A a \in att : Current(a) => op[a.op].state = "InFlight"
  BY DEF TidyInv, LedgerInv, TypeOK, Attempt, LeasesSound
<1>1. View(o) = RecoverDead(op)[o]
  BY DEF View, RecoverDead
<1>2. /\ op[o].state = "Absent" <=> View(o).state = "Absent"
      /\ View(o).state = "Cancelled" => op[o].state = "Cancelled"
  BY <1>0, RecoverState DEF View, IsDead
<1>3. ASSUME NEW p \in Ops, Enqueue(p)
      PROVE  Quiet \/ (p = o /\ op[o].state = "Absent" /\ op'[o].state = "Pending")
  BY <1>0, <1>3 DEF Enqueue, NoRow
<1>4. ASSUME NEW S \in SUBSET Ops, LeaseAll(RecoverDead(op), S),
             \A p \in S : Runnable(RecoverDead(op), p)
      PROVE  Quiet
  BY <1>0, <1>1, <1>2, <1>4 DEF LeaseAll, Lease, Runnable
<1>5. ASSUME NEW p \in Ops, ClaimOne(p) \/ ClaimRefused(p) PROVE Quiet
  BY <1>4, <1>5 DEF ClaimOne, ClaimRefused, Claimable
<1>6. ASSUME NEW limit, ClaimBatch(limit) PROVE Quiet
  <2>1. /\ BatchOf(RecoverDead(op), limit) \subseteq Ops
        /\ \A p \in BatchOf(RecoverDead(op), limit) : Runnable(RecoverDead(op), p)
    BY DEF BatchOf, Claimable
  <2> QED
    BY <1>4, <1>6, <2>1 DEF ClaimBatch
<1>7. ASSUME NEW p \in Ops, LeaseLapses(p) \/ BackoffElapses(p) PROVE Quiet
  <2>1. op'[o].state = op[o].state
    BY <1>0, <1>7 DEF LeaseLapses, BackoffElapses, Row
  <2> QED
    BY <2>1
<1>8. ASSUME NEW p \in Ops, HostStep(p)
      PROVE  Quiet \/ (p = o /\ Cancel(o) /\ op[o].state # "Absent" /\ op'[o].state = "Cancelled")
  <2>1. CASE p # o
    BY <1>0, <1>8, <2>1
    DEF HostStep, Cancel, RetryNow, ConfirmDelivered, ConfirmNotDelivered, VerbRefused
  <2>2. CASE p = o /\ Cancel(o)
    BY <1>0, <1>2, <2>2 DEF Cancel, HostMayAct, Withdrawn
  <2>3. CASE p = o /\ RetryNow(o)
    <3>1. View(o) \in Row
      BY <1>0, ViewType
    <3> QED
      BY <1>0, <1>2, <2>3, <3>1 DEF RetryNow, HostMayAct, Rearm, Row
  <2>4. CASE p = o /\ (ConfirmDelivered(o) \/ ConfirmNotDelivered(o) \/ VerbRefused(o))
    BY <1>0, <1>2, <2>4
    DEF ConfirmDelivered, ConfirmNotDelivered, VerbRefused, Confirmed, Rearm
  <2> QED
    BY <1>8, <2>1, <2>2, <2>3, <2>4 DEF HostStep
<1>9. ASSUME NEW p \in Ops, Reconcile(p) PROVE Quiet
  <2> DEFINE rows == IF op[p].state = "InFlight" THEN RecoverDead(op) ELSE op
  <2>1. /\ rows \in [Ops -> Row]
        /\ op[o].state = "Absent" <=> rows[o].state = "Absent"
        /\ rows[o].state = "Cancelled" => op[o].state = "Cancelled"
    BY <1>0, <1>1, <1>2, RecoverDeadType
  <2>2. \/ op' = rows
        \/ /\ rows[p].state = "NeedsConfirmation"
           /\ op' = [rows EXCEPT ![p].state = "Succeeded", ![p].lease = "none"]
    BY <1>9 DEF Reconcile
  <2> HIDE DEF rows
  <2>3. op'[o] = rows[o] \/ (rows[o].state = "NeedsConfirmation" /\ op'[o].state = "Succeeded")
    BY <2>1, <2>2 DEF Row
  <2> QED
    BY <2>1, <2>3
<1>10. ASSUME RecoverInterrupted PROVE Quiet
  BY <1>0, <1>10, RecoverState DEF RecoverInterrupted
<1>11. ASSUME NEW a \in att, CommitHandOver(a) \/ Renew(a) PROVE Quiet
  <2>1. op'[o].state = op[o].state
    BY <1>0, <1>11 DEF CommitHandOver, Renew, Row
  <2> QED
    BY <2>1
<1>12. ASSUME NEW a \in att, NEW outcome \in OutcomesOf(a), Mark(a, outcome) PROVE Quiet
  <2>1. outcome \in Outcomes
    BY DEF OutcomesOf, Outcomes
  <2>2. op[a.op].state \in {"InFlight", "NeedsConfirmation"}
    BY <1>0, <1>12 DEF Mark, MayMark
  <2>3. RecordOutcome(a.op, op[a.op], outcome).state
          \in {"Succeeded", "NeedsConfirmation", "Pending", "Failed"}
    BY <2>1 DEF RecordOutcome, Outcomes
  <2> QED
    BY <1>0, <1>12, <2>2, <2>3 DEF Mark
<1>13. CASE op' = op
  BY <1>13
<1> QED
  BY <1>3, <1>5, <1>6, <1>7, <1>8, <1>9, <1>10, <1>11, <1>12, <1>13
  DEF Next, AttemptStep, vars, PlanReconcile, HandOverRefused, SendRequest, MarkRefused,
      FailEarly, AnswerLost, AttemptDies, ServerAccepts, ServerRefuses, RequestLost

(* A commit leaves the books of the disk in order: either the disk has the *)
(* rows of the commit, or nothing it missed spent or promised anything.    *)
LEMMA CommitKeepsDisk ==
  ASSUME DurableInv, TidyInv', Commit
  PROVE  DiskSound'
<1>1. Next /\ disk' \in {disk, op'} /\ (Durably => disk' = op')
  BY DEF Commit
<1>2. CASE disk' = op'
  <2>1. op' \in [Ops -> Row]
    BY DEF TidyInv, LedgerInv, TypeOK
  <2>2. ASSUME NEW o \in Ops PROVE DiskRow(o, op[o])'
    BY BooksRowNext
  <2>3. ASSUME NEW o \in Ops PROVE DiskRow(o, disk[o])' /\ Kept(op[o], disk[o])'
    BY <1>2, <2>2 DEF Kept, DiskRow
  <2> QED
    BY <1>2, <2>1, <2>3 DEF DiskSound
<1>3. CASE disk' = disk /\ ~Durably
  <2>0. disk \in [Ops -> Row]
    BY DEF DurableInv, DiskSound
  <2>1. ASSUME NEW o \in Ops PROVE Kept(op'[o], disk[o])
    <3>1. ~Enqueue(o) /\ ~Cancel(o)
      BY <1>3 DEF Durably
    <3>2. Kept(op[o], disk[o])
      BY DEF DurableInv, DiskSound
    <3> QED
      BY <1>1, <3>1, <3>2, StateStep DEF Kept, DurableInv
  <2>2. ASSUME NEW o \in Ops PROVE DiskRow(o, disk[o])'
    <3>1. DiskRow(o, disk[o])
      BY DEF DurableInv, DiskSound
    <3>2. ASSUME IsSend(o)
          PROVE  Spent(o)' + Unused(disk[o]) <= saidNo'[o] + Licence(disk[o])
      <4>1. Spent(o)' <= Spent(o) /\ saidNo[o] <= saidNo'[o]
        BY <1>1, <1>3, <3>2, SpendStep DEF Durably, DurableInv, TidyInv
      <4>2. Spent(o) + Unused(disk[o]) <= saidNo[o] + Licence(disk[o])
        BY <3>1, <3>2 DEF DiskRow
      <4>3. Spent(o) \in Nat /\ saidNo[o] \in Nat
        BY SpentType DEF DurableInv, TidyInv
      <4>4. Spent(o)' \in Nat /\ saidNo'[o] \in Nat
        BY SpentTypeNext DEF TidyInv
      <4>5. Unused(disk[o]) \in Nat /\ Licence(disk[o]) \in Nat
        BY DEF Unused, Licence
      <4> QED
        BY <4>1, <4>2, <4>3, <4>4, <4>5
    <3>3. disk'[o] \in Row /\ RowSound(o, disk'[o]) /\ Tidy(o, disk'[o])
      BY <1>3, <3>1 DEF DiskRow
    <3> QED
      BY <1>3, <3>2, <3>3 DEF DiskRow, RowSound, Tidy
  <2> QED
    BY <1>3, <2>0, <2>1, <2>2 DEF DiskSound, Kept
<1> QED
  BY <1>1, <1>2, <1>3

(* After a cut nothing runs, what is on the way stays, and the rows of the  *)
(* disk balance with it.                                                    *)
LEMMA CutKeepsBooks ==
  ASSUME DurableInv, PowerCut
  PROVE  TidyInv' /\ DiskSound'
<1>0. /\ op' = disk /\ disk' = disk /\ att' = {} /\ planned' = {}
      /\ wire' = wire /\ delivered' = delivered /\ saidNo' = saidNo /\ saidYes' = saidYes
      /\ faults' = faults + 1
  BY DEF PowerCut, Fault
<1>1. disk \in [Ops -> Row] /\ \A o \in Ops : DiskRow(o, disk[o])
  BY DEF DurableInv, DiskSound
<1>2. TypeOK'
  BY <1>0, <1>1 DEF TypeOK, DurableInv, TidyInv, LedgerInv
<1>3. RowsSound' /\ RowsTidy'
  BY <1>0, <1>1 DEF RowsSound, RowSound, RowsTidy, Tidy, DiskRow
<1>4. LeasesSound'
  BY <1>0 DEF LeasesSound
<1>5. \A o \in Ops : Committed(o)' = {} /\ OnWire(o)' = OnWire(o)
  BY <1>0 DEF Committed, OnWire
<1>6. BooksFinite'
  BY <1>5, FS_EmptySet DEF BooksFinite, DurableInv, TidyInv, LedgerInv
<1>7. ASSUME NEW o \in Ops
      PROVE  /\ Spent(o)' = delivered[o] + Cardinality(OnWire(o))
             /\ Spent(o)' \in Nat /\ Spent(o)' <= Spent(o)
             /\ delivered'[o] + Cardinality(Committed(o)') + Cardinality(OnWire(o)') = Spent(o)'
  <2>1. Cardinality(Committed(o)') = 0
    BY <1>5, FS_EmptySet
  <2>2. OnWire(o)' = OnWire(o) /\ delivered'[o] = delivered[o]
    BY <1>0, <1>5
  <2> QED
    BY <2>1, <2>2, SpentType DEF Spent, DurableInv, TidyInv
<1>8. ASSUME NEW o \in Ops, IsSend(o)
      PROVE  Spent(o)' + Unused(disk[o]) <= saidNo[o] + Licence(disk[o])
  <2>1. Spent(o) + Unused(disk[o]) <= saidNo[o] + Licence(disk[o])
    BY <1>1, <1>8 DEF DiskRow
  <2>2. Unused(disk[o]) \in Nat /\ Licence(disk[o]) \in Nat
    BY DEF Unused, Licence
  <2> QED
    BY <1>7, <2>1, <2>2, SpentType DEF DurableInv, TidyInv
<1>9. Ledger'
  <2> SUFFICES ASSUME NEW o \in Ops, IsSend(o)
               PROVE  delivered'[o] + Cardinality(Committed(o)') + Cardinality(OnWire(o)')
                        + Unused(op'[o]) + GivenBack(o)' <= saidNo'[o] + Licence(op'[o])
    BY DEF Ledger
  <2>1. GivenBack(o)' = 0
    BY <1>0 DEF GivenBack
  <2>2. Unused(disk[o]) \in Nat /\ Licence(disk[o]) \in Nat
    BY DEF Unused, Licence
  <2> QED
    BY <1>0, <1>7, <1>8, <2>1, <2>2
<1>10. DiskSound'
  <2> SUFFICES ASSUME NEW o \in Ops PROVE DiskRow(o, disk[o])' /\ Kept(op[o], disk[o])'
    BY <1>0, <1>1 DEF DiskSound
  <2>1. disk[o] \in Row /\ RowSound(o, disk[o]) /\ Tidy(o, disk[o])
    BY <1>1 DEF DiskRow
  <2> QED
    BY <1>0, <1>8, <2>1 DEF DiskRow, Kept, RowSound, Tidy
<1> QED
  BY <1>2, <1>3, <1>4, <1>6, <1>9, <1>10 DEF TidyInv, LedgerInv

LEMMA DurableStep ==
  ASSUME DurableInv, [DurableNext]_durableVars
  PROVE  DurableInv'
<1>1. CASE Commit
  <2>1. [Next]_vars
    BY <1>1 DEF Commit
  <2>2. TypeOK'
    BY <2>1, TypeStep DEF DurableInv, TidyInv, LedgerInv
  <2>3. LedgerInv'
    BY <2>1, <2>2, LedgerStep DEF DurableInv, TidyInv
  <2>4. TidyInv'
    BY <2>1, <2>3, TidyStep DEF DurableInv, TidyInv
  <2> QED
    BY <1>1, <2>4, CommitKeepsDisk DEF DurableInv
<1>2. CASE PowerCut
  BY <1>2, CutKeepsBooks DEF DurableInv
<1>3. CASE UNCHANGED durableVars
  <2>1. UNCHANGED vars /\ disk' = disk
    BY <1>3 DEF durableVars
  <2>2. [Next]_vars
    BY <2>1
  <2>3. LedgerInv'
    BY <2>2, TypeStep, LedgerStep DEF DurableInv, TidyInv, LedgerInv
  <2>4. TidyInv'
    BY <2>2, <2>3, TidyStep DEF DurableInv, TidyInv
  <2>5. \A o \in Ops : Spent(o)' = Spent(o)
    BY <2>1 DEF vars, Spent, Committed, OnWire
  <2>6. DiskSound'
    BY <2>1, <2>5 DEF vars, DurableInv, DiskSound, DiskRow, Kept, RowSound, Tidy
  <2> QED
    BY <2>4, <2>6 DEF DurableInv
<1> QED
  BY <1>1, <1>2, <1>3 DEF DurableNext

(* The ledger of licences balances, for the rows in use and for the rows a *)
(* power cut would leave, at every point of every run.                     *)
THEOREM DurableBooks == DurableSpec => []DurableInv
<1>1. DurableInit => DurableInv
  <2> SUFFICES ASSUME DurableInit PROVE DurableInv
    OBVIOUS
  <2>1. TidyInv
    BY InitTidy DEF DurableInit
  <2>2. DiskSound
    BY <2>1, BooksRow DEF DurableInit, DiskSound, Kept, TidyInv, LedgerInv, TypeOK
  <2> QED
    BY <2>1, <2>2 DEF DurableInv
<1>2. DurableInv /\ [DurableNext]_durableVars => DurableInv'
  BY DurableStep
<1> QED
  BY <1>1, <1>2, PTL DEF DurableSpec

(* No power cut, whatever commits it takes back, makes a send go out twice: *)
(* the hand-over is on the disk before the first byte that could deliver.   *)
THEOREM DeliveredOnceDespiteCuts == DurableSpec => []DeliveredOnce
<1>1. DurableInv => DeliveredOnce
  BY LedgerDeliversOnce DEF DurableInv, TidyInv
<1> QED
  BY <1>1, DurableBooks, PTL

(* A send the host withdrew stays unsent through power cuts: the withdrawal *)
(* is on the disk before the host hears of it.                              *)
THEOREM WithdrawnUnsentDespiteCuts == DurableSpec => []WithdrawnUnsent
<1>1. DurableInv => WithdrawnUnsent
  BY LedgerWithdraws DEF DurableInv, TidyInv
<1> QED
  BY <1>1, DurableBooks, PTL

(* A power cut forgets no op the host queued and brings none back that it   *)
(* withdrew, and no step of the process does either.                        *)
THEOREM PromisesOutliveCuts == DurableSpec => PromisesSurvive
<1> DEFINE Survives ==
      \A o \in Ops :
        /\ op[o].state # "Absent" => op'[o].state # "Absent"
        /\ op[o].state = "Cancelled" => op'[o].state = "Cancelled"
<1>1. DurableInv /\ [DurableNext]_durableVars => [Survives]_durableVars
  <2> SUFFICES ASSUME DurableInv, DurableNext, NEW o \in Ops
               PROVE  /\ op[o].state # "Absent" => op'[o].state # "Absent"
                      /\ op[o].state = "Cancelled" => op'[o].state = "Cancelled"
    OBVIOUS
  <2>1. CASE Commit
    <3>1. TidyInv /\ [Next]_vars
      BY <2>1 DEF Commit, DurableInv
    <3>2. op[o].state = "Cancelled" => op'[o] = op[o]
      BY <3>1, SettledRow DEF IsTerminal
    <3> QED
      BY <3>1, <3>2, StateStep
  <2>2. CASE PowerCut
    BY <2>2 DEF PowerCut, DurableInv, DiskSound, Kept
  <2> QED
    BY <2>1, <2>2 DEF DurableNext
<1> QED
  BY <1>1, DurableBooks, PTL DEF DurableSpec, PromisesSurvive

-------------------------------------------------------------------------------
(* Dependencies through a cut.  What a send has spent stays spent, so the   *)
(* disk must know of the dependencies that came before; recording the       *)
(* hand-over takes them to the disk.                                        *)

DiskDependencies ==
  \A o \in Ops, d \in Ops :
    IsSend(o) /\ d \in DependsOn[o]
      /\ (disk[o].state = "InFlight" \/ disk[o].attempts > 0 \/ Spent(o) > 0)
      => disk[d].state = "Succeeded"

SendsDone ==
  \A o \in Ops : IsSend(o) /\ WorkedOn(o) =>
    \A d \in DependsOn[o] : op[d].state = "Succeeded"

\* DependenciesFirst, for the sends.
SendDependenciesFirst ==
  \A o \in Ops :
    IsSend(o) /\ (op[o].state = "InFlight" \/ op[o].attempts > 0 \/ delivered[o] > 0)
      => \A d \in DependsOn[o] : op[d].state = "Succeeded"

LEMMA SpentIsWork ==
  ASSUME LedgerInv, NEW o \in Ops, Spent(o) > 0
  PROVE  WorkedOn(o)
<1>1. delivered[o] > 0 \/ Cardinality(Committed(o)) > 0 \/ Cardinality(OnWire(o)) > 0
  BY SpentType DEF Spent
<1>2. Cardinality(Committed(o)) > 0 => Committed(o) # {}
  BY FS_EmptySet
<1>3. Cardinality(OnWire(o)) > 0 => OnWire(o) # {}
  BY FS_EmptySet
<1> QED
  BY <1>1, <1>2, <1>3 DEF WorkedOn, Committed, OnWire

LEMMA SpentIsWorkNext ==
  ASSUME LedgerInv', NEW o \in Ops, Spent(o)' > 0
  PROVE  WorkedOn(o)'
<1>1. delivered'[o] > 0 \/ Cardinality(Committed(o)') > 0 \/ Cardinality(OnWire(o)') > 0
  BY SpentTypeNext DEF Spent
<1>2. Cardinality(Committed(o)') > 0 => Committed(o)' # {}
  BY FS_EmptySet
<1>3. Cardinality(OnWire(o)') > 0 => OnWire(o)' # {}
  BY FS_EmptySet
<1> QED
  BY <1>1, <1>2, <1>3 DEF WorkedOn, Committed, OnWire

LEMMA DoneStep ==
  ASSUME TidyInv, SendsDone, [Next]_vars
  PROVE  SendsDone'
<1> SUFFICES ASSUME NEW o \in Ops, IsSend(o), WorkedOn(o)', NEW d \in DependsOn[o]
             PROVE  op'[d].state = "Succeeded"
  BY DEF SendsDone
<1>1. d \in Ops
  BY OutboxAssumption
<1>2. op[d].state = "Succeeded"
  BY WorkStep DEF SendsDone
<1> QED
  BY <1>1, <1>2, SettledRow DEF IsTerminal

(* A send that depends on other ops is attempted and delivered only after   *)
(* they succeeded, and no power cut makes the store forget that they did:   *)
(* recording the hand-over syncs every earlier commit.  A write is sent     *)
(* without a sync, so a cut may take back the success its request built on. *)
THEOREM SendsWaitDespiteCuts == DurableSpec => []SendDependenciesFirst
<1> DEFINE Inv == SendsDone /\ DiskDependencies
<1>1. DurableInit /\ DurableInv => Inv
  <2> SUFFICES ASSUME DurableInit, DurableInv PROVE Inv
    OBVIOUS
  <2>1. \A o \in Ops : ~WorkedOn(o)
    BY DEF DurableInit, Init, WorkedOn, NoRow
  <2>2. \A o \in Ops : ~(Spent(o) > 0)
    BY <2>1, SpentIsWork DEF DurableInv, TidyInv
  <2> QED
    BY <2>1, <2>2 DEF SendsDone, DiskDependencies, DurableInit, WorkedOn
<1>2. DurableInv /\ DurableInv' /\ Inv /\ [DurableNext]_durableVars => Inv'
  <2> SUFFICES ASSUME DurableInv, DurableInv', Inv, [DurableNext]_durableVars PROVE Inv'
    OBVIOUS
  <2>1. CASE Commit
    <3>1. /\ [Next]_vars /\ disk' \in {disk, op'} /\ (Durably => disk' = op')
          /\ TidyInv /\ LedgerInv /\ LedgerInv'
      BY <2>1 DEF Commit, DurableInv, TidyInv
    <3>2. SendsDone'
      BY <3>1, DoneStep
    <3>3. CASE disk' = op'
      <4>1. ASSUME NEW o \in Ops, NEW d \in Ops, IsSend(o), d \in DependsOn[o],
                   op'[o].state = "InFlight" \/ op'[o].attempts > 0 \/ Spent(o)' > 0
            PROVE  op'[d].state = "Succeeded"
        <5>1. WorkedOn(o)'
          BY <3>1, <4>1, SpentIsWorkNext DEF WorkedOn
        <5> QED
          BY <3>2, <4>1, <5>1 DEF SendsDone
      <4> QED
        BY <3>2, <3>3, <4>1 DEF DiskDependencies
    <3>4. CASE disk' = disk /\ ~Durably
      <4>1. ASSUME NEW o \in Ops, NEW d \in Ops, IsSend(o), d \in DependsOn[o],
                   disk[o].state = "InFlight" \/ disk[o].attempts > 0 \/ Spent(o)' > 0
            PROVE  disk[d].state = "Succeeded"
        <5>1. Spent(o)' <= Spent(o)
          BY <3>1, <3>4, <4>1, SpendStep DEF Durably
        <5>2. Spent(o)' > 0 => Spent(o) > 0
          BY <3>1, <5>1, SpentType, SpentTypeNext
        <5> QED
          BY <4>1, <5>2 DEF DiskDependencies
      <4> QED
        BY <3>2, <3>4, <4>1 DEF DiskDependencies
    <3> QED
      BY <3>1, <3>3, <3>4
  <2>2. CASE PowerCut
    <3>0. /\ op' = disk /\ disk' = disk /\ att' = {} /\ wire' = wire
          /\ delivered' = delivered /\ LedgerInv /\ LedgerInv'
      BY <2>2 DEF PowerCut, DurableInv, TidyInv
    <3>1. ASSUME NEW o \in Ops PROVE Spent(o)' > 0 => Spent(o) > 0
      <4>1. Committed(o)' = {} /\ OnWire(o)' = OnWire(o)
        BY <3>0 DEF Committed, OnWire
      <4>2. Spent(o)' <= Spent(o)
        BY <3>0, <4>1, FS_EmptySet, SpentType DEF Spent
      <4> QED
        BY <3>0, <4>2, SpentType, SpentTypeNext
    <3>2. DiskDependencies'
      BY <3>0, <3>1 DEF DiskDependencies
    <3>3. ASSUME NEW o \in Ops, IsSend(o), WorkedOn(o)', NEW d \in DependsOn[o]
          PROVE  disk[d].state = "Succeeded"
      <4>0. d \in Ops
        BY OutboxAssumption
      <4>1. \/ disk[o].state = "InFlight" \/ disk[o].attempts > 0 \/ delivered[o] > 0
            \/ OnWire(o) # {}
        BY <3>0, <3>3 DEF WorkedOn, OnWire
      <4>2. OnWire(o) # {} => Cardinality(OnWire(o)) > 0
        BY <3>0, SpentType, FS_EmptySet
      <4>3. delivered[o] > 0 \/ OnWire(o) # {} => Spent(o) > 0
        BY <3>0, <4>2, SpentType DEF Spent
      <4> QED
        BY <3>3, <4>0, <4>1, <4>3 DEF DiskDependencies
    <3> QED
      BY <3>0, <3>2, <3>3 DEF SendsDone
  <2>3. CASE UNCHANGED durableVars
    <3>1. \A o \in Ops : Spent(o)' = Spent(o) /\ (WorkedOn(o)' <=> WorkedOn(o))
      BY <2>3 DEF durableVars, vars, Spent, Committed, OnWire, WorkedOn
    <3> QED
      BY <2>3, <3>1 DEF durableVars, vars, SendsDone, DiskDependencies
  <2> QED
    BY <2>1, <2>2, <2>3 DEF DurableNext
<1>3. Inv => SendDependenciesFirst
  BY DEF SendsDone, SendDependenciesFirst, WorkedOn
<1> QED
  BY <1>1, <1>2, <1>3, DurableBooks, PTL DEF DurableSpec

(* Where nothing but sends has dependencies, as in the run, no op is        *)
(* attempted before what it depends on, power cuts or not.                  *)
THEOREM DependenciesDespiteCuts ==
  ASSUME \A o \in Ops : DependsOn[o] # {} => IsSend(o)
  PROVE  DurableSpec => []DependenciesFirst
<1>1. SendDependenciesFirst => DependenciesFirst
  BY DEF SendDependenciesFirst, DependenciesFirst
<1> QED
  BY <1>1, SendsWaitDespiteCuts, PTL
================================================================================
