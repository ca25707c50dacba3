-------------------------- MODULE OutboxSafetyProofs --------------------------
(***************************************************************************)
(* More of what Outbox keeps: what reads as Succeeded was delivered, no    *)
(* two ops in flight share a resource, a write's attempts are bounded, a   *)
(* settled row stays, an op runs after the ops it depends on, and the      *)
(* outbox as a whole implements SendPromise.                               *)
(***************************************************************************)
EXTENDS OutboxPromise, OutboxProofs

-------------------------------------------------------------------------------
(* Succeeded means delivered.  The word of the server travels through the  *)
(* attempt it reached and through the plan of a sync pass, so both must be *)
(* true when they are used.                                                *)

Vouched ==
  /\ \A a \in att : a.phase = "accepted" => delivered[a.op] > 0
  /\ \A o \in planned : delivered[o] > 0

SuccessInv == TypeOK /\ SucceededIsDelivered /\ Vouched

LEMMA RecoverNeverSucceeds ==
  ASSUME NEW o \in Ops, NEW row \in Row
  PROVE  /\ Recover(o, row).state # "Succeeded"
         /\ Recover(o, row).state # "InFlight"
<1> DEFINE outcome == InterruptedOutcome(o, row.handedOver # 0)
<1>1. outcome \in {"Retryable", "RetryableNow", "NeedsConfirmation"}
  BY DEF InterruptedOutcome
<1> HIDE DEF outcome
<1>2. /\ RecordOutcome(o, row, outcome).state # "Succeeded"
      /\ RecordOutcome(o, row, outcome).state # "InFlight"
  BY <1>1 DEF RecordOutcome
<1>3. Recover(o, row).state = RecordOutcome(o, row, outcome).state
  BY DEF Recover, RecordOutcome, outcome
<1> QED
  BY <1>2, <1>3

LEMMA RecoveredRows ==
  ASSUME TypeOK, NEW o \in Ops
  PROVE  /\ RecoverDead(op)[o].state \in {"Succeeded", "InFlight"}
              => RecoverDead(op)[o] = op[o]
         /\ View(o).state \in {"Succeeded", "InFlight"} => View(o) = op[o]
BY RecoverNeverSucceeds DEF RecoverDead, View, TypeOK

(* A step that moves no counter back and makes nothing succeed by itself. *)
LEMMA NothingSucceeds ==
  ASSUME SuccessInv, TypeOK',
         \A o \in Ops : op'[o].state = "Succeeded" =>
             op[o].state = "Succeeded" \/ delivered[o] > 0 \/ o \in saidYes',
         \A o \in Ops : delivered'[o] >= delivered[o],
         saidYes \subseteq saidYes',
         \A a \in att' : a.phase = "accepted" => a \in att \/ delivered'[a.op] > 0,
         \A o \in planned' : o \in planned \/ delivered[o] > 0
  PROVE  SuccessInv'
<1>0. /\ \A o \in Ops : delivered[o] \in Nat /\ delivered'[o] \in Nat
      /\ \A a \in att : a.op \in Ops
      /\ planned \subseteq Ops /\ planned' \subseteq Ops
  BY DEF SuccessInv, TypeOK, Attempt
<1>1. SucceededIsDelivered'
  BY <1>0 DEF SuccessInv, SucceededIsDelivered
<1>2. Vouched'
  BY <1>0 DEF SuccessInv, Vouched
<1> QED
  BY <1>1, <1>2 DEF SuccessInv

LEMMA SuccessStep ==
  ASSUME SuccessInv, TypeOK', [Next]_vars
  PROVE  SuccessInv'
<1>0. /\ TypeOK /\ op \in [Ops -> Row]
      /\ delivered \in [Ops -> Nat]
      /\ \A a \in att : a \in Attempt /\ a.op \in Ops
  BY DEF SuccessInv, TypeOK, Attempt
<1>1. ASSUME NEW o \in Ops, Enqueue(o) PROVE SuccessInv'
  BY <1>0, <1>1, NothingSucceeds DEF Enqueue, NoRow
\* Claims of any size: recovery and leasing make nothing succeed.
<1>2. ASSUME NEW S \in SUBSET Ops, LeaseAll(RecoverDead(op), S) PROVE SuccessInv'
  <2>1. \A o \in Ops : op'[o].state = "Succeeded" => op[o].state = "Succeeded"
    BY <1>0, <1>2, RecoveredRows DEF LeaseAll, Lease
  <2>2. \A a \in att' : a.phase = "accepted" => a \in att
    BY <1>2 DEF LeaseAll
  <2> QED
    BY <1>0, <1>2, <2>1, <2>2, NothingSucceeds DEF LeaseAll
<1>3. ASSUME NEW o \in Ops, ClaimOne(o) \/ ClaimRefused(o) PROVE SuccessInv'
  BY <1>2, <1>3 DEF ClaimOne, ClaimRefused
<1>4. ASSUME NEW limit, ClaimBatch(limit) PROVE SuccessInv'
  <2>1. BatchOf(RecoverDead(op), limit) \subseteq Ops
    BY DEF BatchOf
  <2> QED
    BY <1>2, <1>4, <2>1 DEF ClaimBatch
<1>5. ASSUME NEW o \in Ops, LeaseLapses(o) \/ BackoffElapses(o) PROVE SuccessInv'
  <2>1. \A p \in Ops : op'[p].state = op[p].state
    BY <1>0, <1>5 DEF LeaseLapses, BackoffElapses, Row
  <2> QED
    BY <1>0, <1>5, <2>1, NothingSucceeds DEF LeaseLapses, BackoffElapses
<1>6. ASSUME NEW o \in Ops, HostStep(o) PROVE SuccessInv'
  <2>0. View(o) \in Row /\ (View(o).state = "Succeeded" => op[o].state = "Succeeded")
    BY <1>0, ViewType, RecoveredRows
  <2>1. CASE Cancel(o)
    BY <1>0, <2>1, NothingSucceeds DEF Cancel, Withdrawn
  <2>2. CASE RetryNow(o)
    <3>1. op'[o].state # "Succeeded"
      BY <1>0, <2>0, <2>2 DEF RetryNow, Rearm, HostMayAct, Row
    <3> QED
      BY <1>0, <2>2, <3>1, NothingSucceeds DEF RetryNow
  <2>3. CASE ConfirmDelivered(o)
    BY <1>0, <2>3, NothingSucceeds DEF ConfirmDelivered, Confirmed
  <2>4. CASE ConfirmNotDelivered(o)
    BY <1>0, <2>4, NothingSucceeds DEF ConfirmNotDelivered, Rearm
  <2>5. CASE VerbRefused(o)
    BY <1>0, <2>0, <2>5, NothingSucceeds DEF VerbRefused
  <2> QED
    BY <1>6, <2>1, <2>2, <2>3, <2>4, <2>5 DEF HostStep
<1>7. ASSUME NEW o \in Ops, PlanReconcile(o) PROVE SuccessInv'
  BY <1>0, <1>7, NothingSucceeds DEF PlanReconcile, InSent
<1>8. ASSUME NEW o \in Ops, Reconcile(o) PROVE SuccessInv'
  <2> DEFINE rows == IF op[o].state = "InFlight" THEN RecoverDead(op) ELSE op
  <2>1. /\ rows \in [Ops -> Row]
        /\ \A p \in Ops : rows[p].state = "Succeeded" => op[p].state = "Succeeded"
    BY <1>0, RecoverDeadType, RecoveredRows
  <2>2. delivered[o] > 0
    BY <1>8 DEF Reconcile, SuccessInv, Vouched
  <2>3. op' = rows \/ op' = [rows EXCEPT ![o].state = "Succeeded", ![o].lease = "none"]
    BY <1>8 DEF Reconcile
  <2> HIDE DEF rows
  <2>4. \A p \in Ops \ {o} : op'[p].state = "Succeeded" => op[p].state = "Succeeded"
    BY <2>1, <2>3
  <2> QED
    BY <1>0, <1>8, <2>2, <2>4, NothingSucceeds DEF Reconcile
<1>9. ASSUME RecoverInterrupted PROVE SuccessInv'
  <2>1. \A p \in Ops : op'[p].state = "Succeeded" => op[p].state = "Succeeded"
    BY <1>0, <1>9, RecoverNeverSucceeds DEF RecoverInterrupted
  <2> QED
    BY <1>0, <1>9, <2>1, NothingSucceeds DEF RecoverInterrupted
<1>10. ASSUME NEW a \in att, AttemptStep(a) PROVE SuccessInv'
  <2>1. CASE CommitHandOver(a)
    <3>1. \A p \in Ops : op'[p].state = op[p].state
      BY <1>0, <2>1 DEF CommitHandOver, Row
    <3>2. \A b \in att' : b.phase = "accepted" => b \in att
      BY <1>0, <2>1 DEF CommitHandOver, MovesTo, Attempt
    <3> QED
      BY <1>0, <2>1, <3>1, <3>2, NothingSucceeds DEF CommitHandOver
  <2>2. CASE HandOverRefused(a)
    <3>1. \A b \in att' : b.phase = "accepted" => b \in att
      BY <1>0, <2>2 DEF HandOverRefused, MovesTo, Attempt
    <3> QED
      BY <1>0, <2>2, <3>1, NothingSucceeds DEF HandOverRefused
  <2>3. CASE SendRequest(a)
    <3>1. \A b \in att' : b.phase = "accepted" => b \in att
      BY <1>0, <2>3 DEF SendRequest, MovesTo, Attempt
    <3> QED
      BY <1>0, <2>3, <3>1, NothingSucceeds DEF SendRequest
  <2>4. ASSUME NEW outcome \in OutcomesOf(a), Mark(a, outcome) PROVE SuccessInv'
    <3>1. outcome = "Succeeded" => delivered[a.op] > 0
      BY DEF OutcomesOf, SuccessInv, Vouched
    <3>2. RecordOutcome(a.op, op[a.op], outcome).state = "Succeeded" => outcome = "Succeeded"
      BY DEF RecordOutcome
    <3>3. \A p \in Ops : op'[p].state = "Succeeded" =>
             op[p].state = "Succeeded" \/ delivered[p] > 0
      BY <1>0, <2>4, <3>1, <3>2 DEF Mark
    <3> QED
      BY <1>0, <2>4, <3>3, NothingSucceeds DEF Mark
  <2>5. CASE MarkRefused(a)
    BY <1>0, <2>5, NothingSucceeds DEF MarkRefused
  <2> QED
    BY <1>10, <2>1, <2>2, <2>3, <2>4, <2>5 DEF AttemptStep
<1>11. ASSUME NEW a \in att, FailEarly(a) \/ AnswerLost(a) PROVE SuccessInv'
  <2>1. \A b \in att' : b.phase = "accepted" => b \in att
    BY <1>0, <1>11 DEF FailEarly, AnswerLost, MovesTo, Attempt
  <2> QED
    BY <1>0, <1>11, <2>1, NothingSucceeds DEF FailEarly, AnswerLost
<1>12. ASSUME NEW a \in att, AttemptDies(a) PROVE SuccessInv'
  BY <1>0, <1>12, NothingSucceeds DEF AttemptDies
<1>13. ASSUME NEW a \in att, Renew(a) PROVE SuccessInv'
  <2>1. \A p \in Ops : op'[p].state = op[p].state
    BY <1>0, <1>13 DEF Renew, Row
  <2> QED
    BY <1>0, <1>13, <2>1, NothingSucceeds DEF Renew
<1>14. ASSUME NEW r \in wire, ServerAccepts(r) PROVE SuccessInv'
  <2>1. r.op \in Ops
    BY DEF SuccessInv, TypeOK, Request
  <2>2. /\ \A o \in Ops : delivered'[o] >= delivered[o]
        /\ delivered'[r.op] > 0
    BY <1>0, <1>14, <2>1 DEF ServerAccepts
  <2>3. \A b \in att' : b \in att \/ b.op = r.op
    <3> SUFFICES ASSUME NEW b \in att' PROVE b \in att \/ b.op = r.op
      OBVIOUS
    <3>1. PICK a \in att : b = IF a.op = r.op /\ a.token = r.token /\ a.phase = "awaiting"
                                 THEN [a EXCEPT !.phase = "accepted"] ELSE a
      BY <1>14 DEF ServerAccepts, Answer
    <3>2. a \in Attempt
      BY <1>0
    <3> QED
      BY <3>1, <3>2 DEF Attempt
  <2> QED
    BY <1>14, <2>2, <2>3, NothingSucceeds DEF ServerAccepts
<1>15. ASSUME NEW r \in wire, ServerRefuses(r) \/ RequestLost(r) PROVE SuccessInv'
  <2>1. \A b \in att' : b.phase = "accepted" => b \in att
    <3> SUFFICES ASSUME NEW b \in att', b.phase = "accepted" PROVE b \in att
      OBVIOUS
    <3>1. PICK phase \in {"refused", "ambiguous"} : Answer(r, phase)
      BY <1>15 DEF ServerRefuses, RequestLost
    <3>2. PICK a \in att : b = IF a.op = r.op /\ a.token = r.token /\ a.phase = "awaiting"
                                 THEN [a EXCEPT !.phase = phase] ELSE a
      BY <3>1 DEF Answer
    <3>3. a \in Attempt
      BY <1>0
    <3> QED
      BY <3>2, <3>3 DEF Attempt
  <2> QED
    BY <1>0, <1>15, <2>1, NothingSucceeds DEF ServerRefuses, RequestLost
<1>16. CASE UNCHANGED vars
  BY <1>0, <1>16, NothingSucceeds DEF vars
<1> QED
  BY <1>1, <1>3, <1>4, <1>5, <1>6, <1>7, <1>8, <1>9, <1>10, <1>11,
     <1>12, <1>13, <1>14, <1>15, <1>16 DEF Next

LEMMA SuccessBooks == Spec => []SuccessInv
<1>1. Init => SuccessInv
  <2>1. Init => TypeOK
    BY OutboxAssumption DEF Init, TypeOK, NoRow, Row, States, Attempt, Request
  <2> QED
    BY <2>1 DEF Init, SuccessInv, SucceededIsDelivered, Vouched, NoRow
<1>2. SuccessInv /\ [Next]_vars => SuccessInv'
  <2> SUFFICES ASSUME SuccessInv, [Next]_vars PROVE SuccessInv'
    OBVIOUS
  <2>1. TypeOK'
    BY TypeStep DEF SuccessInv
  <2> QED
    BY <2>1, SuccessStep
<1> QED
  BY <1>1, <1>2, PTL DEF Spec

(* An op that reads as Succeeded was accepted by the server or vouched for *)
(* by the host, whoever resolved it: its attempt, a late attempt whose     *)
(* lease was recovered, or the sync pass that found the copy.              *)
THEOREM SuccessIsDelivery == Spec => []SucceededIsDelivered
<1>1. SuccessInv => SucceededIsDelivered
  BY DEF SuccessInv
<1> QED
  BY <1>1, SuccessBooks, PTL

-------------------------------------------------------------------------------
(* One op in flight per resource.  Only a claim puts an op in flight; it    *)
(* recovers the dead first, and a batch takes one op of each free resource. *)

ExclusiveInv == TypeOK /\ ResourceExclusive

\* A set of ops a claim may lease together.
MayLease(rows, S) ==
  /\ S \subseteq Ops
  /\ \A o \in S : ~ResourceHeld(rows, o)
  /\ \A o, p \in S : o # p => Resource[o] # Resource[p]

LEMMA BatchMayLease ==
  ASSUME NEW rows, NEW limit
  PROVE  MayLease(rows, BatchOf(rows, limit))
<1> DEFINE S == BatchOf(rows, limit)
<1>1. /\ S \subseteq Ops
      /\ \A o \in S : /\ Claimable(rows, o)
                      /\ \A p \in Ops : (p < o /\ Runnable(rows, p))
                                           => Resource[p] # Resource[o]
  BY DEF BatchOf
<1> HIDE DEF S
<1>2. ASSUME NEW o \in S, NEW p \in S, o # p PROVE Resource[o] # Resource[p]
  <2>1. o < p \/ p < o
    BY <1>1, <1>2, OutboxAssumption
  <2> QED
    BY <1>1, <2>1 DEF Claimable
<1>3. \A o \in S : ~ResourceHeld(rows, o)
  BY <1>1 DEF Claimable
<1> QED
  BY <1>1, <1>2, <1>3 DEF MayLease, S

LEMMA LeasesExclusive ==
  ASSUME ExclusiveInv, NEW S, MayLease(RecoverDead(op), S),
         LeaseAll(RecoverDead(op), S)
  PROVE  ResourceExclusive'
<1> DEFINE rows == RecoverDead(op)
<1>1. \A o \in Ops : rows[o].state = "InFlight" => op[o].state = "InFlight"
  BY RecoveredRows DEF ExclusiveInv
<1>2. \A o \in Ops : op'[o] = IF o \in S THEN Lease(rows[o]) ELSE rows[o]
  BY DEF LeaseAll
<1>3. MayLease(rows, S)
  OBVIOUS
<1> HIDE DEF rows
<1> SUFFICES ASSUME NEW o \in Ops, NEW p \in Ops, o # p,
                    op'[o].state = "InFlight", op'[p].state = "InFlight"
             PROVE  Resource[o] # Resource[p]
  BY DEF ResourceExclusive
<1>4. CASE o \in S /\ p \in S
  BY <1>3, <1>4 DEF MayLease
<1>5. CASE o \in S /\ p \notin S
  BY <1>2, <1>3, <1>5 DEF MayLease, ResourceHeld
<1>6. CASE o \notin S /\ p \in S
  BY <1>2, <1>3, <1>6 DEF MayLease, ResourceHeld
<1>7. CASE o \notin S /\ p \notin S
  BY <1>1, <1>2, <1>7 DEF ExclusiveInv, ResourceExclusive
<1> QED
  BY <1>4, <1>5, <1>6, <1>7

LEMMA ExclusiveStep ==
  ASSUME ExclusiveInv, TypeOK', [Next]_vars
  PROVE  ResourceExclusive'
<1>0. /\ TypeOK /\ op \in [Ops -> Row]
      /\ \A a \in att : a.op \in Ops
  BY DEF ExclusiveInv, TypeOK, Attempt
\* A step after which nothing is in flight that was not before.
<1>a. ASSUME \A o \in Ops : op'[o].state = "InFlight" => op[o].state = "InFlight"
      PROVE  ResourceExclusive'
  BY <1>a DEF ExclusiveInv, ResourceExclusive
<1>1. ASSUME NEW o \in Ops, Enqueue(o) PROVE ResourceExclusive'
  BY <1>0, <1>1, <1>a DEF Enqueue, NoRow
<1>2. ASSUME NEW o \in Ops, ClaimOne(o) PROVE ResourceExclusive'
  <2>1. MayLease(RecoverDead(op), {o})
    BY <1>2 DEF ClaimOne, Claimable, MayLease
  <2> QED
    BY <1>2, <2>1, LeasesExclusive DEF ClaimOne
<1>3. ASSUME NEW o \in Ops, ClaimRefused(o) PROVE ResourceExclusive'
  <2>1. MayLease(RecoverDead(op), {})
    BY DEF MayLease
  <2> QED
    BY <1>3, <2>1, LeasesExclusive DEF ClaimRefused
<1>4. ASSUME NEW limit, ClaimBatch(limit) PROVE ResourceExclusive'
  BY <1>4, BatchMayLease, LeasesExclusive DEF ClaimBatch
<1>5. ASSUME NEW o \in Ops, LeaseLapses(o) \/ BackoffElapses(o) PROVE ResourceExclusive'
  BY <1>0, <1>5, <1>a DEF LeaseLapses, BackoffElapses, Row
<1>6. ASSUME NEW o \in Ops, HostStep(o) PROVE ResourceExclusive'
  <2>0. View(o) \in Row /\ (View(o).state = "InFlight" => op[o].state = "InFlight")
    BY <1>0, ViewType, RecoveredRows
  <2>1. CASE Cancel(o)
    BY <1>0, <1>a, <2>1 DEF Cancel, Withdrawn
  <2>2. CASE RetryNow(o)
    BY <1>0, <1>a, <2>0, <2>2 DEF RetryNow, Rearm, HostMayAct, Row
  <2>3. CASE ConfirmDelivered(o)
    BY <1>0, <1>a, <2>3 DEF ConfirmDelivered, Confirmed
  <2>4. CASE ConfirmNotDelivered(o)
    BY <1>0, <1>a, <2>4 DEF ConfirmNotDelivered, Rearm
  <2>5. CASE VerbRefused(o)
    BY <1>0, <1>a, <2>0, <2>5 DEF VerbRefused
  <2> QED
    BY <1>6, <2>1, <2>2, <2>3, <2>4, <2>5 DEF HostStep
<1>7. ASSUME NEW o \in Ops, Reconcile(o) PROVE ResourceExclusive'
  <2> DEFINE rows == IF op[o].state = "InFlight" THEN RecoverDead(op) ELSE op
  <2>1. /\ rows \in [Ops -> Row]
        /\ \A p \in Ops : rows[p].state = "InFlight" => op[p].state = "InFlight"
    BY <1>0, RecoverDeadType, RecoveredRows
  <2>2. op' = rows \/ op' = [rows EXCEPT ![o].state = "Succeeded", ![o].lease = "none"]
    BY <1>7 DEF Reconcile
  <2> HIDE DEF rows
  <2>3. \A p \in Ops : op'[p].state = "InFlight" => rows[p].state = "InFlight"
    BY <2>1, <2>2 DEF Row
  <2> QED
    BY <1>a, <2>1, <2>3
<1>8. ASSUME RecoverInterrupted PROVE ResourceExclusive'
  BY <1>0, <1>8, <1>a, RecoverNeverSucceeds DEF RecoverInterrupted
<1>9. ASSUME NEW a \in att, CommitHandOver(a) \/ Renew(a) PROVE ResourceExclusive'
  BY <1>0, <1>9, <1>a DEF CommitHandOver, Renew, Row
<1>10. ASSUME NEW a \in att, NEW outcome \in OutcomesOf(a), Mark(a, outcome)
       PROVE  ResourceExclusive'
  <2>1. outcome \in Outcomes
    BY DEF OutcomesOf, Outcomes
  <2>2. RecordOutcome(a.op, op[a.op], outcome).state # "InFlight"
    BY <2>1 DEF RecordOutcome, Outcomes
  <2> QED
    BY <1>0, <1>10, <1>a, <2>2 DEF Mark
<1>11. CASE op' = op
  BY <1>a, <1>11
<1> QED
  BY <1>1, <1>2, <1>3, <1>4, <1>5, <1>6, <1>7, <1>8, <1>9, <1>10, <1>11
  DEF Next, AttemptStep, vars, PlanReconcile, HandOverRefused, SendRequest, MarkRefused,
      FailEarly, AnswerLost, AttemptDies, ServerAccepts, ServerRefuses, RequestLost

(* Writes to one resource serialize: no interleaving of claims, batches,   *)
(* recoveries and late outcomes puts two ops of one resource in flight.    *)
THEOREM ResourceSerializes == Spec => []ResourceExclusive
<1>1. Init => ExclusiveInv
  <2>1. Init => TypeOK
    BY OutboxAssumption DEF Init, TypeOK, NoRow, Row, States, Attempt, Request
  <2> QED
    BY <2>1 DEF Init, ExclusiveInv, ResourceExclusive, NoRow
<1>2. ExclusiveInv /\ [Next]_vars => ExclusiveInv'
  <2> SUFFICES ASSUME ExclusiveInv, [Next]_vars PROVE ExclusiveInv'
    OBVIOUS
  <2>1. TypeOK'
    BY TypeStep DEF ExclusiveInv
  <2> QED
    BY <2>1, ExclusiveStep DEF ExclusiveInv
<1>3. ExclusiveInv => ResourceExclusive
  BY DEF ExclusiveInv
<1> QED
  BY <1>1, <1>2, <1>3, PTL DEF Spec
-------------------------------------------------------------------------------
(* What an op leaves behind.  The clocks of a row run only in the state     *)
(* they belong to, and a write still to be attempted has an attempt left:   *)
(* so a settled row has nothing that could wake it, and no count overruns.  *)

Tidy(o, row) ==
  /\ row.lease # "none" => row.state = "InFlight"
  /\ row.backoff = "running" => row.state = "Pending"
  /\ ~IsSend(o) => /\ row.state # "NeedsConfirmation"
                   /\ row.attempts <= MaxAttempts
                   /\ row.state \in {"Absent", "Pending", "InFlight"}
                        => row.attempts < MaxAttempts

RowsTidy == \A o \in Ops : Tidy(o, op[o])

TidyInv == LedgerInv /\ RowsTidy

LEMMA TidyOutcome ==
  ASSUME NEW o \in Ops, NEW row \in Row, Tidy(o, row), NEW outcome \in Outcomes,
         ~IsSend(o) => row.state = "InFlight" /\ outcome # "NeedsConfirmation"
  PROVE  Tidy(o, RecordOutcome(o, row, outcome))
<1> DEFINE new == RecordOutcome(o, row, outcome)
<1>0. row.attempts \in Nat /\ MaxAttempts \in Nat
  BY OutboxAssumption DEF Row
<1>1. /\ new.lease = "none" /\ new.attempts = row.attempts + 1
      /\ new.backoff = "running" => new.state = "Pending"
  BY DEF RecordOutcome, Outcomes
<1>2. ASSUME ~IsSend(o)
      PROVE  /\ new.state \in {"Succeeded", "Pending", "Failed"}
             /\ new.state = "Pending" => row.attempts + 1 < MaxAttempts
  BY <1>2 DEF RecordOutcome, Outcomes, SettlesOnAttempts
<1> HIDE DEF new
<1>3. ASSUME ~IsSend(o) PROVE row.attempts < MaxAttempts
  BY <1>3 DEF Tidy
<1>4. Tidy(o, new)
  BY <1>0, <1>1, <1>2, <1>3 DEF Tidy
<1> QED
  BY <1>4 DEF new

LEMMA TidyRecover ==
  ASSUME NEW o \in Ops, NEW row \in Row, Tidy(o, row), row.state = "InFlight"
  PROVE  Tidy(o, Recover(o, row))
<1> DEFINE outcome == InterruptedOutcome(o, row.handedOver # 0)
           new == RecordOutcome(o, row, outcome)
<1>1. outcome \in Outcomes /\ (~IsSend(o) => outcome # "NeedsConfirmation")
  BY DEF InterruptedOutcome, Outcomes
<1> HIDE DEF outcome
<1>2. Tidy(o, new) /\ new \in Row
  BY <1>1, TidyOutcome, RecordOutcomeType
<1>3. Recover(o, row) = [new EXCEPT !.token = @ + 1]
  BY DEF Recover, outcome
<1> HIDE DEF new
<1> QED
  BY <1>2, <1>3 DEF Tidy, Row

LEMMA TidyRead ==
  ASSUME TidyInv, NEW o \in Ops
  PROVE  /\ op[o] \in Row /\ Tidy(o, op[o])
         /\ View(o) \in Row /\ Tidy(o, View(o))
         /\ RecoverDead(op)[o] \in Row /\ Tidy(o, RecoverDead(op)[o])
<1>1. op \in [Ops -> Row] /\ op[o] \in Row /\ Tidy(o, op[o])
  BY DEF TidyInv, LedgerInv, TypeOK, RowsTidy
<1>2. View(o) \in Row /\ Tidy(o, View(o))
  BY <1>1, ViewType, TidyRecover DEF View, IsDead
<1>3. RecoverDead(op)[o] = View(o)
  BY DEF RecoverDead, View
<1> QED
  BY <1>1, <1>2, <1>3

LEMMA TidyStep ==
  ASSUME TidyInv, LedgerInv', [Next]_vars
  PROVE  RowsTidy'
<1>0. /\ op \in [Ops -> Row]
      /\ \A o \in Ops : op[o] \in Row /\ Tidy(o, op[o])
      /\ \A a \in att : a.op \in Ops
  BY TidyRead DEF TidyInv, LedgerInv, TypeOK, Attempt
\* A step that rewrites one row.
<1>a. ASSUME NEW o \in Ops, NEW new, op' = [op EXCEPT ![o] = new], Tidy(o, new)
      PROVE  RowsTidy'
  BY <1>0, <1>a DEF RowsTidy, Tidy
<1>1. ASSUME NEW o \in Ops, Enqueue(o) PROVE RowsTidy'
  <2>1. Tidy(o, [NoRow EXCEPT !.state = "Pending"])
    BY OutboxAssumption DEF NoRow, Tidy
  <2> QED
    BY <1>1, <1>a, <2>1 DEF Enqueue
<1>2. ASSUME NEW S \in SUBSET Ops, LeaseAll(RecoverDead(op), S),
             \A o \in S : Runnable(RecoverDead(op), o)
      PROVE  RowsTidy'
  <2>1. ASSUME NEW o \in S PROVE Tidy(o, Lease(RecoverDead(op)[o]))
    BY <1>2, TidyRead DEF Tidy, Lease, Runnable
  <2> QED
    BY <1>2, <2>1, TidyRead DEF LeaseAll, RowsTidy, Tidy
<1>3. ASSUME NEW o \in Ops, ClaimOne(o) \/ ClaimRefused(o) PROVE RowsTidy'
  BY <1>2, <1>3 DEF ClaimOne, ClaimRefused, Claimable
<1>4. ASSUME NEW limit, ClaimBatch(limit) PROVE RowsTidy'
  <2>1. /\ BatchOf(RecoverDead(op), limit) \subseteq Ops
        /\ \A o \in BatchOf(RecoverDead(op), limit) : Runnable(RecoverDead(op), o)
    BY DEF BatchOf, Claimable
  <2> QED
    BY <1>2, <1>4, <2>1 DEF ClaimBatch
<1>5. ASSUME NEW o \in Ops, LeaseLapses(o) PROVE RowsTidy'
  <2>1. Tidy(o, [op[o] EXCEPT !.lease = "lapsed"])
    BY <1>0, <1>5 DEF LeaseLapses, Tidy, Row
  <2>2. op' = [op EXCEPT ![o] = [op[o] EXCEPT !.lease = "lapsed"]]
    BY <1>5 DEF LeaseLapses
  <2> QED
    BY <1>a, <2>1, <2>2
<1>6. ASSUME NEW o \in Ops, BackoffElapses(o) PROVE RowsTidy'
  <2>1. Tidy(o, [op[o] EXCEPT !.backoff = "over"])
    BY <1>0 DEF Tidy, Row
  <2>2. op' = [op EXCEPT ![o] = [op[o] EXCEPT !.backoff = "over"]]
    BY <1>6 DEF BackoffElapses
  <2> QED
    BY <1>a, <2>1, <2>2
<1>7. ASSUME NEW o \in Ops, HostStep(o) PROVE RowsTidy'
  <2> DEFINE row == View(o)
  <2>0. row \in Row /\ Tidy(o, row)
    BY TidyRead
  <2>1. CASE Cancel(o)
    <3>1. Tidy(o, Withdrawn(row))
      BY <2>0, <2>1 DEF Withdrawn, Tidy
    <3> QED
      BY <1>a, <2>1, <3>1 DEF Cancel
  <2>2. CASE RetryNow(o)
    <3>1. CASE row.state = "Failed"
      <4>1. IsSend(o) /\ Tidy(o, Rearm(row))
        BY <2>0, <2>2, <3>1 DEF RetryNow, HostMayAct, Rearm, Tidy
      <4> QED
        BY <1>a, <2>2, <3>1, <4>1 DEF RetryNow
    <3>2. CASE row.state # "Failed"
      <4>1. Tidy(o, [row EXCEPT !.backoff = "over"])
        BY <2>0 DEF Tidy, Row
      <4> QED
        BY <1>a, <2>2, <3>2, <4>1 DEF RetryNow
    <3> QED
      BY <3>1, <3>2
  <2>3. CASE ConfirmDelivered(o)
    <3>1. Tidy(o, Confirmed(row))
      BY <2>0, <2>3 DEF ConfirmDelivered, Confirmed, Tidy
    <3> QED
      BY <1>a, <2>3, <3>1 DEF ConfirmDelivered
  <2>4. CASE ConfirmNotDelivered(o)
    <3>1. Tidy(o, Rearm(row))
      BY <2>0, <2>4 DEF ConfirmNotDelivered, Rearm, Tidy
    <3> QED
      BY <1>a, <2>4, <3>1 DEF ConfirmNotDelivered
  <2>5. CASE VerbRefused(o)
    BY <1>a, <2>0, <2>5 DEF VerbRefused
  <2> QED
    BY <1>7, <2>1, <2>2, <2>3, <2>4, <2>5 DEF HostStep
<1>8. ASSUME NEW o \in Ops, Reconcile(o) PROVE RowsTidy'
  <2> DEFINE rows == IF op[o].state = "InFlight" THEN RecoverDead(op) ELSE op
  <2>1. /\ rows \in [Ops -> Row]
        /\ \A p \in Ops : Tidy(p, rows[p])
    BY <1>0, RecoverDeadType, TidyRead
  <2>2. \/ op' = rows
        \/ /\ rows[o].state = "NeedsConfirmation"
           /\ op' = [rows EXCEPT ![o].state = "Succeeded", ![o].lease = "none"]
    BY <1>8 DEF Reconcile
  <2> HIDE DEF rows
  <2>3. CASE op' = rows
    BY <2>1, <2>3 DEF RowsTidy, Tidy
  <2>4. ASSUME rows[o].state = "NeedsConfirmation",
               op' = [rows EXCEPT ![o].state = "Succeeded", ![o].lease = "none"]
        PROVE  RowsTidy'
    <3>1. /\ op'[o].state = "Succeeded" /\ op'[o].lease = "none"
          /\ op'[o].attempts = rows[o].attempts /\ op'[o].backoff = rows[o].backoff
          /\ \A p \in Ops \ {o} : op'[p] = rows[p]
      BY <2>1, <2>4 DEF Row
    <3>2. Tidy(o, op'[o])
      BY <2>1, <2>4, <3>1 DEF Tidy
    <3> QED
      BY <2>1, <3>1, <3>2 DEF RowsTidy, Tidy
  <2> QED
    BY <2>2, <2>3, <2>4
<1>9. ASSUME RecoverInterrupted PROVE RowsTidy'
  <2>1. \A p \in Ops : Tidy(p, op'[p])
    BY <1>0, <1>9, TidyRecover DEF RecoverInterrupted
  <2> QED
    BY <2>1 DEF RowsTidy, Tidy
<1>10. ASSUME NEW a \in att, CommitHandOver(a) PROVE RowsTidy'
  <2>1. Tidy(a.op, [op[a.op] EXCEPT !.handedOver = a.token])
    BY <1>0 DEF Tidy, Row
  <2>2. op' = [op EXCEPT ![a.op] = [op[a.op] EXCEPT !.handedOver = a.token]]
    BY <1>10 DEF CommitHandOver
  <2> QED
    BY <1>0, <1>a, <2>1, <2>2
<1>11. ASSUME NEW a \in att, Renew(a) PROVE RowsTidy'
  <2>1. Tidy(a.op, [op[a.op] EXCEPT !.lease = "live"])
    BY <1>0, <1>11 DEF Renew, Tidy, Row
  <2>2. op' = [op EXCEPT ![a.op] = [op[a.op] EXCEPT !.lease = "live"]]
    BY <1>11 DEF Renew
  <2> QED
    BY <1>0, <1>a, <2>1, <2>2
\* An attempt that may mark a write holds its lease, so the row is in flight.
<1>12. ASSUME NEW a \in att, NEW outcome \in OutcomesOf(a), Mark(a, outcome)
       PROVE  RowsTidy'
  <2>1. outcome \in Outcomes /\ (~IsSend(a.op) => outcome # "NeedsConfirmation")
    BY DEF OutcomesOf, Outcomes
  <2>2. ~IsSend(a.op) => op[a.op].state = "InFlight"
    BY <1>0, <1>12 DEF Mark, MayMark, Tidy, TidyInv, LedgerInv, LeasesSound
  <2>3. Tidy(a.op, RecordOutcome(a.op, op[a.op], outcome))
    BY <1>0, <2>1, <2>2, TidyOutcome
  <2> QED
    BY <1>0, <1>12, <1>a, <2>3 DEF Mark
<1>13. CASE op' = op
  BY <1>13 DEF TidyInv, RowsTidy, Tidy
<1> QED
  BY <1>1, <1>3, <1>4, <1>5, <1>6, <1>7, <1>8, <1>9, <1>10, <1>11, <1>12, <1>13
  DEF Next, AttemptStep, vars, PlanReconcile, HandOverRefused, SendRequest, MarkRefused,
      FailEarly, AnswerLost, AttemptDies, ServerAccepts, ServerRefuses, RequestLost

LEMMA InitTidy ==
  ASSUME Init
  PROVE  TidyInv
<1>1. RowsTidy
  BY OutboxAssumption DEF Init, RowsTidy, Tidy, NoRow
<1> QED
  BY <1>1, InitLedger DEF TidyInv

LEMMA TidyBooks == Spec => []TidyInv
<1>1. Init => RowsTidy
  BY InitTidy DEF TidyInv
<1>2. LedgerInv /\ LedgerInv' /\ RowsTidy /\ [Next]_vars => RowsTidy'
  BY TidyStep DEF TidyInv
<1>3. LedgerInv /\ RowsTidy <=> TidyInv
  BY DEF TidyInv
<1> QED
  BY <1>1, <1>2, <1>3, LedgerBalances, PTL DEF Spec

(* A write is attempted at most MaxAttempts times: outcomes, recoveries of  *)
(* dead attempts and late marks all count against one bound.                *)
THEOREM WritesBounded == Spec => []WriteAttemptsBounded
<1>1. TidyInv => WriteAttemptsBounded
  BY DEF TidyInv, RowsTidy, Tidy, WriteAttemptsBounded
<1> QED
  BY <1>1, TidyBooks, PTL

-------------------------------------------------------------------------------
(* Settled is final.  No recovery reads a settled row as dead, no clock of  *)
(* it runs, and no attempt holds its lease.                                 *)

LEMMA TerminalNotDead ==
  ASSUME NEW o \in Ops, IsTerminal(op[o].state)
  PROVE  View(o) = op[o] /\ RecoverDead(op)[o] = op[o]
BY DEF IsTerminal, View, RecoverDead, IsDead

LEMMA SettledRow ==
  ASSUME TidyInv, [Next]_vars, NEW o \in Ops, IsTerminal(op[o].state), op'[o] # op[o]
  PROVE  IsSend(o) /\ op[o].state = "Failed" /\ (Cancel(o) \/ RetryNow(o))
<1>0. /\ op \in [Ops -> Row] /\ Tidy(o, op[o])
      /\ \A a \in att : a.op \in Ops
      /\ op[o].state \in {"Succeeded", "Failed", "Cancelled"}
  BY DEF TidyInv, RowsTidy, LedgerInv, TypeOK, Attempt, IsTerminal
<1>1. View(o) = op[o] /\ RecoverDead(op)[o] = op[o]
  BY TerminalNotDead
<1>2. ASSUME NEW p \in Ops, Enqueue(p) PROVE FALSE
  BY <1>0, <1>2 DEF Enqueue
<1>3. ASSUME NEW S \in SUBSET Ops, LeaseAll(RecoverDead(op), S),
             \A p \in S : Runnable(RecoverDead(op), p)
      PROVE  FALSE
  BY <1>0, <1>1, <1>3 DEF LeaseAll, Runnable
<1>4. ASSUME NEW p \in Ops, ClaimOne(p) \/ ClaimRefused(p) PROVE FALSE
  BY <1>3, <1>4 DEF ClaimOne, ClaimRefused, Claimable
<1>5. ASSUME NEW limit, ClaimBatch(limit) PROVE FALSE
  <2>1. /\ BatchOf(RecoverDead(op), limit) \subseteq Ops
        /\ \A p \in BatchOf(RecoverDead(op), limit) : Runnable(RecoverDead(op), p)
    BY DEF BatchOf, Claimable
  <2> QED
    BY <1>3, <1>5, <2>1 DEF ClaimBatch
<1>6. ASSUME NEW p \in Ops, LeaseLapses(p) \/ BackoffElapses(p) PROVE FALSE
  BY <1>0, <1>6 DEF LeaseLapses, BackoffElapses, Tidy
<1>7. ASSUME NEW p \in Ops, HostStep(p)
      PROVE  IsSend(o) /\ op[o].state = "Failed" /\ (Cancel(o) \/ RetryNow(o))
  <2>1. p = o
    BY <1>0, <1>7
    DEF HostStep, Cancel, RetryNow, ConfirmDelivered, ConfirmNotDelivered, VerbRefused
  <2>2. ~ConfirmDelivered(o) /\ ~ConfirmNotDelivered(o) /\ ~VerbRefused(o)
    BY <1>0, <1>1 DEF ConfirmDelivered, ConfirmNotDelivered, VerbRefused, IsDead
  <2>3. Cancel(o) \/ RetryNow(o)
    BY <1>7, <2>1, <2>2 DEF HostStep
  <2>4. HostMayAct(o, op[o])
    BY <1>1, <2>3 DEF Cancel, RetryNow
  <2> QED
    BY <1>0, <2>3, <2>4 DEF HostMayAct
<1>8. ASSUME NEW p \in Ops, Reconcile(p) PROVE FALSE
  <2> DEFINE rows == IF op[p].state = "InFlight" THEN RecoverDead(op) ELSE op
  <2>1. rows \in [Ops -> Row] /\ rows[o] = op[o]
    BY <1>0, <1>1, RecoverDeadType
  <2>2. \/ op' = rows
        \/ /\ rows[p].state = "NeedsConfirmation"
           /\ op' = [rows EXCEPT ![p].state = "Succeeded", ![p].lease = "none"]
    BY <1>8 DEF Reconcile
  <2> HIDE DEF rows
  <2> QED
    BY <1>0, <2>1, <2>2
<1>9. ASSUME RecoverInterrupted PROVE FALSE
  BY <1>0, <1>9 DEF RecoverInterrupted
<1>10. ASSUME NEW a \in att, CommitHandOver(a) \/ Renew(a) PROVE FALSE
  BY <1>0, <1>10 DEF CommitHandOver, Renew
<1>11. ASSUME NEW a \in att, NEW outcome \in OutcomesOf(a), Mark(a, outcome) PROVE FALSE
  <2>1. a.op = o
    BY <1>0, <1>11 DEF Mark
  <2> QED
    BY <1>0, <1>11, <2>1 DEF Mark, MayMark, TidyInv, LedgerInv, LeasesSound
<1>12. CASE op' = op
  BY <1>12
<1> QED
  BY <1>2, <1>4, <1>5, <1>6, <1>7, <1>8, <1>9, <1>10, <1>11, <1>12
  DEF Next, AttemptStep, vars, PlanReconcile, HandOverRefused, SendRequest, MarkRefused,
      FailEarly, AnswerLost, AttemptDies, ServerAccepts, ServerRefuses, RequestLost

(* No late outcome, recovery, reconciliation or clock changes a settled row:  *)
(* only the host's Cancel or RetryNow does, of a send that failed.            *)
THEOREM SettledIsFinal == Spec => SettledStays
<1> DEFINE Final ==
      \A o \in Ops :
        (IsTerminal(op[o].state) /\ op'[o] # op[o])
          => /\ IsSend(o) /\ op[o].state = "Failed"
             /\ Cancel(o) \/ RetryNow(o)
<1>1. TidyInv /\ [Next]_vars => [Final]_vars
  BY SettledRow
<1> QED
  BY <1>1, TidyBooks, PTL DEF Spec, SettledStays

-------------------------------------------------------------------------------
(* Dependencies first.  An op is worked on wherever its row, an attempt of   *)
(* it or a request of it says so; only a claim begins that, it asks for      *)
(* every dependency, and a dependency that succeeded stays so.               *)

WorkedOn(o) ==
  \/ op[o].state = "InFlight" \/ op[o].attempts > 0 \/ delivered[o] > 0
  \/ \E a \in att : a.op = o
  \/ \E r \in wire : r.op = o

DependenciesDone ==
  \A o \in Ops : WorkedOn(o) => \A d \in DependsOn[o] : op[d].state = "Succeeded"

LEMMA RecoveredWorkedOn ==
  ASSUME TidyInv, NEW o \in Ops
  PROVE  /\ View(o).attempts > 0 => WorkedOn(o)
         /\ RecoverDead(op)[o].attempts > 0 => WorkedOn(o)
         /\ RecoverDead(op)[o].state = "InFlight" => WorkedOn(o)
<1>1. RecoverDead(op)[o] = View(o)
  BY DEF RecoverDead, View
<1>2. View(o).state = "InFlight" => op[o].state = "InFlight"
  BY RecoveredRows DEF TidyInv, LedgerInv
<1>3. View(o) = op[o] \/ op[o].state = "InFlight"
  BY DEF View, IsDead
<1> QED
  BY <1>1, <1>2, <1>3 DEF WorkedOn

LEMMA WorkStep ==
  ASSUME TidyInv, [Next]_vars, NEW o \in Ops, WorkedOn(o)'
  PROVE  WorkedOn(o) \/ \A d \in DependsOn[o] : op[d].state = "Succeeded"
<1>0. /\ op \in [Ops -> Row] /\ delivered \in [Ops -> Nat]
      /\ \A a \in att : a \in Attempt /\ a.op \in Ops
      /\ \A r \in wire : r.op \in Ops
      /\ TypeOK
      /\ DependsOn[o] \subseteq Ops
  BY OutboxAssumption DEF TidyInv, LedgerInv, TypeOK, Attempt, Request
\* A step that starts no attempt and sends nothing, and counts or leases only
\* a row that was worked on.
<1>a. ASSUME \A b \in att' : \E a \in att : a.op = b.op,
             wire' \subseteq wire,
             delivered'[o] > delivered[o] => WorkedOn(o),
             op'[o].state = "InFlight" => WorkedOn(o),
             op'[o].attempts > 0 => WorkedOn(o)
      PROVE  WorkedOn(o)
  <2>1. delivered'[o] > 0 => WorkedOn(o)
    <3>1. CASE delivered'[o] > delivered[o]
      BY <1>a, <3>1
    <3>2. CASE ~(delivered'[o] > delivered[o])
      <4>1. delivered'[o] \in Nat /\ delivered[o] \in Nat
        BY <1>0, TypeStep DEF TypeOK
      <4> QED
        BY <3>2, <4>1 DEF WorkedOn
    <3> QED
      BY <3>1, <3>2
  <2>2. (\E b \in att' : b.op = o) => WorkedOn(o)
    BY <1>a DEF WorkedOn
  <2>3. (\E r \in wire' : r.op = o) => WorkedOn(o)
    BY <1>a DEF WorkedOn
  <2>4. \/ op'[o].state = "InFlight" \/ op'[o].attempts > 0 \/ delivered'[o] > 0
        \/ \E a \in att' : a.op = o
        \/ \E r \in wire' : r.op = o
    BY DEF WorkedOn
  <2> QED
    BY <1>a, <2>1, <2>2, <2>3, <2>4
<1>b. ASSUME att' = att, wire' = wire, delivered' = delivered, NEW p \in Ops, NEW new,
             op' = [op EXCEPT ![p] = new],
             new.state # "InFlight" \/ op[p].state = "InFlight",
             new.attempts > 0 => WorkedOn(p)
      PROVE  WorkedOn(o)
  <2>1. /\ op'[o].state = "InFlight" => WorkedOn(o)
        /\ op'[o].attempts > 0 => WorkedOn(o)
    BY <1>0, <1>b DEF WorkedOn
  <2>2. ~(delivered[o] > delivered[o])
    BY <1>0
  <2> QED
    BY <1>a, <1>b, <2>1, <2>2
<1>1. ASSUME NEW p \in Ops, Enqueue(p) PROVE WorkedOn(o)
  <2>1. /\ [NoRow EXCEPT !.state = "Pending"].state = "Pending"
        /\ ~([NoRow EXCEPT !.state = "Pending"].attempts > 0)
    BY DEF NoRow
  <2> QED
    BY <1>1, <1>b, <2>1 DEF Enqueue
<1>2. ASSUME NEW S \in SUBSET Ops, LeaseAll(RecoverDead(op), S),
             \A p \in S : Runnable(RecoverDead(op), p)
      PROVE  WorkedOn(o) \/ \A d \in DependsOn[o] : op[d].state = "Succeeded"
  <2>1. CASE o \in S
    <3>1. \A d \in DependsOn[o] : RecoverDead(op)[d].state = "Succeeded"
      BY <1>2, <2>1 DEF Runnable
    <3> QED
      BY <1>0, <3>1, RecoveredRows
  <2>2. CASE o \notin S
    <3>1. op'[o] = RecoverDead(op)[o]
      BY <1>2, <2>2 DEF LeaseAll
    <3>2. \A b \in att' : b.op = o => b \in att
      BY <1>2, <2>2 DEF LeaseAll
    <3> QED
      BY <1>2, <3>1, <3>2, RecoveredWorkedOn DEF WorkedOn, LeaseAll
  <2> QED
    BY <2>1, <2>2
<1>3. ASSUME NEW p \in Ops, ClaimOne(p) \/ ClaimRefused(p)
      PROVE  WorkedOn(o) \/ \A d \in DependsOn[o] : op[d].state = "Succeeded"
  BY <1>2, <1>3 DEF ClaimOne, ClaimRefused, Claimable
<1>4. ASSUME NEW limit, ClaimBatch(limit)
      PROVE  WorkedOn(o) \/ \A d \in DependsOn[o] : op[d].state = "Succeeded"
  <2>1. /\ BatchOf(RecoverDead(op), limit) \subseteq Ops
        /\ \A p \in BatchOf(RecoverDead(op), limit) : Runnable(RecoverDead(op), p)
    BY DEF BatchOf, Claimable
  <2> QED
    BY <1>2, <1>4, <2>1 DEF ClaimBatch
<1>5. ASSUME NEW p \in Ops, LeaseLapses(p) \/ BackoffElapses(p) PROVE WorkedOn(o)
  <2>1. op'[o].state = op[o].state /\ op'[o].attempts = op[o].attempts
    BY <1>0, <1>5 DEF LeaseLapses, BackoffElapses, Row
  <2> QED
    BY <1>5, <2>1 DEF WorkedOn, LeaseLapses, BackoffElapses
<1>6. ASSUME NEW p \in Ops, HostStep(p) PROVE WorkedOn(o)
  <2>0. View(p) \in Row /\ (View(p).attempts > 0 => WorkedOn(p))
    BY <1>0, ViewType, RecoveredWorkedOn
  <2>1. CASE Cancel(p)
    BY <1>b, <2>0, <2>1 DEF Cancel, Withdrawn
  <2>2. CASE RetryNow(p)
    <3> DEFINE new == IF View(p).state = "Failed" THEN Rearm(View(p))
                      ELSE [View(p) EXCEPT !.backoff = "over"]
    <3>1. new.state # "InFlight" /\ new.attempts = View(p).attempts
      BY <2>0, <2>2 DEF RetryNow, Rearm, HostMayAct, Row
    <3>2. op' = [op EXCEPT ![p] = new]
      BY <2>2 DEF RetryNow
    <3> HIDE DEF new
    <3> QED
      BY <1>b, <2>0, <2>2, <3>1, <3>2 DEF RetryNow
  <2>3. CASE ConfirmDelivered(p)
    BY <1>b, <2>0, <2>3 DEF ConfirmDelivered, Confirmed
  <2>4. CASE ConfirmNotDelivered(p)
    BY <1>b, <2>0, <2>4 DEF ConfirmNotDelivered, Rearm
  <2>5. CASE VerbRefused(p)
    BY <1>b, <2>0, <2>5, <1>0, RecoveredRows DEF VerbRefused
  <2> QED
    BY <1>6, <2>1, <2>2, <2>3, <2>4, <2>5 DEF HostStep
<1>7. ASSUME NEW p \in Ops, Reconcile(p) PROVE WorkedOn(o)
  <2> DEFINE rows == IF op[p].state = "InFlight" THEN RecoverDead(op) ELSE op
  <2>1. /\ rows \in [Ops -> Row]
        /\ rows[o].state = "InFlight" => WorkedOn(o)
        /\ rows[o].attempts > 0 => WorkedOn(o)
    BY <1>0, RecoverDeadType, RecoveredWorkedOn DEF WorkedOn
  <2>2. op' = rows \/ op' = [rows EXCEPT ![p].state = "Succeeded", ![p].lease = "none"]
    BY <1>7 DEF Reconcile
  <2> HIDE DEF rows
  <2>3. /\ op'[o].state = "InFlight" => WorkedOn(o)
        /\ op'[o].attempts > 0 => WorkedOn(o)
    BY <2>1, <2>2 DEF Row
  <2> QED
    BY <1>7, <2>3 DEF Reconcile, WorkedOn
<1>8. ASSUME RecoverInterrupted PROVE WorkedOn(o)
  BY <1>0, <1>8 DEF RecoverInterrupted, WorkedOn
<1>9. ASSUME NEW a \in att, AttemptStep(a) PROVE WorkedOn(o)
  <2>0. WorkedOn(a.op)
    BY DEF WorkedOn
  <2>1. CASE CommitHandOver(a)
    <3>1. op'[o].state = op[o].state /\ op'[o].attempts = op[o].attempts
      BY <1>0, <2>1 DEF CommitHandOver, Row
    <3>2. \A b \in att' : b.op = o => \E c \in att : c.op = o
      BY <1>0, <2>1 DEF CommitHandOver, MovesTo, Attempt
    <3> QED
      BY <2>1, <3>1, <3>2 DEF CommitHandOver, WorkedOn
  <2>2. CASE HandOverRefused(a) \/ SendRequest(a)
    <3>1. \A b \in att' : b.op = o => \E c \in att : c.op = o
      BY <1>0, <2>2 DEF HandOverRefused, SendRequest, MovesTo, Attempt
    <3>2. \A r \in wire' : r \in wire \/ r.op = a.op
      BY <2>2 DEF HandOverRefused, SendRequest
    <3> QED
      BY <2>0, <2>2, <3>1, <3>2 DEF HandOverRefused, SendRequest, WorkedOn
  <2>3. ASSUME NEW outcome \in OutcomesOf(a), Mark(a, outcome) PROVE WorkedOn(o)
    BY <1>0, <2>0, <2>3 DEF Mark, WorkedOn
  <2>4. CASE MarkRefused(a)
    BY <2>4 DEF MarkRefused, WorkedOn
  <2> QED
    BY <1>9, <2>1, <2>2, <2>3, <2>4 DEF AttemptStep
<1>10. ASSUME NEW a \in att, FailEarly(a) \/ AnswerLost(a) \/ AttemptDies(a)
       PROVE  WorkedOn(o)
  <2>1. \A b \in att' : b.op = o => \E c \in att : c.op = o
    BY <1>0, <1>10 DEF FailEarly, AnswerLost, AttemptDies, MovesTo, Attempt
  <2> QED
    BY <1>10, <2>1 DEF FailEarly, AnswerLost, AttemptDies, WorkedOn
<1>11. ASSUME NEW a \in att, Renew(a) PROVE WorkedOn(o)
  <2>1. op'[o].state = op[o].state /\ op'[o].attempts = op[o].attempts
    BY <1>0, <1>11 DEF Renew, Row
  <2> QED
    BY <1>11, <2>1 DEF Renew, WorkedOn
<1>12. ASSUME NEW r \in wire, ServerAccepts(r) \/ ServerRefuses(r) \/ RequestLost(r)
       PROVE  WorkedOn(o)
  <2>0. WorkedOn(r.op)
    BY DEF WorkedOn
  <2>1. PICK phase \in Phases : Answer(r, phase)
    BY <1>12 DEF ServerAccepts, ServerRefuses, RequestLost, Phases
  <2>2. \A b \in att' : b.op = o => \E c \in att : c.op = o
    <3> SUFFICES ASSUME NEW b \in att' PROVE \E c \in att : c.op = b.op
      OBVIOUS
    <3>1. PICK c \in att : b = IF c.op = r.op /\ c.token = r.token /\ c.phase = "awaiting"
                                 THEN [c EXCEPT !.phase = phase] ELSE c
      BY <2>1 DEF Answer
    <3> QED
      BY <1>0, <3>1 DEF Attempt
  <2>3. r.op = o \/ delivered'[o] = delivered[o]
    BY <1>0, <1>12 DEF ServerAccepts, ServerRefuses, RequestLost
  <2> QED
    BY <1>12, <2>0, <2>2, <2>3 DEF ServerAccepts, ServerRefuses, RequestLost, WorkedOn
<1>13. ASSUME NEW p \in Ops, PlanReconcile(p) PROVE WorkedOn(o)
  BY <1>13 DEF PlanReconcile, WorkedOn
<1>14. CASE UNCHANGED vars
  BY <1>14 DEF vars, WorkedOn
<1> QED
  BY <1>1, <1>3, <1>4, <1>5, <1>6, <1>7, <1>8, <1>9, <1>10, <1>11, <1>12, <1>13, <1>14
  DEF Next

(* Whatever was attempted ran after its dependencies had succeeded, and no  *)
(* later step takes the success of one back.                                *)
THEOREM DependenciesRunFirst == Spec => []DependenciesFirst
<1>1. Init => DependenciesDone
  <2> SUFFICES ASSUME Init, NEW o \in Ops PROVE ~WorkedOn(o)
    BY DEF DependenciesDone
  <2> QED
    BY DEF Init, WorkedOn, NoRow
<1>2. TidyInv /\ DependenciesDone /\ [Next]_vars => DependenciesDone'
  <2> SUFFICES ASSUME TidyInv, DependenciesDone, [Next]_vars,
                      NEW o \in Ops, WorkedOn(o)', NEW d \in DependsOn[o]
               PROVE  op'[d].state = "Succeeded"
    BY DEF DependenciesDone
  <2>1. d \in Ops
    BY OutboxAssumption
  <2>2. op[d].state = "Succeeded"
    BY WorkStep DEF DependenciesDone
  <2> QED
    BY <2>1, <2>2, SettledRow DEF IsTerminal
<1>3. DependenciesDone => DependenciesFirst
  BY DEF DependenciesDone, DependenciesFirst, WorkedOn
<1> QED
  BY <1>1, <1>2, <1>3, TidyBooks, PTL DEF Spec

-------------------------------------------------------------------------------
(* The outbox implements SendPromise.  The ledger of licences shows that   *)
(* every delivery and every withdrawal is licensed, and the word of the    *)
(* server that only what was delivered reads as sent.                      *)

\* What the host reads of a send whose row is `row`.
Shown(row) ==
  IF IsDead(row) /\ row.handedOver # 0 THEN "Asking" ELSE StatusOf(row.state)

LEMMA RecoveredSend ==
  ASSUME NEW o \in Sends, NEW row \in Row
  PROVE  Recover(o, row).state =
           IF row.handedOver # 0 THEN "NeedsConfirmation" ELSE "Pending"
<1> DEFINE outcome == InterruptedOutcome(o, row.handedOver # 0)
<1>1. outcome = IF row.handedOver # 0 THEN "NeedsConfirmation" ELSE "RetryableNow"
  BY DEF InterruptedOutcome, Sends
<1> HIDE DEF outcome
<1>2. RecordOutcome(o, row, outcome).state =
        IF row.handedOver # 0 THEN "NeedsConfirmation" ELSE "Pending"
  BY <1>1 DEF RecordOutcome, SettlesOnAttempts, Sends
<1>3. Recover(o, row).state = RecordOutcome(o, row, outcome).state
  BY DEF Recover, RecordOutcome, outcome
<1> QED
  BY <1>2, <1>3

\* View, of a row rather than of an op.
ViewOf(o, row) == IF IsDead(row) THEN Recover(o, row) ELSE row

LEMMA ShownByView ==
  ASSUME NEW o \in Sends, NEW row \in Row
  PROVE  /\ StatusOf(ViewOf(o, row).state) = Shown(row)
         /\ ViewOf(o, row).state =
              IF IsDead(row)
                THEN IF row.handedOver # 0 THEN "NeedsConfirmation" ELSE "Pending"
                ELSE row.state
<1>1. ViewOf(o, row).state =
        IF IsDead(row)
          THEN IF row.handedOver # 0 THEN "NeedsConfirmation" ELSE "Pending"
          ELSE row.state
  BY RecoveredSend DEF ViewOf
<1>2. /\ StatusOf("Pending") = "Queued"
      /\ StatusOf("NeedsConfirmation") = "Asking"
      /\ StatusOf("InFlight") = "Queued"
  BY DEF StatusOf
<1> QED
  BY <1>1, <1>2 DEF Shown, IsDead

(* A step that neither delivers nor grants, and moves every send along. *)
LEMMA MovesOnStep ==
  ASSUME TypeOK, TypeOK',
         \A o \in Sends :
            \/ Shown(op'[o]) = Shown(op[o])
            \/ <<Shown(op[o]), Shown(op'[o])>> \in Promise!Moves
            \/ /\ Shown(op[o]) \in {"Queued", "Asking"}
               /\ Shown(op'[o]) = "Sent"
               /\ delivered[o] > 0,
         \A o \in Sends : Licence(op'[o]) = Licence(op[o]),
         \A o \in Sends : delivered'[o] = delivered[o],
         \A o \in Sends : saidNo'[o] = saidNo[o]
  PROVE  Promise!Next
<1>0. \A o \in Sends : op[o] \in Row /\ op'[o] \in Row
  BY DEF TypeOK, Sends
<1>1. \A o \in Sends : StatusOf(View(o).state) = Shown(op[o])
  BY <1>0, ShownByView DEF View, ViewOf
<1>2. \A o \in Sends : StatusOf(View(o).state)' = Shown(op'[o])
  BY <1>0, ShownByView DEF View, ViewOf
<1> QED
  BY <1>1, <1>2 DEF Promise!Next, Promise!MoveOn, Promise!MovesOn

LEMMA PromiseStep ==
  ASSUME LedgerInv, SuccessInv, TypeOK', [Next]_vars
  PROVE  [Promise!Next]_(Promise!promiseVars)
<1>0. /\ TypeOK /\ op \in [Ops -> Row] /\ op' \in [Ops -> Row]
      /\ delivered \in [Ops -> Nat] /\ saidNo \in [Ops -> Nat]
      /\ Sends \subseteq Ops
      /\ \A o \in Ops : op[o] \in Row /\ RowSound(o, op[o])
      /\ \A a \in att : a \in Attempt /\ a.op \in Ops
  BY DEF LedgerInv, TypeOK, RowsSound, Attempt, Sends
<1>v. /\ \A o \in Sends : StatusOf(View(o).state) = Shown(op[o])
      /\ \A o \in Sends : StatusOf(View(o).state)' = Shown(op'[o])
      /\ \A o \in Sends : View(o).state =
           IF IsDead(op[o])
             THEN IF op[o].handedOver # 0 THEN "NeedsConfirmation" ELSE "Pending"
             ELSE op[o].state
  BY <1>0, ShownByView DEF View, ViewOf
\* A step that leaves every row as shown, but for one it moves on.
<1>a. ASSUME NEW o \in Ops,
             \A p \in Ops \ {o} : op'[p] = op[p],
             o \in Sends =>
               /\ \/ Shown(op'[o]) = Shown(op[o])
                  \/ <<Shown(op[o]), Shown(op'[o])>> \in Promise!Moves
                  \/ /\ Shown(op[o]) \in {"Queued", "Asking"}
                     /\ Shown(op'[o]) = "Sent"
                     /\ delivered[o] > 0
               /\ Licence(op'[o]) = Licence(op[o]),
             delivered' = delivered, saidNo' = saidNo
      PROVE  Promise!Next
  <2>1. \A p \in Sends :
          \/ Shown(op'[p]) = Shown(op[p])
          \/ <<Shown(op[p]), Shown(op'[p])>> \in Promise!Moves
          \/ /\ Shown(op[p]) \in {"Queued", "Asking"}
             /\ Shown(op'[p]) = "Sent"
             /\ delivered[p] > 0
    BY <1>0, <1>a
  <2>2. \A p \in Sends : Licence(op'[p]) = Licence(op[p])
    BY <1>0, <1>a
  <2> QED
    BY <1>0, <1>a, <2>1, <2>2, MovesOnStep
\* A step that changes no row.
<1>b. ASSUME op' = op, delivered' = delivered, saidNo' = saidNo
      PROVE  Promise!Next
  BY <1>0, <1>b, MovesOnStep
<1>1. ASSUME NEW o \in Ops, Enqueue(o) PROVE Promise!Next
  <2>1. op[o].state = "Absent" /\ op'[o].state = "Pending"
    BY <1>0, <1>1 DEF Enqueue, NoRow
  <2>2. Shown(op[o]) = "Absent" /\ Shown(op'[o]) = "Queued" /\ Licence(op'[o]) = Licence(op[o])
    BY <2>1 DEF Shown, IsDead, StatusOf, Licence
  <2> QED
    BY <1>0, <1>1, <1>a, <2>2 DEF Enqueue, Promise!Moves
\* Recovery shows nothing new, and a leased op stays queued.
<1>r. ASSUME NEW o \in Sends
      PROVE  /\ Shown(RecoverDead(op)[o]) = Shown(op[o])
             /\ Licence(RecoverDead(op)[o]) = Licence(op[o])
             /\ RecoverDead(op)[o] \in Row
  <2>1. CASE ~IsDead(op[o])
    BY <1>0, <2>1 DEF RecoverDead
  <2>2. CASE IsDead(op[o])
    <3>1. RecoverDead(op)[o] = Recover(o, op[o]) /\ Recover(o, op[o]) \in Row
      BY <1>0, <2>2, RecoverType DEF RecoverDead
    <3>2. Recover(o, op[o]).state =
            IF op[o].handedOver # 0 THEN "NeedsConfirmation" ELSE "Pending"
      BY <1>0, RecoveredSend
    <3> QED
      BY <2>2, <3>1, <3>2 DEF Shown, IsDead, StatusOf, Licence
  <2> QED
    BY <2>1, <2>2
<1>2. ASSUME NEW S \in SUBSET Ops, \A o \in S : RecoverDead(op)[o].state = "Pending",
             LeaseAll(RecoverDead(op), S)
      PROVE  Promise!Next
  <2>1. \A o \in Sends : Shown(op'[o]) = Shown(op[o]) /\ Licence(op'[o]) = Licence(op[o])
    <3> SUFFICES ASSUME NEW o \in Sends
                 PROVE  Shown(op'[o]) = Shown(op[o]) /\ Licence(op'[o]) = Licence(op[o])
      OBVIOUS
    <3>1. CASE o \notin S
      BY <1>0, <1>2, <1>r, <3>1 DEF LeaseAll
    <3>2. CASE o \in S
      <4>1. /\ op'[o] = Lease(RecoverDead(op)[o])
            /\ RecoverDead(op)[o].state = "Pending"
        BY <1>0, <1>2, <3>2 DEF LeaseAll
      <4>2. op'[o].state = "InFlight" /\ op'[o].lease = "live"
        BY <4>1 DEF Lease
      <4>3. Shown(op'[o]) = Shown(RecoverDead(op)[o]) /\ Licence(op'[o]) = Licence(RecoverDead(op)[o])
        BY <4>1, <4>2 DEF Shown, IsDead, StatusOf, Licence
      <4> QED
        BY <1>r, <4>3
    <3> QED
      BY <3>1, <3>2
  <2> QED
    BY <1>0, <1>2, <2>1, MovesOnStep DEF LeaseAll
<1>3. ASSUME NEW o \in Ops, ClaimOne(o) \/ ClaimRefused(o) PROVE Promise!Next
  BY <1>2, <1>3 DEF ClaimOne, ClaimRefused, Claimable, Runnable
<1>4. ASSUME NEW limit, ClaimBatch(limit) PROVE Promise!Next
  <2>1. /\ BatchOf(RecoverDead(op), limit) \subseteq Ops
        /\ \A o \in BatchOf(RecoverDead(op), limit) :
             RecoverDead(op)[o].state = "Pending"
    BY DEF BatchOf, Claimable, Runnable
  <2> QED
    BY <1>2, <1>4, <2>1 DEF ClaimBatch
<1>5. ASSUME NEW o \in Ops, LeaseLapses(o) \/ BackoffElapses(o) PROVE Promise!Next
  <2>1. /\ op'[o].state = op[o].state /\ op'[o].handedOver = op[o].handedOver
        /\ op'[o].lease = op[o].lease \/ op[o].lease = "live"
        /\ \A p \in Ops \ {o} : op'[p] = op[p]
    BY <1>0, <1>5 DEF LeaseLapses, BackoffElapses, Row
  <2>2. /\ Shown(op'[o]) = Shown(op[o]) \/ (Shown(op[o]) = "Queued" /\ Shown(op'[o]) = "Asking")
        /\ Licence(op'[o]) = Licence(op[o])
    <3>1. CASE op[o].state # "InFlight"
      BY <2>1, <3>1 DEF Shown, IsDead, Licence
    <3>2. CASE op[o].state = "InFlight"
      <4>1. StatusOf(op[o].state) = "Queued" /\ StatusOf(op'[o].state) = "Queued"
        BY <2>1, <3>2 DEF StatusOf
      <4> QED
        BY <2>1, <3>2, <4>1 DEF Shown, IsDead, Licence
    <3> QED
      BY <3>1, <3>2
  <2> QED
    BY <1>5, <1>a, <2>1, <2>2 DEF LeaseLapses, BackoffElapses, Promise!Moves
<1>6. ASSUME NEW o \in Ops, HostStep(o) PROVE Promise!Next
  <2>0. View(o) \in Row
    BY <1>0, ViewType
  <2>1. CASE Cancel(o) /\ o \in Sends
    <3>1. /\ op'[o].state = "Cancelled" /\ View(o).state \in {"Pending", "Failed"}
          /\ \A p \in Ops \ {o} : op'[p] = op[p]
          /\ delivered' = delivered /\ saidNo' = saidNo
      BY <1>0, <2>1 DEF Cancel, Withdrawn, HostMayAct
    <3>2. Shown(op[o]) \in {"Queued", "Failed"} /\ Shown(op'[o]) = "Withdrawn"
      BY <1>v, <2>1, <3>1 DEF StatusOf, Shown, IsDead
    <3>3. Unused(op[o]) = 1 /\ Licence(op[o]) = 1 /\ Licence(op'[o]) = 0
      BY <1>v, <2>1, <3>1 DEF Unused, Unsent, Licence, IsDead
    <3>4. delivered[o] < saidNo[o] + 1
      <4>1. delivered[o] + Cardinality(Committed(o)) + Cardinality(OnWire(o))
              + Unused(op[o]) + GivenBack(o) <= saidNo[o] + Licence(op[o])
        BY <1>0, <2>1 DEF LedgerInv, Ledger, Sends
      <4>2. GivenBack(o) \in Nat
        BY DEF GivenBack
      <4> QED
        BY <1>0, <3>3, <4>1, <4>2, Counted
    <3>5. Promise!Withdraw(o)
      <4>1. \A p \in Sends \ {o} : Shown(op'[p]) = Shown(op[p]) /\ Licence(op'[p]) = Licence(op[p])
        BY <1>0, <3>1
      <4>2. saidNo[o] + Licence(op'[o]) = (saidNo[o] + Licence(op[o])) - 1
        BY <1>0, <3>3
      <4> QED
        BY <1>0, <1>v, <2>1, <3>1, <3>2, <3>3, <3>4, <4>1, <4>2 DEF Promise!Withdraw
    <3> QED
      BY <2>1, <3>5 DEF Promise!Next
  <2>2. CASE RetryNow(o)
    <3>1. /\ \A p \in Ops \ {o} : op'[p] = op[p]
          /\ op'[o].state = "Pending" /\ View(o).state \in {"Pending", "Failed"}
      BY <1>0, <2>0, <2>2 DEF RetryNow, Rearm, HostMayAct, Row
    <3>2. o \in Sends => /\ Shown(op[o]) \in {"Queued", "Failed"} /\ Shown(op'[o]) = "Queued"
                         /\ Licence(op'[o]) = Licence(op[o])
      BY <1>v, <3>1 DEF StatusOf, Shown, IsDead, Licence
    <3> QED
      BY <1>a, <2>2, <3>1, <3>2 DEF RetryNow, Promise!Moves
  <2>3. CASE ConfirmDelivered(o) /\ o \in Sends
    <3>1. /\ op'[o].state = "Succeeded" /\ View(o).state = "NeedsConfirmation"
          /\ \A p \in Ops \ {o} : op'[p] = op[p]
          /\ delivered' = delivered /\ saidNo' = saidNo
      BY <1>0, <2>3 DEF ConfirmDelivered, Confirmed
    <3>2. /\ Shown(op[o]) = "Asking" /\ Shown(op'[o]) = "Sent"
          /\ Licence(op'[o]) = Licence(op[o])
      BY <1>v, <2>3, <3>1 DEF StatusOf, Shown, IsDead, Licence
    <3>3. \A p \in Sends \ {o} : Shown(op'[p]) = Shown(op[p]) /\ Licence(op'[p]) = Licence(op[p])
      BY <1>0, <3>1
    <3>4. Promise!SayDelivered(o)
      BY <1>0, <1>v, <2>3, <3>1, <3>2, <3>3 DEF Promise!SayDelivered
    <3> QED
      BY <2>3, <3>4 DEF Promise!Next
  <2>4. CASE ConfirmNotDelivered(o) /\ o \in Sends
    <3>1. /\ op'[o].state = "Pending" /\ View(o).state = "NeedsConfirmation"
          /\ \A p \in Ops \ {o} : op'[p] = op[p] /\ saidNo'[p] = saidNo[p]
          /\ delivered' = delivered /\ saidNo'[o] = saidNo[o] + 1
      BY <1>0, <2>4 DEF ConfirmNotDelivered, Rearm
    <3>2. /\ Shown(op[o]) = "Asking" /\ Shown(op'[o]) = "Queued"
          /\ Licence(op[o]) = 1 /\ Licence(op'[o]) = 1
      BY <1>v, <2>4, <3>1 DEF StatusOf, Shown, IsDead, Licence
    <3>3. \A p \in Sends \ {o} : /\ Shown(op'[p]) = Shown(op[p])
                                  /\ saidNo'[p] + Licence(op'[p]) = saidNo[p] + Licence(op[p])
      BY <1>0, <3>1
    <3>4. saidNo'[o] + Licence(op'[o]) = (saidNo[o] + Licence(op[o])) + 1
      BY <1>0, <3>1, <3>2
    <3>5. Promise!SayNotDelivered(o)
      BY <1>0, <1>v, <2>4, <3>1, <3>2, <3>3, <3>4 DEF Promise!SayNotDelivered
    <3> QED
      BY <2>4, <3>5 DEF Promise!Next
  <2>5. CASE VerbRefused(o)
    <3>1. op'[o] = View(o) /\ \A p \in Ops \ {o} : op'[p] = op[p]
      BY <1>0, <2>5 DEF VerbRefused
    <3>2. o \in Sends => op'[o] = RecoverDead(op)[o]
      BY <1>0, <3>1 DEF View, RecoverDead
    <3> QED
      BY <1>a, <1>r, <2>5, <3>1, <3>2 DEF VerbRefused
  \* A verb on another kind of op shows nothing of any send.
  <2>6. CASE o \notin Sends /\ (Cancel(o) \/ ConfirmDelivered(o))
    <3>1. /\ \A p \in Ops \ {o} : op'[p] = op[p]
          /\ delivered' = delivered /\ saidNo' = saidNo
      BY <1>0, <2>6 DEF Cancel, ConfirmDelivered
    <3> QED
      BY <1>a, <2>6, <3>1
  <2>7. CASE o \notin Sends /\ ConfirmNotDelivered(o)
    <3>1. \A p \in Sends : op'[p] = op[p] /\ saidNo'[p] = saidNo[p] /\ delivered'[p] = delivered[p]
      BY <1>0, <2>7 DEF ConfirmNotDelivered
    <3> QED
      BY <1>0, <3>1, MovesOnStep
  <2> QED
    BY <1>6, <2>1, <2>2, <2>3, <2>4, <2>5, <2>6, <2>7 DEF HostStep
<1>7. ASSUME NEW o \in Ops, Reconcile(o) PROVE Promise!Next
  <2> DEFINE rows == IF op[o].state = "InFlight" THEN RecoverDead(op) ELSE op
  <2>1. /\ rows \in [Ops -> Row]
        /\ \A p \in Sends : Shown(rows[p]) = Shown(op[p]) /\ Licence(rows[p]) = Licence(op[p])
    BY <1>0, <1>r, RecoverDeadType
  <2>2. delivered[o] > 0
    BY <1>7 DEF Reconcile, SuccessInv, Vouched
  <2>3. \/ op' = rows
        \/ /\ rows[o].state = "NeedsConfirmation"
           /\ op' = [rows EXCEPT ![o].state = "Succeeded", ![o].lease = "none"]
    BY <1>7 DEF Reconcile
  <2> HIDE DEF rows
  <2>4. CASE op' = rows
    BY <1>0, <1>7, <2>1, <2>4, MovesOnStep DEF Reconcile
  <2>5. CASE op' # rows
    <3>1. /\ rows[o].state = "NeedsConfirmation" /\ op'[o].state = "Succeeded"
          /\ \A p \in Ops \ {o} : op'[p] = rows[p]
      BY <2>1, <2>3, <2>5 DEF Row
    <3>2. /\ Shown(rows[o]) = "Asking" /\ Shown(op'[o]) = "Sent"
          /\ Licence(op'[o]) = Licence(rows[o])
      BY <3>1 DEF Shown, IsDead, StatusOf, Licence
    <3>3. \A p \in Sends :
            /\ \/ Shown(op'[p]) = Shown(op[p])
               \/ Shown(op[p]) = "Asking" /\ Shown(op'[p]) = "Sent" /\ delivered[p] > 0
            /\ Licence(op'[p]) = Licence(op[p])
      BY <1>0, <2>1, <2>2, <3>1, <3>2
    <3> QED
      BY <1>0, <1>7, <3>3, MovesOnStep DEF Reconcile
  <2> QED
    BY <2>4, <2>5
<1>8. ASSUME RecoverInterrupted PROVE Promise!Next
  <2>1. \A o \in Sends :
          /\ \/ Shown(op'[o]) = Shown(op[o])
             \/ Shown(op[o]) = "Queued" /\ Shown(op'[o]) = "Asking"
          /\ Licence(op'[o]) = Licence(op[o])
    <3> SUFFICES ASSUME NEW o \in Sends
                 PROVE  /\ \/ Shown(op'[o]) = Shown(op[o])
                           \/ Shown(op[o]) = "Queued" /\ Shown(op'[o]) = "Asking"
                        /\ Licence(op'[o]) = Licence(op[o])
      OBVIOUS
    <3>1. CASE op[o].state # "InFlight"
      BY <1>0, <1>8, <3>1 DEF RecoverInterrupted
    <3>2. CASE op[o].state = "InFlight"
      <4>1. op'[o] = Recover(o, op[o])
        BY <1>0, <1>8, <3>2 DEF RecoverInterrupted
      <4>2. op'[o].state = IF op[o].handedOver # 0 THEN "NeedsConfirmation" ELSE "Pending"
        BY <1>0, <4>1, RecoveredSend
      <4> QED
        BY <3>2, <4>2 DEF Shown, IsDead, StatusOf, Licence
    <3> QED
      BY <3>1, <3>2
  <2> QED
    BY <1>0, <1>8, <2>1, MovesOnStep DEF RecoverInterrupted, Promise!Moves
<1>9. ASSUME NEW a \in att, CommitHandOver(a) \/ Renew(a) PROVE Promise!Next
  <2> DEFINE o == a.op
  <2>1. /\ o \in Ops /\ op[o].state = "InFlight" /\ op'[o].state = "InFlight"
        /\ \A p \in Ops \ {o} : op'[p] = op[p]
        /\ delivered' = delivered /\ saidNo' = saidNo
    BY <1>0, <1>9 DEF CommitHandOver, Renew, Row
  <2>2. /\ Shown(op[o]) \in {"Queued", "Asking"} /\ Shown(op'[o]) \in {"Queued", "Asking"}
        /\ Licence(op'[o]) = Licence(op[o])
    BY <2>1 DEF Shown, StatusOf, Licence
  <2> QED
    BY <1>a, <2>1, <2>2 DEF Promise!Moves
<1>10. ASSUME NEW a \in att, NEW outcome \in OutcomesOf(a), Mark(a, outcome)
       PROVE  Promise!Next
  <2> DEFINE o == a.op
  <2>1. /\ o \in Ops /\ \A p \in Ops \ {o} : op'[p] = op[p]
        /\ op'[o] = RecordOutcome(o, op[o], outcome)
        /\ delivered' = delivered /\ saidNo' = saidNo
    BY <1>0, <1>10 DEF Mark
  <2>2. op[o].state \in {"InFlight", "NeedsConfirmation"}
    BY <1>0, <1>10 DEF Mark, MayMark, LedgerInv, LeasesSound
  <2>3. /\ op'[o].state \in {"Succeeded", "NeedsConfirmation", "Pending", "Failed"}
        /\ op'[o].state = "Succeeded" => outcome = "Succeeded"
    BY <2>1 DEF RecordOutcome
  <2>4. outcome = "Succeeded" => delivered[o] > 0
    BY DEF OutcomesOf, SuccessInv, Vouched
  <2>5. /\ Shown(op[o]) \in {"Queued", "Asking"}
        /\ Shown(op'[o]) \in {"Sent", "Asking", "Queued", "Failed"}
        /\ Shown(op'[o]) = "Sent" => delivered[o] > 0
        /\ Licence(op'[o]) = Licence(op[o])
    BY <2>2, <2>3, <2>4 DEF Shown, IsDead, StatusOf, Licence
  <2> HIDE DEF o
  <2> QED
    BY <1>a, <2>1, <2>5 DEF Promise!Moves
<1>11. ASSUME NEW r \in wire, ServerAccepts(r) PROVE Promise!Next
  <2> DEFINE o == r.op
  <2>1. /\ o \in Ops /\ op' = op /\ saidNo' = saidNo
        /\ delivered'[o] = delivered[o] + 1
        /\ \A p \in Ops \ {o} : delivered'[p] = delivered[p]
    BY <1>0, <1>11 DEF ServerAccepts, LedgerInv, TypeOK, Request
  <2>2. CASE o \notin Sends
    BY <1>0, <2>1, <2>2, MovesOnStep
  <2>3. CASE o \in Sends
    <3>1. delivered[o] < saidNo[o] + Licence(op[o])
      <4>1. delivered[o] + Cardinality(Committed(o)) + Cardinality(OnWire(o))
              + Unused(op[o]) + GivenBack(o) <= saidNo[o] + Licence(op[o])
        BY <2>1, <2>3 DEF LedgerInv, Ledger, Sends
      <4>2. Unused(op[o]) \in Nat /\ GivenBack(o) \in Nat /\ Licence(op[o]) \in Nat
        BY DEF Unused, GivenBack, Licence
      <4>3. Cardinality(OnWire(o)) # 0
        BY <2>1, FS_EmptySet DEF LedgerInv, BooksFinite, OnWire
      <4> QED
        BY <1>0, <2>1, <4>1, <4>2, <4>3, Counted
    <3>2. Promise!Deliver(o)
      BY <1>0, <1>v, <2>1, <2>3, <3>1 DEF Promise!Deliver
    <3> QED
      BY <2>3, <3>2 DEF Promise!Next
  <2> QED
    BY <2>2, <2>3
<1>12. CASE UNCHANGED vars
  BY <1>b, <1>12 DEF vars
<1>13. CASE \/ \E o \in Ops : PlanReconcile(o)
            \/ \E a \in att : \/ HandOverRefused(a) \/ SendRequest(a) \/ MarkRefused(a)
                              \/ FailEarly(a) \/ AnswerLost(a) \/ AttemptDies(a)
            \/ \E r \in wire : ServerRefuses(r) \/ RequestLost(r)
  BY <1>b, <1>13 DEF PlanReconcile, HandOverRefused, SendRequest, MarkRefused,
     FailEarly, AnswerLost, AttemptDies, ServerRefuses, RequestLost
<1> QED
  BY <1>1, <1>3, <1>4, <1>5, <1>6, <1>7, <1>8, <1>9, <1>10, <1>11, <1>12, <1>13
  DEF Next, AttemptStep

(* The outbox implements what it promises the host: every step of the store, *)
(* of an attempt, of the server or of the host is a step SendPromise allows, *)
(* or one it does not show.                                                  *)
THEOREM OutboxKeepsPromise == Spec => Implements
<1>1. Init => Promise!Init
  <2> SUFFICES ASSUME Init PROVE Promise!Init
    OBVIOUS
  <2>1. \A o \in Sends : op[o] = NoRow /\ delivered[o] = 0 /\ saidNo[o] = 0
    BY DEF Init, Sends
  <2>2. \A o \in Sends : StatusOf(View(o).state) = "Absent" /\ Licence(op[o]) = 1
    BY <2>1 DEF View, IsDead, NoRow, StatusOf, Licence
  <2> QED
    BY <2>1, <2>2 DEF Promise!Init
<1>2. LedgerInv /\ SuccessInv /\ LedgerInv' /\ [Next]_vars
        => [Promise!Next]_(Promise!promiseVars)
  <2> SUFFICES ASSUME LedgerInv, SuccessInv, LedgerInv', [Next]_vars
               PROVE  [Promise!Next]_(Promise!promiseVars)
    OBVIOUS
  <2>1. TypeOK'
    BY DEF LedgerInv
  <2> QED
    BY <2>1, PromiseStep
<1>3. Spec => []SuccessInv
  BY SuccessBooks
<1> QED
  BY <1>1, <1>2, <1>3, LedgerBalances, PTL DEF Spec, Implements, Promise!Spec
===============================================================================
