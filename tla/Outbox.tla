-------------------------------- MODULE Outbox --------------------------------
(***************************************************************************)
(* The durable outbox: the op state machine of the store (one account's    *)
(* `pending_op` rows), the attempts that work on the ops, the server that  *)
(* receives what they send, the host's verbs, and the sync pass that finds *)
(* the copy of a send in a Sent mailbox.                                   *)
(*                                                                         *)
(* Every store call is one transaction, so one action.  Between two store  *)
(* calls of an attempt anything may happen: the attempt stalls, its        *)
(* process dies, its lease lapses, another worker recovers the op.  Time   *)
(* is abstracted to what the code compares: a lease is live or lapsed, and *)
(* a parked retry is due or not.                                           *)
(***************************************************************************)
EXTENDS Naturals, FiniteSets

CONSTANTS
  Ops,           \* the ids of the ops, in queue order
  Kind,          \* "MailSubmit" for a send, "MailWrite" for the other mail kinds,
                 \* "OtherWrite" for a calendar or contact write
  Resource,      \* the resource_key an op serializes on
  DependsOn,     \* the ops that must have succeeded first
  MaxAttempts,   \* MAX_ATTEMPTS: when a retryable write settles as Failed
  TruthfulHost,  \* whether the host confirms only what really happened
  MaxFaults      \* bound: how many failures, deaths and stalls may happen

ASSUME OutboxAssumption ==
  /\ Ops \subseteq Nat
  /\ IsFiniteSet(Ops)
  /\ Kind \in [Ops -> {"MailSubmit", "MailWrite", "OtherWrite"}]
  /\ DependsOn \in [Ops -> SUBSET Ops]
  /\ MaxAttempts \in Nat \ {0}
  /\ TruthfulHost \in BOOLEAN
  /\ MaxFaults \in Nat

VARIABLES
  op,         \* the store: op[o] is the row of o
  att,        \* the attempts running somewhere, each under the lease it was given
  wire,       \* the requests sent and not yet handled by the server
  delivered,  \* how often the server accepted o
  saidNo,     \* how often the host answered NotDelivered for o
  saidYes,    \* the ops the host answered Delivered for
  planned,    \* reconciliations a sync pass planned and has not applied yet
  faults      \* how many of MaxFaults have happened

vars == <<op, att, wire, delivered, saidNo, saidYes, planned, faults>>

-------------------------------------------------------------------------------
(* Rows *)

States == {"Absent", "Pending", "InFlight", "NeedsConfirmation",
           "Succeeded", "Failed", "Cancelled"}

\* A token is a fencing generation, 0 before the first claim; handedOver is the
\* token of the attempt that recorded its hand-over, 0 for none.
Row == [state : States, token : Nat, lease : {"none", "live", "lapsed"},
        attempts : Nat, backoff : {"over", "running"}, handedOver : Nat]

NoRow == [state |-> "Absent", token |-> 0, lease |-> "none",
          attempts |-> 0, backoff |-> "over", handedOver |-> 0]

IsSend(o) == Kind[o] = "MailSubmit"

IsTerminal(state) == state \in {"Succeeded", "Failed", "Cancelled"}

\* Mutant of IsDead: only a row with no expiry at all counts as dead.
IsDeadWithoutExpiry(row) == row.state = "InFlight" /\ row.lease = "none"

IsDead(row) == row.state = "InFlight" /\ row.lease # "live"

SettlesOnAttempts(o) == ~IsSend(o)

\* Mutant of RecordOutcome: the bound on attempts is off by one.
RecordOutcomeOneMore(o, row, outcome) ==
  LET attempts == row.attempts + 1
      parks == /\ outcome \in {"Retryable", "RetryableNow"}
               /\ ~SettlesOnAttempts(o) \/ attempts <= MaxAttempts
  IN  [state |-> IF outcome \in {"Succeeded", "NeedsConfirmation"} THEN outcome
                 ELSE IF parks THEN "Pending" ELSE "Failed",
       token |-> row.token,
       lease |-> "none",
       attempts |-> attempts,
       backoff |-> IF parks /\ outcome = "Retryable" THEN "running" ELSE "over",
       handedOver |-> IF outcome = "NeedsConfirmation" THEN row.handedOver ELSE 0]

\* Mutant of RecordOutcome: the failure class is written as the state.
RecordOutcomeClassAsState(o, row, outcome) ==
  [row EXCEPT !.state = outcome, !.lease = "none", !.attempts = @ + 1]

\* Where `outcome` leaves the row: the lease is released and the attempt
\* counted; "Retryable" parks for a backoff and "RetryableNow" for none.
RecordOutcome(o, row, outcome) ==
  LET attempts == row.attempts + 1
      parks == /\ outcome \in {"Retryable", "RetryableNow"}
               /\ ~SettlesOnAttempts(o) \/ attempts < MaxAttempts
  IN  [state |-> IF outcome \in {"Succeeded", "NeedsConfirmation"} THEN outcome
                 ELSE IF parks THEN "Pending" ELSE "Failed",
       token |-> row.token,
       lease |-> "none",
       attempts |-> attempts,
       backoff |-> IF parks /\ outcome = "Retryable" THEN "running" ELSE "over",
       handedOver |-> IF outcome = "NeedsConfirmation" THEN row.handedOver ELSE 0]

\* Mutant of InterruptedOutcome: the hand-over record is not looked at.
InterruptedOutcomeBlind(o, handedOver) ==
  IF IsSend(o) THEN "RetryableNow" ELSE "Retryable"

\* What an attempt whose worker is gone is recorded as.
InterruptedOutcome(o, handedOver) ==
  IF ~IsSend(o) THEN "Retryable"
  ELSE IF handedOver THEN "NeedsConfirmation" ELSE "RetryableNow"

Recover(o, row) ==
  [RecordOutcome(o, row, InterruptedOutcome(o, row.handedOver # 0))
     EXCEPT !.token = @ + 1]

RecoverDead(rows) ==
  [o \in Ops |-> IF IsDead(rows[o]) THEN Recover(o, rows[o]) ELSE rows[o]]

\* The row as a read shows it: a dead attempt as its recovery will leave it.
View(o) == IF IsDead(op[o]) THEN Recover(o, op[o]) ELSE op[o]

Rearm(row) ==
  [state |-> "Pending", token |-> row.token + 1, lease |-> "none",
   attempts |-> row.attempts, backoff |-> "over", handedOver |-> 0]

Lease(row) ==
  [state |-> "InFlight", token |-> row.token + 1, lease |-> "live",
   attempts |-> row.attempts, backoff |-> row.backoff, handedOver |-> row.handedOver]

\* A withdrawn op, and a send the host vouched for: both under a new token, so a
\* worker still holding the old lease cannot resolve them.
Withdrawn(row) ==
  [state |-> "Cancelled", token |-> row.token + 1, lease |-> "none",
   attempts |-> row.attempts, backoff |-> "over", handedOver |-> row.handedOver]

Confirmed(row) ==
  [state |-> "Succeeded", token |-> row.token + 1, lease |-> row.lease,
   attempts |-> row.attempts, backoff |-> row.backoff, handedOver |-> 0]

-------------------------------------------------------------------------------
(* Attempts *)

Phases == {"preparing",  \* claimed; nothing irreversible written
           "committed",  \* a send that recorded its hand-over
           "awaiting",   \* the request is out, no answer yet
           "accepted",   \* the server accepted it
           "refused",    \* refused, or stopped short of the server
           "ambiguous"}  \* the answer was lost

Attempt == [op : Ops, token : Nat, phase : Phases]

Request == [op : Ops, token : Nat]

\* Whether `a`'s lease still names the row: the fence every store call checks.
Current(a) == op[a.op].token = a.token

MovesTo(a, phase) == att' = (att \ {a}) \cup {[a EXCEPT !.phase = phase]}

\* The server's word reaches the attempt that is waiting for it, if any still is.
Answer(r, phase) ==
  att' = {IF a.op = r.op /\ a.token = r.token /\ a.phase = "awaiting"
            THEN [a EXCEPT !.phase = phase] ELSE a : a \in att}

Fault == faults < MaxFaults /\ faults' = faults + 1

\* Whether some running attempt still holds o's current lease.
Held(o) == \E a \in att : a.op = o /\ Current(a)

-------------------------------------------------------------------------------
Init ==
  /\ op = [o \in Ops |-> NoRow]
  /\ att = {}
  /\ wire = {}
  /\ delivered = [o \in Ops |-> 0]
  /\ saidNo = [o \in Ops |-> 0]
  /\ saidYes = {}
  /\ planned = {}
  /\ faults = 0

(* Enqueuing and claiming *)

\* Idempotent by key: enqueuing a key that has a row returns it and changes
\* nothing, whatever state the row is in.
Enqueue(o) ==
  /\ op[o].state = "Absent"
  /\ op' = [op EXCEPT ![o] = [NoRow EXCEPT !.state = "Pending"]]
  /\ UNCHANGED <<att, wire, delivered, saidNo, saidYes, planned, faults>>

\* Mutant of Runnable: a dependency need only have settled.
RunnableAfterSettled(rows, o) ==
  /\ rows[o].state = "Pending"
  /\ rows[o].backoff = "over"
  /\ \A d \in DependsOn[o] : IsTerminal(rows[d].state)

Runnable(rows, o) ==
  /\ rows[o].state = "Pending"
  /\ rows[o].backoff = "over"
  /\ \A d \in DependsOn[o] : rows[d].state = "Succeeded"

\* Mutant of ResourceHeld: the liveness test of the holder's lease is inverted.
ResourceHeldInverted(rows, o) ==
  \E p \in Ops \ {o} : IsDead(rows[p]) /\ Resource[p] = Resource[o]

ResourceHeld(rows, o) ==
  \E p \in Ops \ {o} : rows[p].state = "InFlight" /\ Resource[p] = Resource[o]

Claimable(rows, o) == Runnable(rows, o) /\ ~ResourceHeld(rows, o)

\* Leases every op of S, each under an attempt of its own.
LeaseAll(rows, S) ==
  /\ op' = [o \in Ops |-> IF o \in S THEN Lease(rows[o]) ELSE rows[o]]
  /\ att' = att \cup {[op |-> o, token |-> rows[o].token + 1,
                       phase |-> "preparing"] : o \in S}
  /\ UNCHANGED <<wire, delivered, saidNo, saidYes, planned, faults>>

ClaimOne(o) ==
  LET rows == RecoverDead(op)
  IN  /\ Claimable(rows, o)
      /\ LeaseAll(rows, {o})

\* A refused claim commits what it recovered.
ClaimRefused(o) ==
  LET rows == RecoverDead(op)
  IN  /\ ~Claimable(rows, o)
      /\ rows # op
      /\ LeaseAll(rows, {})

\* The first runnable op of every free resource, in id order, up to the limit.
BatchOf(rows, limit) ==
  LET first == {o \in Ops :
                  /\ Claimable(rows, o)
                  /\ \A p \in Ops : (p < o /\ Runnable(rows, p))
                                       => Resource[p] # Resource[o]}
  IN  {o \in first : Cardinality({p \in first : p < o}) < limit}

ClaimBatch(limit) ==
  LET rows == RecoverDead(op)
  IN  /\ BatchOf(rows, limit) # {}
      /\ LeaseAll(rows, BatchOf(rows, limit))

RecoverInterrupted ==
  LET inFlight == {o \in Ops : op[o].state = "InFlight"}
  IN  /\ inFlight # {}
      /\ op' = [o \in Ops |-> IF o \in inFlight THEN Recover(o, op[o]) ELSE op[o]]
      /\ IF \E o \in inFlight : Held(o) THEN Fault ELSE UNCHANGED faults
      /\ UNCHANGED <<att, wire, delivered, saidNo, saidYes, planned>>

-------------------------------------------------------------------------------
(* One attempt: the hand-over, the request, the answer, the outcome *)

\* HandOver::commit: recorded under the lease, before the irreversible byte.
CommitHandOver(a) ==
  /\ IsSend(a.op) /\ a.phase = "preparing"
  /\ Current(a) /\ op[a.op].state = "InFlight"
  /\ op' = [op EXCEPT ![a.op].handedOver = a.token]
  /\ MovesTo(a, "committed")
  /\ UNCHANGED <<wire, delivered, saidNo, saidYes, planned, faults>>

\* A stale lease cannot record it, and the attempt stops short of the server.
HandOverRefused(a) ==
  /\ IsSend(a.op) /\ a.phase = "preparing"
  /\ ~(Current(a) /\ op[a.op].state = "InFlight")
  /\ MovesTo(a, "refused")
  /\ UNCHANGED <<op, wire, delivered, saidNo, saidYes, planned, faults>>

\* No connection, an upload refused, an unreadable payload, a full disk.
FailEarly(a) ==
  /\ a.phase = "preparing"
  /\ Fault
  /\ MovesTo(a, "refused")
  /\ UNCHANGED <<op, wire, delivered, saidNo, saidYes, planned>>

\* Nothing is asked again between the record and the byte, however long the
\* attempt was stopped in between.
SendRequest(a) ==
  /\ a.phase = IF IsSend(a.op) THEN "committed" ELSE "preparing"
  /\ wire' = wire \cup {[op |-> a.op, token |-> a.token]}
  /\ MovesTo(a, "awaiting")
  /\ UNCHANGED <<op, delivered, saidNo, saidYes, planned, faults>>

ServerAccepts(r) ==
  /\ wire' = wire \ {r}
  /\ delivered' = [delivered EXCEPT ![r.op] = @ + 1]
  /\ Answer(r, "accepted")
  /\ UNCHANGED <<op, saidNo, saidYes, planned, faults>>

ServerRefuses(r) ==
  /\ Fault
  /\ wire' = wire \ {r}
  /\ Answer(r, "refused")
  /\ UNCHANGED <<op, delivered, saidNo, saidYes, planned>>

RequestLost(r) ==
  /\ Fault
  /\ wire' = wire \ {r}
  /\ Answer(r, "ambiguous")
  /\ UNCHANGED <<op, delivered, saidNo, saidYes, planned>>

\* The deadline passes, or the connection breaks: the request may still be
\* handled later, or have been accepted already.
AnswerLost(a) ==
  /\ a.phase \in {"awaiting", "accepted"}
  /\ Fault
  /\ MovesTo(a, "ambiguous")
  /\ UNCHANGED <<op, wire, delivered, saidNo, saidYes, planned>>

\* What an attempt reports of itself; a refusal's class is the server's choice.
\* Only a send parks an ambiguous outcome.
OutcomesOf(a) ==
  IF a.phase = "accepted" THEN {"Succeeded"}
  ELSE IF a.phase = "ambiguous" /\ IsSend(a.op) THEN {"NeedsConfirmation"}
  ELSE {"Retryable", "Permanent"}

Finished(a) == a.phase \in {"accepted", "refused", "ambiguous"}

\* Mutant of MayMark: the recorded hand-over suffices in every state.
MayMarkInAnyState(a) == Current(a) \/ op[a.op].handedOver = a.token

\* The current lease, or the attempt a recovery parked the send under.
MayMark(a) ==
  \/ Current(a)
  \/ op[a.op].state = "NeedsConfirmation" /\ op[a.op].handedOver = a.token

Mark(a, outcome) ==
  /\ Finished(a) /\ outcome \in OutcomesOf(a)
  /\ MayMark(a)
  /\ op' = [op EXCEPT ![a.op] = RecordOutcome(a.op, @, outcome)]
  /\ att' = att \ {a}
  /\ UNCHANGED <<wire, delivered, saidNo, saidYes, planned, faults>>

\* StaleLease: the attempt is superseded and records nothing.
MarkRefused(a) ==
  /\ Finished(a)
  /\ ~MayMark(a)
  /\ att' = att \ {a}
  /\ UNCHANGED <<op, wire, delivered, saidNo, saidYes, planned, faults>>

\* The process ends, the future is dropped, or the outcome cannot be written.
AttemptDies(a) ==
  /\ Fault
  /\ att' = att \ {a}
  /\ UNCHANGED <<op, wire, delivered, saidNo, saidYes, planned>>

\* `holding` renews under the token alone, so a lapsed lease nobody recovered
\* comes back to life.
Renew(a) ==
  /\ Current(a) /\ op[a.op].state = "InFlight"
  /\ op[a.op].lease = "lapsed"
  /\ op' = [op EXCEPT ![a.op].lease = "live"]
  /\ UNCHANGED <<att, wire, delivered, saidNo, saidYes, planned, faults>>

-------------------------------------------------------------------------------
(* Time *)

\* A lease nobody renews runs out; one whose attempt still runs does only when
\* that attempt is stalled or suspended past it.
LeaseLapses(o) ==
  /\ op[o].lease = "live"
  /\ IF Held(o) THEN Fault ELSE UNCHANGED faults
  /\ op' = [op EXCEPT ![o].lease = "lapsed"]
  /\ UNCHANGED <<att, wire, delivered, saidNo, saidYes, planned>>

BackoffElapses(o) ==
  /\ op[o].backoff = "running"
  /\ op' = [op EXCEPT ![o].backoff = "over"]
  /\ UNCHANGED <<att, wire, delivered, saidNo, saidYes, planned, faults>>

-------------------------------------------------------------------------------
(* The host's verbs: each recovers the op's own dead attempt first *)

\* Mutant of HostMayAct: a send awaiting confirmation may be withdrawn.
HostMayActOnUnconfirmed(o, row) ==
  \/ row.state \in {"Pending", "NeedsConfirmation"}
  \/ row.state = "Failed" /\ IsSend(o)

\* A send that settled Failed is still the host's to act on.
HostMayAct(o, row) ==
  \/ row.state = "Pending"
  \/ row.state = "Failed" /\ IsSend(o)

Cancel(o) ==
  /\ HostMayAct(o, View(o))
  /\ op' = [op EXCEPT ![o] = Withdrawn(View(o))]
  /\ UNCHANGED <<att, wire, delivered, saidNo, saidYes, planned, faults>>

RetryNow(o) ==
  /\ HostMayAct(o, View(o))
  /\ op' = [op EXCEPT ![o] = IF View(o).state = "Failed" THEN Rearm(View(o))
                              ELSE [View(o) EXCEPT !.backoff = "over"]]
  /\ UNCHANGED <<att, wire, delivered, saidNo, saidYes, planned, faults>>

ConfirmDelivered(o) ==
  /\ View(o).state = "NeedsConfirmation"
  /\ TruthfulHost => delivered[o] > 0
  /\ op' = [op EXCEPT ![o] = Confirmed(View(o))]
  /\ saidYes' = saidYes \cup {o}
  /\ UNCHANGED <<att, wire, delivered, saidNo, planned, faults>>

ConfirmNotDelivered(o) ==
  /\ View(o).state = "NeedsConfirmation"
  /\ TruthfulHost => delivered[o] = 0
  /\ op' = [op EXCEPT ![o] = Rearm(View(o))]
  /\ saidNo' = [saidNo EXCEPT ![o] = @ + 1]
  /\ UNCHANGED <<att, wire, delivered, saidYes, planned, faults>>

\* A refused verb commits the recovery; some verb refuses every recovered row.
VerbRefused(o) ==
  /\ IsDead(op[o])
  /\ op' = [op EXCEPT ![o] = View(o)]
  /\ UNCHANGED <<att, wire, delivered, saidNo, saidYes, planned, faults>>

-------------------------------------------------------------------------------
(* Sync finds the copy of a send *)

\* Mutant of InSent: the draft saved under the same Message-ID counts.
InSentOrDrafts(o) == op[o].state # "Absent"

\* Only a copy in Sent counts, and the server files one there by delivering; a
\* draft saved under the same Message-ID proves nothing.
InSent(o) == delivered[o] > 0

PlanReconcile(o) ==
  /\ IsSend(o) /\ View(o).state = "NeedsConfirmation"
  /\ InSent(o)
  /\ planned' = planned \cup {o}
  /\ UNCHANGED <<op, att, wire, delivered, saidNo, saidYes, faults>>

\* The plan is re-validated in the transaction that applies the update.
Reconcile(o) ==
  LET rows == IF op[o].state = "InFlight" THEN RecoverDead(op) ELSE op
  IN  /\ o \in planned
      /\ planned' = planned \ {o}
      /\ op' = IF rows[o].state = "NeedsConfirmation"
                 THEN [rows EXCEPT ![o].state = "Succeeded", ![o].lease = "none"]
                 ELSE rows
      /\ UNCHANGED <<att, wire, delivered, saidNo, saidYes, faults>>

-------------------------------------------------------------------------------
AttemptStep(a) ==
  \/ CommitHandOver(a)
  \/ HandOverRefused(a)
  \/ SendRequest(a)
  \/ \E outcome \in OutcomesOf(a) : Mark(a, outcome)
  \/ MarkRefused(a)

HostStep(o) ==
  \/ Cancel(o)
  \/ RetryNow(o)
  \/ ConfirmDelivered(o)
  \/ ConfirmNotDelivered(o)
  \/ VerbRefused(o)

Next ==
  \/ \E o \in Ops : \/ Enqueue(o)
                   \/ ClaimOne(o)
                   \/ ClaimRefused(o)
                   \/ LeaseLapses(o)
                   \/ BackoffElapses(o)
                   \/ HostStep(o)
                   \/ PlanReconcile(o)
                   \/ Reconcile(o)
  \/ \E limit \in 1..Cardinality(Ops) : ClaimBatch(limit)
  \/ RecoverInterrupted
  \/ \E a \in att : \/ AttemptStep(a)
                   \/ FailEarly(a)
                   \/ AnswerLost(a)
                   \/ AttemptDies(a)
                   \/ Renew(a)
  \/ \E r \in wire : \/ ServerAccepts(r)
                    \/ ServerRefuses(r)
                    \/ RequestLost(r)

Spec == Init /\ [][Next]_vars

\* What a drain of the queue tries to claim: it leaves calendar and contact writes
\* queued, and those have only the attempt of the call that enqueued them.
Dispatchable(o) == Kind[o] # "OtherWrite" /\ View(o).state = "Pending"

Drain(o) == Dispatchable(o) /\ (ClaimOne(o) \/ ClaimRefused(o))

\* The host keeps draining (each drain tries every op it dispatches), an attempt that
\* runs gets to its end within its deadlines, the server answers, and clocks advance.
\* Nobody has to claim a calendar or contact write.
Fairness ==
  /\ \A o \in Ops : /\ WF_vars(Drain(o))
                    /\ WF_vars(LeaseLapses(o))
                    /\ WF_vars(BackoffElapses(o))
  /\ WF_vars(\E a \in att : AttemptStep(a))
  /\ WF_vars(\E r \in wire : ServerAccepts(r))

FairSpec == Spec /\ Fairness

-------------------------------------------------------------------------------
(* The ledger: why a send is delivered once.  A send holds one licence, the  *)
(* host's NotDelivered grants one more, and a licence is at any time unused  *)
(* (the row may still be attempted), with an attempt that recorded its       *)
(* hand-over, with a request on the way, spent by a delivery, or given back  *)
(* by a refusal the row will still take.  Withdrawing retires it.            *)

Unsent == {"Absent", "Pending", "Failed"}

Committed(o) == {a \in att : a.op = o /\ a.phase = "committed"}

OnWire(o) == {r \in wire : r.op = o}

Unused(row) ==
  IF row.state \in Unsent \/ (row.state = "InFlight" /\ row.handedOver = 0)
    THEN 1 ELSE 0

GivenBack(o) ==
  IF \E a \in att : /\ a.op = o /\ a.phase = "refused"
                   /\ a.token = op[o].handedOver
    THEN 1 ELSE 0

Licence(row) == IF row.state = "Cancelled" THEN 0 ELSE 1

\* No send is ever worked on beyond the licences it has.
Ledger ==
  \A o \in Ops :
    IsSend(o) =>
      delivered[o] + Cardinality(Committed(o)) + Cardinality(OnWire(o))
        + Unused(op[o]) + GivenBack(o) <= saidNo[o] + Licence(op[o])

\* What the store writes into one row is consistent with itself.
RowSound(o, row) ==
  /\ row.state = "Absent" => row.token = 0
  /\ row.state \in Unsent => row.handedOver = 0
  /\ row.state = "InFlight" => row.handedOver \in {0, row.token}
  /\ row.handedOver <= row.token
  /\ ~IsSend(o) => row.handedOver = 0

RowsSound == \A o \in Ops : RowSound(o, op[o])

\* A lease is given to one attempt, and the row it names is in flight.
LeasesSound ==
  /\ \A a, b \in att : (a.op = b.op /\ a.token = b.token) => a = b
  /\ \A a \in att : /\ 0 < a.token /\ a.token <= op[a.op].token
                    /\ Current(a) => op[a.op].state = "InFlight"
                    /\ a.phase = "preparing" => op[a.op].handedOver # a.token

-------------------------------------------------------------------------------
(* Properties *)

\* Rows, attempts and requests stay in their types; a row is only ever in a state
\* the store can read back.
TypeOK ==
  /\ op \in [Ops -> Row]
  /\ att \subseteq Attempt
  /\ wire \subseteq Request
  /\ delivered \in [Ops -> Nat]
  /\ saidNo \in [Ops -> Nat]
  /\ saidYes \subseteq Ops
  /\ planned \subseteq Ops
  /\ faults \in Nat

\* "Never delivered twice": the server accepts a send at most once more than
\* the host answered NotDelivered for it, through every stall, death,
\* recovery, lost answer and retry.
DeliveredOnce ==
  \A o \in Ops : IsSend(o) => delivered[o] <= 1 + saidNo[o]

\* A withdrawn send stays unsent: unless the host had vouched that an earlier
\* attempt failed, it was never delivered and nothing on the way can deliver it.
WithdrawnUnsent ==
  \A o \in Ops :
    (IsSend(o) /\ op[o].state = "Cancelled" /\ saidNo[o] = 0)
      => /\ delivered[o] = 0
         /\ \A r \in wire : r.op # o
         /\ \A a \in att : a.op = o => a.phase # "committed"

\* "Never lost": an op reads as Succeeded only when the server accepted it or
\* the host answered Delivered, so nothing unsent leaves the queue as done.
SucceededIsDelivered ==
  \A o \in Ops : op[o].state = "Succeeded" => delivered[o] > 0 \/ o \in saidYes

\* Writes to one resource serialize: no two ops in flight share a resource.
ResourceExclusive ==
  \A o, p \in Ops :
    (o # p /\ op[o].state = "InFlight" /\ op[p].state = "InFlight")
      => Resource[o] # Resource[p]

\* An op that was ever attempted ran after every op it depends on had
\* succeeded, and none of those has been taken back since.
DependenciesFirst ==
  \A o \in Ops :
    (op[o].state = "InFlight" \/ op[o].attempts > 0 \/ delivered[o] > 0)
      => \A d \in DependsOn[o] : op[d].state = "Succeeded"

\* A write other than a send is attempted at most MaxAttempts times, deaths of
\* its process included.
WriteAttemptsBounded ==
  \A o \in Ops : ~IsSend(o) => op[o].attempts <= MaxAttempts

\* Settled is final: only the host takes a failed send up again, and nothing
\* else leaves a terminal state.
SettledStays ==
  [][\A o \in Ops :
       (IsTerminal(op[o].state) /\ op'[o] # op[o])
         => /\ IsSend(o) /\ op[o].state = "Failed"
            /\ Cancel(o) \/ RetryNow(o)]_vars

\* As the docs put it: a send is never delivered twice, whatever ends, stalls or
\* suspends the process at any point of the attempt.
NeverDeliveredTwice == \A o \in Ops : IsSend(o) => delivered[o] <= 1

\* Once failures stop, every queued mail op with no dependency reads as settled or as
\* asking the host, whatever a calendar or contact write that nobody takes up again
\* holds or leaves behind on the same resource.
EventuallyResolved ==
  \A o \in Ops :
    (op[o].state = "Pending" /\ DependsOn[o] = {} /\ Kind[o] # "OtherWrite")
      ~> View(o).state \in {"Succeeded", "Failed", "Cancelled", "NeedsConfirmation"}
===============================================================================
