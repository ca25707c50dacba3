------------------------------- MODULE ImapPool -------------------------------
(***************************************************************************)
(* The bounded pool of authenticated IMAP connections of one account:      *)
(* workers that borrow a connection and park it again, the spare workers a *)
(* pass borrows beside its own, watches that take a connection out for     *)
(* good, the ceiling that falls when the server refuses a session, and the *)
(* host that invalidates everything when the network changed.              *)
(*                                                                         *)
(* An access to an atomic, a mutex or the semaphore whose moment another   *)
(* task can tell is an action of its own.  A permit is released together   *)
(* with the access before it: later, it would only be taken later.  Calls  *)
(* interleave as on a multi-threaded runtime and may be dropped at any     *)
(* await.  A connection is told apart by the generation it was dialled in. *)
(***************************************************************************)
EXTENDS Integers, FiniteSets, Sequences, SequencesExt

CONSTANTS
  Clients,         \* tasks that use the pool
  MaxConnections,  \* max_connections
  MaxInvalidates,  \* bound: how often the network changes
  PoolBudgets      \* bounds: changes, failed dials and checks, dropped calls

ASSUME ImapPoolAssumption ==
  /\ IsFiniteSet(Clients)
  /\ MaxConnections \in Nat \ {0}
  /\ MaxInvalidates \in Nat
  /\ PoolBudgets \subseteq [changes : 0..MaxInvalidates, faults : Nat, drops : Nat]

VARIABLES
  permits,     \* free permits of the semaphore
  queue,       \* the clients waiting for one, first come first served
  ceiling,     \* the ceiling in force
  watches,     \* slots counted for watches
  workers,     \* worker connections counted as borrowed
  parked,      \* how many connections of each generation rest in the pool
  generation,
  client,      \* where each client is in its call
  invalidate,  \* how far the host's invalidate has come
  poolBudget   \* what may still go wrong, of one of PoolBudgets

poolVars == <<permits, queue, ceiling, watches, workers, parked, generation,
              client, invalidate, poolBudget>>

-------------------------------------------------------------------------------
(* Clients *)

Generations == 0..MaxInvalidates

\* The steps of a call.  A client in Holding stands on a permit.
Phases == {"idle",
           "queued",    \* awaits a permit
           "taking",    \* has one; about to look at the parked connections
           "checking",  \* holds a parked connection; NOOP may be awaited
           "dialling",  \* nothing was parked
           "forgot",    \* the permit is forgotten, the ceiling still to be lowered
           "waiting",   \* awaits a connection to come back
           "lent",      \* uses a worker connection
           "pushing",   \* found its generation current; about to park
           "ending",    \* about to uncount itself as a worker
           "waking",    \* about to wake those that wait
           "watching"}  \* a watch owns the connection

Holding == {"taking", "checking", "dialling", "lent", "pushing", "ending",
            "waking", "watching"}

\* Phases in which a client's socket is open, or being opened.
Connected == {"checking", "dialling", "lent", "pushing", "watching"}

\* `asked` is the generation in force when the client called, `read` the one
\* take_or_dial read, `made` the one its connection was dialled in; `owner` the
\* client whose pass a spare worker helps; `woken` whether its Notified fired.
Client == [phase : Phases, role : {"worker", "spare", "watch"},
           asked : Generations, read : Generations, made : Generations,
           owner : Clients, woken : BOOLEAN]

Resting(c) == [phase |-> "idle", role |-> "worker", asked |-> 0, read |-> 0,
               made |-> 0, owner |-> c, woken |-> FALSE]

In(phases) == {c \in Clients : client[c].phase \in phases}

\* Fields a client has no more use for are reset with each move.
Moves(c, phase) == client' = [client EXCEPT ![c].phase = phase]
Drops(c, phase) ==
  client' = [client EXCEPT ![c] = [@ EXCEPT !.phase = phase, !.read = 0, !.made = 0]]
Ends(c) == client' = [client EXCEPT ![c] = Resting(c)]

\* Mutant of Armed: the Notified is armed by the await alone.
ArmedWhenAwaited(c) == client[c].role = "worker" /\ client[c].phase = "waiting"

\* A worker arms its Notified before it takes or dials, and drops it on success.
Armed(c) ==
  /\ client[c].role = "worker"
  /\ client[c].phase \in {"taking", "checking", "dialling", "forgot", "waiting"}

\* A fresh pool; connect may leave the connection it signed in with.
PoolInit ==
  /\ permits = MaxConnections
  /\ queue = <<>>
  /\ ceiling = MaxConnections
  /\ watches = 0
  /\ workers = 0
  /\ \E adopted \in {0, 1} :
       parked = [g \in Generations |-> IF g = 0 THEN adopted ELSE 0]
  /\ generation = 0
  /\ client = [c \in Clients |-> Resting(c)]
  /\ invalidate = [step |-> "none", add |-> 0]
  /\ poolBudget \in PoolBudgets

-------------------------------------------------------------------------------
(* Asking for a connection *)

Calls(c, role, owner, phase) ==
  client' = [client EXCEPT ![c] =
    [Resting(c) EXCEPT !.role = role, !.owner = owner, !.phase = phase,
                       !.asked = generation,
                       !.read = IF phase = "taking" THEN generation ELSE 0]]

\* acquire, acquire_for and acquire_checked.
Acquire(c) ==
  /\ client[c].phase = "idle"
  /\ Calls(c, "worker", c, "queued")
  /\ queue' = Append(queue, c)
  /\ UNCHANGED <<permits, ceiling, watches, workers, parked, generation,
                 invalidate, poolBudget>>

\* try_acquire_for takes a permit no waiter has been handed, for a pass that
\* holds a worker of its own meanwhile; without one the call is over.
TryAcquire(c, pass) ==
  /\ client[c].phase = "idle"
  /\ client[pass].phase = "lent"
  /\ client[pass].role = "worker"
  /\ permits > Len(queue)
  /\ permits' = permits - 1
  /\ Calls(c, "spare", pass, "taking")
  /\ UNCHANGED <<queue, ceiling, watches, workers, parked, generation,
                 invalidate, poolBudget>>

MinWorkerConnections == 1

\* Mutant of MayReserve: the last worker is given away.
MayReserveAll(counted) == counted < ceiling

MayReserve(counted) == counted + MinWorkerConnections < ceiling

\* reserve_watch counts the slot under its lock, then awaits a permit.
ReserveWatch(c) ==
  /\ client[c].phase = "idle"
  /\ MayReserve(watches)
  /\ watches' = watches + 1
  /\ Calls(c, "watch", c, "queued")
  /\ queue' = Append(queue, c)
  /\ UNCHANGED <<permits, ceiling, workers, parked, generation, invalidate,
                 poolBudget>>

\* c, the i-th that waits, waits no more.
LeavesQueue(c, i) == queue[i] = c /\ queue' = RemoveAt(queue, i)

\* The semaphore hands permits to its waiters in order, and take_or_dial reads
\* the generation.
TakePermit(c) ==
  /\ \E i \in 1..Len(queue) : LeavesQueue(c, i) /\ i <= permits
  /\ permits' = permits - 1
  /\ client' = [client EXCEPT ![c] = [@ EXCEPT !.phase = "taking", !.read = generation]]
  /\ UNCHANGED <<ceiling, watches, workers, parked, generation, invalidate,
                 poolBudget>>

-------------------------------------------------------------------------------
(* take_or_dial *)

\* Mutant of Usable: connections of a superseded generation are kept.
UsableOfAnyGeneration(shelf, since) == shelf

\* take_parked drops the connections of a superseded generation.
Usable(shelf, since) == [g \in Generations |-> IF g >= since THEN shelf[g] ELSE 0]

\* Mutant of FromShelf: a watch dials its own connection.
FromShelfUnlessWatch(c, usable) ==
  IF client[c].role = "watch" THEN {} ELSE {g \in Generations : usable[g] > 0}

\* What take_parked may pop: the latest parked, or one with the mailbox open.
FromShelf(c, usable) == {g \in Generations : usable[g] > 0}

TakeParked(c) ==
  LET usable == Usable(parked, client[c].read)
      found  == FromShelf(c, usable)
  IN /\ client[c].phase = "taking"
     /\ \/ /\ found = {}
           /\ parked' = usable
           /\ client' = [client EXCEPT ![c] = [@ EXCEPT !.phase = "dialling", !.made = client[c].read]]
        \/ \E g \in found :
             /\ parked' = [usable EXCEPT ![g] = @ - 1]
             /\ client' = [client EXCEPT ![c] = [@ EXCEPT !.phase = "checking", !.made = g]]
     /\ UNCHANGED <<permits, queue, ceiling, watches, workers, generation,
                    invalidate, poolBudget>>

\* A connection is handed out: it rested briefly, answered NOOP, or was dialled.
Connect(c) ==
  /\ client[c].phase \in {"checking", "dialling"}
  /\ client' = [client EXCEPT ![c] = [@ EXCEPT
       !.phase = IF client[c].role = "watch" THEN "watching" ELSE "lent",
       !.asked = 0, !.read = 0, !.woken = FALSE,
       !.made = IF client[c].role = "watch" THEN 0 ELSE client[c].made]]
  /\ workers' = IF client[c].role = "watch" THEN workers ELSE workers + 1
  /\ UNCHANGED <<permits, queue, ceiling, watches, parked, generation,
                 invalidate, poolBudget>>

Fails(c, phase) ==
  /\ client[c].phase = phase
  /\ poolBudget.faults > 0
  /\ poolBudget' = [poolBudget EXCEPT !.faults = @ - 1]

\* A resting connection turned out dead; the next one is tried.
CheckFails(c) ==
  /\ Fails(c, "checking")
  /\ Moves(c, "taking")
  /\ UNCHANGED <<permits, queue, ceiling, watches, workers, parked, generation,
                 invalidate>>

-------------------------------------------------------------------------------
(* A dial that failed *)

\* Mutant of FailsAlone: a refused caller lowers the ceiling and waits, alone or not.
FailsAloneNever(c) == FALSE

\* Without another worker there is nobody to wait for.
FailsAlone(c) == client[c].role = "worker" /\ workers = 0

\* The call is over, and its permit goes back; a watch's lease returns the slot.
GiveUp(c) ==
  /\ Ends(c)
  /\ permits' = permits + 1
  /\ watches' = IF client[c].role = "watch" /\ watches > 0 THEN watches - 1
                ELSE watches

\* The dial fails without an answer.  A worker beside others returns its permit
\* and waits for one of them; any other call is over.
DialBreaks(c) ==
  /\ Fails(c, "dialling")
  /\ \/ /\ client[c].role = "worker" /\ ~FailsAlone(c)
        /\ Drops(c, "waiting")
        /\ permits' = permits + 1
        /\ UNCHANGED watches
     \/ /\ client[c].role # "worker" \/ FailsAlone(c)
        /\ GiveUp(c)
  /\ UNCHANGED <<queue, ceiling, workers, parked, generation, invalidate>>

\* The server declines the session.  A worker beside others, and a spare one,
\* forgets its permit for as long as the ceiling stays lowered.
DialRefused(c) ==
  /\ Fails(c, "dialling")
  /\ \/ /\ client[c].role # "watch" /\ ~FailsAlone(c)
        /\ Drops(c, "forgot")
        /\ UNCHANGED <<permits, watches>>
     \/ /\ client[c].role = "watch" \/ FailsAlone(c)
        /\ GiveUp(c)
  /\ UNCHANGED <<queue, ceiling, workers, parked, generation, invalidate>>

\* lower_ceiling, its permit being forgotten already.
LowerCeiling(c) ==
  /\ client[c].phase = "forgot"
  /\ ceiling' = ceiling - 1
  /\ IF client[c].role = "worker" THEN Moves(c, "waiting") ELSE Ends(c)
  /\ UNCHANGED <<permits, queue, watches, workers, parked, generation,
                 invalidate, poolBudget>>

\* `returned` resolves, and the call goes round again.
ComesRound(c) ==
  /\ client[c].phase = "waiting"
  /\ client[c].woken
  /\ client' = [client EXCEPT ![c] = [@ EXCEPT !.phase = "queued", !.woken = FALSE]]
  /\ queue' = Append(queue, c)
  /\ UNCHANGED <<permits, ceiling, watches, workers, parked, generation,
                 invalidate, poolBudget>>

-------------------------------------------------------------------------------
(* Giving a connection back *)

\* A spare worker is given back before the pass it helps gives back its own.
Unhelped(c) == \A d \in Clients \ {c} : client[d].owner # c

\* The guard is dropped: discarded after a failure, else parked unless the
\* generation moved on.  park compares first and pushes afterwards.
EndBorrow(c) ==
  /\ client[c].phase = "lent"
  /\ Unhelped(c)
  /\ \/ Drops(c, "ending")
     \/ client[c].made >= generation /\ Moves(c, "pushing")
  /\ UNCHANGED <<permits, queue, ceiling, watches, workers, parked, generation,
                 invalidate, poolBudget>>

Push(c) ==
  /\ client[c].phase = "pushing"
  /\ parked' = [parked EXCEPT ![client[c].made] = @ + 1]
  /\ Drops(c, "ending")
  /\ UNCHANGED <<permits, queue, ceiling, watches, workers, generation,
                 invalidate, poolBudget>>

Uncount(c) ==
  /\ client[c].phase = "ending"
  /\ workers' = workers - 1
  /\ Moves(c, "waking")
  /\ UNCHANGED <<permits, queue, ceiling, watches, parked, generation,
                 invalidate, poolBudget>>

\* notify_waiters reaches every Notified armed by now; then the permit goes.
Wake(c) ==
  /\ client[c].phase = "waking"
  /\ client' = [d \in Clients |->
       IF d = c THEN Resting(c) ELSE [client[d] EXCEPT !.woken = @ \/ Armed(d)]]
  /\ permits' = permits + 1
  /\ UNCHANGED <<queue, ceiling, watches, workers, parked, generation,
                 invalidate, poolBudget>>

\* A watch stops, or its task is aborted: its connection closes, and the lease
\* returns the slot and the permit.
EndWatch(c) ==
  /\ client[c].phase = "watching"
  /\ GiveUp(c)
  /\ UNCHANGED <<queue, ceiling, workers, parked, generation, invalidate,
                 poolBudget>>

\* The caller's future is dropped at an await.  What it owns goes with it; the
\* slot of a reservation that has no permit yet is owned by nobody.
Drop(c) ==
  /\ poolBudget.drops > 0
  /\ poolBudget' = [poolBudget EXCEPT !.drops = @ - 1]
  /\ \/ /\ \/ client[c].phase = "queued" /\ \E i \in 1..Len(queue) : LeavesQueue(c, i)
           \/ client[c].phase = "waiting" /\ UNCHANGED queue
        /\ Ends(c)
        /\ UNCHANGED <<permits, watches>>
     \/ client[c].phase \in {"checking", "dialling"} /\ GiveUp(c) /\ UNCHANGED queue
  /\ UNCHANGED <<ceiling, workers, parked, generation, invalidate>>

-------------------------------------------------------------------------------
(* invalidate: bump the generation, clear the shelf, restore the ceiling *)

BumpGeneration ==
  /\ invalidate.step = "none"
  /\ poolBudget.changes > 0
  /\ poolBudget' = [poolBudget EXCEPT !.changes = @ - 1]
  /\ generation' = generation + 1
  /\ invalidate' = [step |-> "bumped", add |-> 0]
  /\ UNCHANGED <<permits, queue, ceiling, watches, workers, parked, client>>

ClearParked ==
  /\ invalidate.step = "bumped"
  /\ parked' = [g \in Generations |-> 0]
  /\ invalidate' = [step |-> "cleared", add |-> 0]
  /\ UNCHANGED <<permits, queue, ceiling, watches, workers, generation, client,
                 poolBudget>>

RestoreCeiling ==
  /\ invalidate.step = "cleared"
  /\ invalidate' = [step |-> "restored", add |-> MaxConnections - ceiling]
  /\ ceiling' = MaxConnections
  /\ UNCHANGED <<permits, queue, watches, workers, parked, generation, client,
                 poolBudget>>

\* Mutant of AddPermits: the pool starts over with a full semaphore.
AddPermitsAfresh ==
  /\ invalidate.step = "restored"
  /\ permits' = MaxConnections
  /\ invalidate' = [step |-> "none", add |-> 0]
  /\ UNCHANGED <<queue, ceiling, watches, workers, parked, generation, client,
                 poolBudget>>

AddPermits ==
  /\ invalidate.step = "restored"
  /\ permits' = permits + invalidate.add
  /\ invalidate' = [step |-> "none", add |-> 0]
  /\ UNCHANGED <<queue, ceiling, watches, workers, parked, generation, client,
                 poolBudget>>

-------------------------------------------------------------------------------
PoolStep(c) ==
  \/ TakePermit(c) \/ TakeParked(c) \/ Connect(c) \/ CheckFails(c) \/ DialBreaks(c)
  \/ DialRefused(c) \/ LowerCeiling(c) \/ ComesRound(c) \/ EndBorrow(c)
  \/ Push(c) \/ Uncount(c) \/ Wake(c)

Invalidating == BumpGeneration \/ ClearParked \/ RestoreCeiling \/ AddPermits

PoolNext ==
  \/ \E c \in Clients : \/ Acquire(c) \/ ReserveWatch(c) \/ EndWatch(c)
                        \/ Drop(c) \/ PoolStep(c)
  \/ \E c, pass \in Clients : TryAcquire(c, pass)
  \/ Invalidating

PoolSpec == PoolInit /\ [][PoolNext]_poolVars

\* A task that is runnable runs, a dial ends, a borrower finishes its command
\* (every command has a deadline), the semaphore serves its waiters in turn, and
\* an invalidation runs through.  Nothing makes a watch end or a host ask.
PoolFairness ==
  /\ \A c \in Clients : WF_poolVars(PoolStep(c))
  /\ WF_poolVars(ClearParked \/ RestoreCeiling \/ AddPermits)

-------------------------------------------------------------------------------
(* What the pool promises *)

\* The connections at rest, told apart within their generation by a number.
Shelved == UNION {{g} \X (1..parked[g]) : g \in Generations}

Shelf == Cardinality(Shelved)

\* The budget counts sockets, not borrows: the connections resting, borrowed,
\* watching and being dialled never exceed the ceiling in force, although a
\* resting one stands on no permit and a dial may overlap a connection that is
\* coming back (pool.rs, the model's second half).
SocketsWithinCeiling == Shelf + Cardinality(In(Connected)) <= ceiling

\* The semaphore's total is the ceiling, whatever refusals, lost calls and
\* invalidations overlap, counting the permit that is forgotten before its
\* ceiling is lowered and the permits an invalidation has yet to add.
BudgetBalances ==
  permits + Cardinality(In(Holding)) + Cardinality(In({"forgot"})) + invalidate.add
    = ceiling

\* A caller whose dial failed waits only while it will be woken: some worker
\* is still counted as borrowing, or is on its way to wake those that wait.
NobodyStranded ==
  \A c \in Clients :
    client[c].phase \in {"forgot", "waiting"}
      /\ client[c].role = "worker" /\ ~client[c].woken
    => workers > 0 \/ In({"waking"}) # {}

\* A call made after the network changed is never served by a connection dialled
\* before it, not even one whose borrower found its generation current just
\* before the change and parked it just after the shelf was cleared.
SupersededNotReused ==
  \A c \in In({"checking", "dialling"}) : client[c].made >= client[c].asked

\* Watches that hold every permit in force.
WatchesHoldAll ==
  Cardinality({c \in In(Holding) : client[c].role = "watch"}) >= ceiling

\* While the server refuses nothing, the refusals of reserve_watch keep one
\* connection for the workers, however many reservations are in flight.
FloorUnlessLowered == WatchesHoldAll => ceiling < MaxConnections

\* A worker's call ends, with a connection or an error, unless watches hold the
\* whole budget.
AcquireAnswered ==
  \A c \in Clients :
    client[c].phase = "queued" /\ client[c].role = "worker"
      ~> client[c].phase \in {"idle", "lent"} \/ WatchesHoldAll
===============================================================================
