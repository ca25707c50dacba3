------------------------------ MODULE RequestGate -----------------------------
(***************************************************************************)
(* The ceiling on one account's HTTP requests in flight.  A request that   *)
(* finds no lane sleeps on a Notify until a lane comes back; adapters may  *)
(* narrow the ceiling at any time, and callers may drop a request while it *)
(* waits.  The Notify is tokio's: notify_one wakes the request registered  *)
(* first, is kept (once) when none is registered, and is passed on by one  *)
(* dropped before it noticed.                                              *)
(***************************************************************************)
EXTENDS Integers, FiniteSets, Sequences, SequencesExt

CONSTANTS
  Requests,    \* the requests made through the gate
  Ceilings     \* the ceilings adapters may narrow the gate to

ASSUME RequestGateAssumption ==
  IsFiniteSet(Requests) /\ Ceilings \subseteq Nat /\ IsFiniteSet(Ceilings)

VARIABLES
  limit,     \* Unbounded until an adapter states one
  inFlight,  \* in_flight
  request,   \* where each request is
  sleepers,  \* the Notified futures registered, in order
  fired,     \* the requests whose Notified was notified
  stored     \* a notification kept for the next to register

gateVars == <<limit, inFlight, request, sleepers, fired, stored>>

Unbounded == Cardinality(Requests) + 1

RequestPhases == {"unsent",
                  "arming",    \* about to register its Notified
                  "checking",  \* registered; about to look for a lane
                  "asleep",
                  "holding",   \* holds a lane, backoff sleeps included
                  "leaving",   \* gave its lane back; about to notify
                  "done"}

GateInit ==
  /\ limit = Unbounded
  /\ inFlight = 0
  /\ request = [r \in Requests |-> "unsent"]
  /\ sleepers = <<>>
  /\ fired = {}
  /\ stored = FALSE

-------------------------------------------------------------------------------
(* The Notify *)

\* The state after notify_one with `queue` registered and `hit` notified.
NotifyOne(queue, hit, kept) ==
  /\ sleepers' = IF queue = <<>> THEN <<>> ELSE Tail(queue)
  /\ fired' = IF queue = <<>> THEN hit ELSE hit \cup {Head(queue)}
  /\ stored' = (kept \/ queue = <<>>)

\* r leaves the queue, if it is in it.
Unregister(r) ==
  \/ \E i \in 1..Len(sleepers) :
       sleepers[i] = r /\ sleepers' = RemoveAt(sleepers, i)
  \/ /\ \A i \in 1..Len(sleepers) : sleepers[i] # r
     /\ UNCHANGED sleepers

\* The Notified of r is dropped.  A notification that reached it while it was
\* registered, and that nothing awaited, goes to the next.
Forget(r) ==
  IF r \in fired
    THEN NotifyOne(sleepers, fired \ {r}, stored)
    ELSE Unregister(r) /\ UNCHANGED <<fired, stored>>

-------------------------------------------------------------------------------
(* acquire *)

Ask(r) ==
  /\ request[r] = "unsent"
  /\ request' = [request EXCEPT ![r] = "arming"]
  /\ UNCHANGED <<limit, inFlight, sleepers, fired, stored>>

\* enable(): takes a kept notification, which then counts for nothing unless it
\* is awaited, or registers.
Arm(r) ==
  /\ request[r] = "arming"
  /\ request' = [request EXCEPT ![r] = "checking"]
  /\ stored' = FALSE
  /\ sleepers' = IF stored THEN sleepers ELSE Append(sleepers, r)
  /\ UNCHANGED <<limit, inFlight, fired>>

\* The lane is taken and the Notified dropped.
TakeLane(r) ==
  /\ request[r] = "checking"
  /\ inFlight < limit
  /\ inFlight' = inFlight + 1
  /\ request' = [request EXCEPT ![r] = "holding"]
  /\ Forget(r)
  /\ UNCHANGED limit

Registered(r) == \E i \in 1..Len(sleepers) : sleepers[i] = r

\* No lane: the await returns at once when enable() took a kept notification.
FindNoLane(r) ==
  /\ request[r] = "checking"
  /\ inFlight >= limit
  /\ request' = [request EXCEPT ![r] =
       IF r \in fired \/ Registered(r) THEN "asleep" ELSE "arming"]
  /\ UNCHANGED <<limit, inFlight, sleepers, fired, stored>>

WakeUp(r) ==
  /\ request[r] = "asleep"
  /\ r \in fired
  /\ fired' = fired \ {r}
  /\ request' = [request EXCEPT ![r] = "arming"]
  /\ UNCHANGED <<limit, inFlight, sleepers, stored>>

-------------------------------------------------------------------------------
(* The permit's drop, a caller that gives up, and the ceiling *)

ReturnLane(r) ==
  /\ request[r] = "holding"
  /\ inFlight' = inFlight - 1
  /\ request' = [request EXCEPT ![r] = "leaving"]
  /\ UNCHANGED <<limit, sleepers, fired, stored>>

\* Mutant of Notify: only the lane that makes a full gate free is announced.
NotifyWhenFull(r) ==
  /\ request[r] = "leaving"
  /\ request' = [request EXCEPT ![r] = "done"]
  /\ IF inFlight + 1 >= limit THEN NotifyOne(sleepers, fired, stored)
     ELSE UNCHANGED <<sleepers, fired, stored>>
  /\ UNCHANGED <<limit, inFlight>>

Notify(r) ==
  /\ request[r] = "leaving"
  /\ request' = [request EXCEPT ![r] = "done"]
  /\ NotifyOne(sleepers, fired, stored)
  /\ UNCHANGED <<limit, inFlight>>

Abandon(r) ==
  /\ request[r] = "asleep"
  /\ request' = [request EXCEPT ![r] = "done"]
  /\ Forget(r)
  /\ UNCHANGED <<limit, inFlight>>

\* Mutant of Stated: a zero ceiling is taken at its word.
StatedAsIs(stated) == stated

Stated(stated) == IF stated = 0 THEN 1 ELSE stated

NarrowTo(stated) ==
  /\ Stated(stated) < limit
  /\ limit' = Stated(stated)
  /\ UNCHANGED <<inFlight, request, sleepers, fired, stored>>

GateStep(r) ==
  \/ Arm(r) \/ TakeLane(r) \/ FindNoLane(r) \/ WakeUp(r) \/ ReturnLane(r)
  \/ Notify(r)

GateNext ==
  \/ \E r \in Requests : Ask(r) \/ GateStep(r) \/ Abandon(r)
  \/ \E c \in Ceilings : NarrowTo(c)

GateSpec == GateInit /\ [][GateNext]_gateVars

\* A request that can go on does, and every exchange ends by its deadlines.
GateFairness == \A r \in Requests : WF_gateVars(GateStep(r))

-------------------------------------------------------------------------------
(* What the gate promises *)

\* A request sleeps only while the lanes it could have are spoken for: each lane
\* free beside a sleeper is one that a wakeup under way, or a request about to
\* look, stands for, however wakeups, drops and narrowing interleave.
WakeupsCoverLanes ==
  (\E r \in Requests : request[r] = "asleep" /\ r \notin fired) /\ inFlight < limit
    => limit - inFlight <=
         Cardinality(fired \cup {r \in Requests :
                       request[r] \in {"arming", "checking", "leaving"}})

\* Every request made is sent in the end, or was given up by its caller: there
\* comes a time after which none waits for a lane.
RequestServed ==
  <>[](\A r \in Requests : request[r] \notin {"arming", "checking", "asleep"})
===============================================================================
