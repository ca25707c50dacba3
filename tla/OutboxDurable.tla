---------------------------- MODULE OutboxDurable -----------------------------
(***************************************************************************)
(* The outbox on a disk that can lose power.  A file store runs WAL with   *)
(* `synchronous = NORMAL`: a commit survives the process, but a power cut  *)
(* rolls the database back to some commit no older than the last synced    *)
(* one, and ends every attempt.  What the server was sent stays sent.      *)
(***************************************************************************)
EXTENDS Outbox

VARIABLE disk  \* the rows a power cut would leave

durableVars == <<vars, disk>>

\* Mutant of Durably: the hand-over is committed like any other write.
DurablyButHandOver == \E o \in Ops : Enqueue(o) \/ Cancel(o)

\* Mutant of Durably: an enqueue and a withdrawal are not synced.
DurablyHandOverOnly == \E a \in att : CommitHandOver(a)

\* The writes whose commit is on disk before the call returns.
Durably ==
  \/ \E o \in Ops : Enqueue(o) \/ Cancel(o)
  \/ \E a \in att : CommitHandOver(a)

\* A sync carries every earlier commit with it; any other commit may reach the
\* disk by itself or not.
Commit ==
  /\ Next
  /\ disk' \in {disk, op'}
  /\ Durably => disk' = op'

PowerCut ==
  /\ Fault
  /\ op' = disk
  /\ att' = {}
  /\ planned' = {}
  /\ UNCHANGED <<wire, delivered, saidNo, saidYes, disk>>

DurableInit == Init /\ disk = op

DurableNext == Commit \/ PowerCut

DurableSpec == DurableInit /\ [][DurableNext]_durableVars

-------------------------------------------------------------------------------
(* Properties; DeliveredOnce and WithdrawnUnsent too *)

\* What the host was told has happened outlives a power cut: a queued op is not
\* forgotten, and a withdrawn one does not come back.
PromisesSurvive ==
  [][\A o \in Ops :
       /\ op[o].state # "Absent" => op'[o].state # "Absent"
       /\ op[o].state = "Cancelled" => op'[o].state = "Cancelled"]_durableVars
===============================================================================
