----------------------------- MODULE OutboxPromise ----------------------------
(***************************************************************************)
(* The outbox implements SendPromise.  The host reads a row through View,  *)
(* so a dead attempt reads as its recovery will leave it; the licences are *)
(* the ledger's.                                                           *)
(***************************************************************************)
EXTENDS Outbox

Sends == {o \in Ops : IsSend(o)}

StatusOf(state) ==
  CASE state = "Absent" -> "Absent"
    [] state \in {"Pending", "InFlight"} -> "Queued"
    [] state = "NeedsConfirmation" -> "Asking"
    [] state = "Succeeded" -> "Sent"
    [] state = "Failed" -> "Failed"
    [] state = "Cancelled" -> "Withdrawn"

Promise ==
  INSTANCE SendPromise WITH
    status <- [o \in Sends |-> StatusOf(View(o).state)],
    delivered <- [o \in Sends |-> delivered[o]],
    licences <- [o \in Sends |-> saidNo[o] + Licence(op[o])]

\* Every behaviour of the outbox is one SendPromise allows: each step delivers
\* under a licence, moves sends along the promised statuses, or shows nothing.
Implements == Promise!Spec
===============================================================================
