------------------------------ MODULE SendPromise -----------------------------
(***************************************************************************)
(* What the outbox promises the host about the messages it asked to send,  *)
(* with no attempt, lease, crash or network in sight: a send is delivered  *)
(* only under a licence, it starts with one, saying it was not delivered   *)
(* grants another, withdrawing it takes back one that was never used, and  *)
(* it reads as sent only when it was delivered or the host said so.        *)
(***************************************************************************)
EXTENDS Naturals

CONSTANT Sends

VARIABLES
  status,     \* what the host reads of each send
  delivered,  \* how often the server accepted it
  licences    \* how often it may be delivered

promiseVars == <<status, delivered, licences>>

Init ==
  /\ status = [s \in Sends |-> "Absent"]
  /\ delivered = [s \in Sends |-> 0]
  /\ licences = [s \in Sends |-> 1]

\* What may become of a send by itself.  A question may answer itself when the
\* attempt turns out to be alive, or reports late.
Moves ==
  {<<"Absent", "Queued">>, <<"Queued", "Asking">>, <<"Queued", "Failed">>,
   <<"Asking", "Queued">>, <<"Asking", "Failed">>, <<"Failed", "Queued">>}

MovesOn(s) ==
  \/ status'[s] = status[s]
  \/ <<status[s], status'[s]>> \in Moves
  \/ /\ status[s] \in {"Queued", "Asking"}
     /\ status'[s] = "Sent"
     /\ delivered[s] > 0

\* One transaction may move several sends on.
MoveOn ==
  /\ status' = [s \in Sends |-> status'[s]]
  /\ \A s \in Sends : MovesOn(s)
  /\ UNCHANGED <<delivered, licences>>

Deliver(s) ==
  /\ delivered[s] < licences[s]
  /\ delivered' = [delivered EXCEPT ![s] = @ + 1]
  /\ UNCHANGED <<status, licences>>

Withdraw(s) ==
  /\ status[s] \in {"Queued", "Failed"}
  /\ delivered[s] < licences[s]
  /\ status' = [status EXCEPT ![s] = "Withdrawn"]
  /\ licences' = [licences EXCEPT ![s] = @ - 1]
  /\ UNCHANGED delivered

SayDelivered(s) ==
  /\ status[s] = "Asking"
  /\ status' = [status EXCEPT ![s] = "Sent"]
  /\ UNCHANGED <<delivered, licences>>

SayNotDelivered(s) ==
  /\ status[s] = "Asking"
  /\ status' = [status EXCEPT ![s] = "Queued"]
  /\ licences' = [licences EXCEPT ![s] = @ + 1]
  /\ UNCHANGED delivered

Next ==
  \/ MoveOn
  \/ \E s \in Sends : \/ Deliver(s)
                     \/ Withdraw(s)
                     \/ SayDelivered(s)
                     \/ SayNotDelivered(s)

Spec == Init /\ [][Next]_promiseVars
===============================================================================
