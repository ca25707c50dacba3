------------------------------- MODULE HttpSend -------------------------------
(***************************************************************************)
(* One request through the HTTP funnel: the body that goes out in pieces,  *)
(* the hand-over a submission commits before its last piece, the deadlines *)
(* on a server gone quiet, the replies that are waited out and replayed,   *)
(* and what the adapter makes of the end.  The lane the call holds is      *)
(* RequestGate's.                                                          *)
(***************************************************************************)
EXTENDS Naturals

CONSTANTS
  MaxPieces,      \* bound: pieces of a request body
  Attempts,       \* RetryPolicy::attempts
  BaseDelay,      \* RetryPolicy::base
  DelayCeiling,   \* RetryPolicy::ceiling
  WaitBudget,     \* RetryPolicy::budget
  AbsorbsStated,  \* RetryPolicy::absorbs_stated
  StatedJitter,   \* the most added to a wait the server names
  StatedWaits,    \* the waits a server may name; 0 is none
  LateStatuses    \* the refusals a server may send after it applied the request

ASSUME HttpSendAssumption ==
  /\ MaxPieces \in Nat /\ Attempts \in Nat \ {0}
  /\ BaseDelay \in Nat /\ DelayCeiling \in Nat /\ WaitBudget \in Nat
  /\ AbsorbsStated \in Nat /\ StatedJitter \in Nat /\ StatedWaits \subseteq Nat
  /\ LateStatuses \subseteq {"503", "502"}

VARIABLES
  kind,       \* "idempotent", "write" or "submission"
  pieces,     \* the pieces of its body; none for a request that is all head
  exchange,   \* the attempt under way
  recorded,   \* whether the outbox recorded the hand-over
  number,     \* earlier attempts
  waited,     \* slept across them
  applied,    \* how often the server has acted on the request
  end         \* "none", or how the call ended

sendVars == <<kind, pieces, exchange, recorded, number, waited, applied, end>>

\* The server's replies.  "429" and "claimed" (a refusal the adapter's classifier
\* recognises in the body) were refused, "502" is a gateway's lost answer.
Statuses == {"200", "400", "429", "claimed", "503", "502"}

\* `phase` follows an attempt; `left` counts the pieces not yet handed out, `gate`
\* is the state of hand_over::Gate, `got` whether the server has the whole
\* request and `acted` whether it acted on it.
Exchange == [phase : {"idle", "sending", "replied", "over"}, left : 0..MaxPieces,
             gate : {"closed", "asked", "open", "refused"}, got : BOOLEAN,
             acted : BOOLEAN, status : Statuses \cup {"none"}]

Fresh == [phase |-> "sending", left |-> pieces, gate |-> "closed", got |-> FALSE,
          acted |-> FALSE, status |-> "none"]

SendInit ==
  /\ kind \in {"idempotent", "write", "submission"}
  /\ pieces \in 0..MaxPieces
  /\ exchange = [phase |-> "idle", left |-> 0, gate |-> "closed", got |-> FALSE,
                 acted |-> FALSE, status |-> "none"]
  /\ recorded = FALSE
  /\ number = 0
  /\ waited = 0
  /\ applied = 0
  /\ end = "none"

Sending == exchange.phase = "sending"

\* Every piece, the last included, has been handed out.
Whole == exchange.left = 0

-------------------------------------------------------------------------------
(* send_bounded *)

\* A submission without a body to hold back commits its hand-over first.
Begin ==
  /\ exchange.phase = "idle"
  /\ end = "none"
  /\ exchange' = Fresh
  /\ recorded' = (recorded \/ (kind = "submission" /\ pieces = 0))
  /\ UNCHANGED <<kind, pieces, number, waited, applied, end>>

\* ... and ends there when that fails.
BeginWithheld ==
  /\ exchange.phase = "idle"
  /\ end = "none"
  /\ kind = "submission" /\ pieces = 0 /\ ~recorded
  /\ exchange' = [exchange EXCEPT !.phase = "over"]
  /\ end' = "notReceived"
  /\ UNCHANGED <<kind, pieces, recorded, number, waited, applied>>

\* Mutant of HeldBack: the gate is asked for before the body, not before its end.
HeldBackAtFirst(left) == kind = "submission" /\ left = pieces /\ left > 1

\* The piece that waits for the hand-over.
HeldBack(left) == kind = "submission" /\ left = 1

HandPiece ==
  /\ Sending
  /\ exchange.left > 0
  /\ HeldBack(exchange.left) => exchange.gate = "open"
  /\ exchange' = [exchange EXCEPT !.left = @ - 1]
  /\ UNCHANGED <<kind, pieces, recorded, number, waited, applied, end>>

AskHandOver ==
  /\ Sending
  /\ exchange.left > 0 /\ HeldBack(exchange.left)
  /\ exchange.gate = "closed"
  /\ exchange' = [exchange EXCEPT !.gate = "asked"]
  /\ UNCHANGED <<kind, pieces, recorded, number, waited, applied, end>>

\* commit records once; a second commit only returns the proof.
CommitHandOver ==
  /\ Sending
  /\ exchange.gate = "asked"
  /\ \/ recorded' = TRUE /\ exchange' = [exchange EXCEPT !.gate = "open"]
     \/ /\ ~recorded /\ UNCHANGED recorded
        /\ exchange' = [exchange EXCEPT !.gate = "refused"]
  /\ UNCHANGED <<kind, pieces, number, waited, applied, end>>

-------------------------------------------------------------------------------
(* The server *)

ServerReceives ==
  /\ Sending /\ Whole /\ ~exchange.got
  /\ exchange' = [exchange EXCEPT !.got = TRUE]
  /\ UNCHANGED <<kind, pieces, recorded, number, waited, applied, end>>

\* A server acts only on a whole request ...
ServerActs ==
  /\ Sending /\ exchange.got /\ ~exchange.acted
  /\ exchange' = [exchange EXCEPT !.acted = TRUE]
  /\ applied' = applied + 1
  /\ UNCHANGED <<kind, pieces, recorded, number, waited, end>>

\* ... and may refuse one at any point; 502 and 503 do not say that it did not act.
ServerReplies ==
  /\ Sending
  /\ exchange.gate # "refused"
  /\ \E status \in Statuses :
       /\ exchange.acted => status \in {"200"} \cup LateStatuses
       /\ status = "200" => exchange.acted
       /\ exchange' = [exchange EXCEPT !.phase = "replied", !.status = status]
  /\ UNCHANGED <<kind, pieces, recorded, number, waited, applied, end>>

-------------------------------------------------------------------------------
(* An exchange that fails *)

\* Mutant of Reached: a failure before the reply counts as not received.
ReachedNever(connected) == "notReceived"

\* How far the request may have got; a connect that failed got nowhere.
Reached(connected) == IF connected /\ Whole THEN "unknown" ELSE "notReceived"

\* The connection breaks or is never made, or a deadline passes without progress.
\* A hand-over being committed meanwhile may or may not reach the outbox.
ExchangeFails ==
  /\ Sending
  /\ \E connected \in BOOLEAN :
       /\ connected \/ (exchange.left = pieces /\ ~exchange.got)
       /\ end' = IF exchange.gate = "refused" THEN "notReceived" ELSE Reached(connected)
  /\ exchange' = [exchange EXCEPT !.phase = "over"]
  /\ recorded' \in {recorded, recorded \/ exchange.gate = "asked"}
  /\ UNCHANGED <<kind, pieces, number, waited, applied>>

-------------------------------------------------------------------------------
(* send_retrying *)

\* Mutant of Retryable: a 503 is replayed whatever the method.
RetryableAnyway(status) == status \in {"429", "503"}

Retryable(status) == status = "429" \/ (status = "503" /\ kind = "idempotent")

\* The body of a reply whose status does not settle it is lost on the way.
ReplyLost ==
  /\ exchange.phase = "replied"
  /\ ~Retryable(exchange.status)
  /\ exchange' = [exchange EXCEPT !.phase = "over"]
  /\ end' = "unknown"
  /\ UNCHANGED <<kind, pieces, recorded, number, waited, applied>>

Throttled == Retryable(exchange.status) \/ exchange.status = "claimed"

Smaller(a, b) == IF a < b THEN a ELSE b

\* The jitter window of next_delay: above the wait the server named, else the
\* upper half of the doubled backoff.
Window(stated) ==
  LET doubled == Smaller(BaseDelay * 2 ^ number, DelayCeiling)
  IN IF stated > 0 THEN stated..(stated + Smaller(stated \div 4, StatedJitter))
     ELSE (doubled \div 2)..(2 * (doubled \div 2))

\* Mutant of Granted: the budget is checked without the delay to come.
GrantedBehind(stated, delay) ==
  /\ number + 1 < Attempts
  /\ stated <= AbsorbsStated
  /\ waited <= WaitBudget

\* next_delay.
Granted(stated, delay) ==
  /\ number + 1 < Attempts
  /\ stated <= AbsorbsStated
  /\ waited + delay <= WaitBudget

\* A throttled reply is slept out, and the request replayed.
Replay ==
  /\ exchange.phase = "replied"
  /\ Throttled
  /\ \E stated \in StatedWaits : \E delay \in Window(stated) :
       /\ Granted(stated, delay)
       /\ waited' = waited + delay
  /\ number' = number + 1
  /\ exchange' = [exchange EXCEPT !.phase = "idle"]
  /\ UNCHANGED <<kind, pieces, recorded, applied, end>>

\* What the adapter takes a status for, ending a request that changes something:
\* only a gateway's says nothing of the outcome.
OutcomeOf(status) ==
  CASE status = "200" -> "applied" [] status = "502" -> "unknown" [] OTHER -> "refused"

\* Anything else is handed back, a throttle the policy declines included.
HandBack ==
  /\ exchange.phase = "replied"
  /\ Throttled => \E stated \in StatedWaits : \E delay \in Window(stated) :
                    ~Granted(stated, delay)
  /\ end' = OutcomeOf(exchange.status)
  /\ exchange' = [exchange EXCEPT !.phase = "over"]
  /\ UNCHANGED <<kind, pieces, recorded, number, waited, applied>>

SendNext ==
  \/ Begin \/ BeginWithheld \/ HandPiece \/ AskHandOver \/ CommitHandOver
  \/ ServerReceives \/ ServerReplies \/ ServerActs \/ ExchangeFails
  \/ ReplyLost \/ Replay \/ HandBack

SendSpec == SendInit /\ [][SendNext]_sendVars

-------------------------------------------------------------------------------
(* What the funnel promises *)

\* The server never has the whole of a submission whose hand-over the outbox
\* did not record, across replays, refused records and deadlines that fire while
\* the record is being written.
HandedOverFirst == kind = "submission" /\ exchange.got => recorded

\* A request that is not idempotent is acted on once, although throttled replies
\* are replayed and a server may apply a request it answers with 503.
AppliedOnce == kind # "idempotent" => applied <= 1

\* An exchange that failed short of the server ("notReceived") changed nothing,
\* so retrying the send cannot repeat it.
NotReceivedIsUnapplied ==
  kind # "idempotent" /\ end = "notReceived" => applied = 0

\* A call never sleeps past its budget nor sends more than its attempts.
WaitsBounded == waited <= WaitBudget /\ number < Attempts

\* A write reported as refused or not received was not applied: "Every other
\* status is the server's own answer, so the write was not applied".
RefusedIsUnapplied ==
  kind # "idempotent" /\ end \in {"refused", "notReceived"} => applied = 0
===============================================================================
