------------------------------ MODULE MCTransport -----------------------------
(* Small instances of the connection pool, the request gate and the HTTP       *)
(* funnel.  They share no state: a behaviour runs one of the three.            *)
EXTENDS ImapPool, RequestGate, HttpSend

VARIABLE running

transportVars == <<poolVars, gateVars, sendVars, running>>

\* The host invalidates once beside one failure, or two failures meet a dropped call.
Budgets == {[changes |-> 1, faults |-> 1, drops |-> 0],
            [changes |-> 0, faults |-> 2, drops |-> 1]}

\* The two that do not run rest in one of their initial states.
TransportInit ==
  /\ PoolInit /\ GateInit /\ SendInit
  /\ running \in {"pool", "gate", "send"}
  /\ running # "pool" => parked[0] = 0 /\ poolBudget.changes = 1
  /\ running # "send" => kind = "write" /\ pieces = 0

TransportNext ==
  \/ running = "pool" /\ PoolNext /\ UNCHANGED <<gateVars, sendVars, running>>
  \/ running = "gate" /\ GateNext /\ UNCHANGED <<poolVars, sendVars, running>>
  \/ running = "send" /\ SendNext /\ UNCHANGED <<poolVars, gateVars, running>>

TransportSpec ==
  /\ TransportInit /\ [][TransportNext]_transportVars
  /\ PoolFairness /\ GateFairness
===============================================================================
