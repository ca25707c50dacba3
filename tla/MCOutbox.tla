------------------------------- MODULE MCOutbox -------------------------------
(***************************************************************************)
(* Instances of the outbox and of what it promises: one op, or one of each *)
(* kind on one resource, independent of each other.                        *)
(***************************************************************************)
EXTENDS OutboxPromise, TLC

EveryKind == 1 :> "MailSubmit" @@ 2 :> "MailWrite" @@ 3 :> "OtherWrite"
TwoSends == [o \in Ops |-> "MailSubmit"]
OneResource == [o \in Ops |-> "draft"]
Independent == [o \in Ops |-> {}]
===============================================================================
