---------------------------- MODULE MCOutboxDurable ---------------------------
(***************************************************************************)
(* Two sends of one draft, the second waiting for the first to succeed, on *)
(* a device that may lose power at any point.                              *)
(***************************************************************************)
EXTENDS OutboxDurable

AllSends == [o \in Ops |-> "MailSubmit"]
OneDraft == [o \in Ops |-> "draft"]
Chained == [o \in Ops |-> {p \in Ops : p < o}]
===============================================================================
