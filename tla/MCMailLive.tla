------------------------------ MODULE MCMailLive ------------------------------
(* What the passes of an IMAP folder and of a Gmail mailbox come to.  They     *)
(* share no state: a behaviour runs one of the two.                            *)
EXTENDS MCMailFolder, GmailPass

VARIABLE running

liveVars == <<vars, gmailVars, running>>

Folder == running = "folder"
Gmail == running = "gmail"

LiveInit == Init /\ GmailInit /\ running \in {"folder", "gmail"}

LiveNext ==
  \/ Folder /\ Next /\ UNCHANGED <<gmailVars, running>>
  \/ Gmail /\ GmailNext /\ UNCHANGED <<vars, running>>

\* MailFolder's fairness and GmailPass's, each for the one that runs.
LiveSpec ==
  /\ LiveInit /\ [][LiveNext]_liveVars
  /\ WF_vars(Folder /\ LeaseLapses)
  /\ \A w \in Workers : WF_vars(Folder /\ Polls(w)) /\ WF_vars(Folder /\ GetsOn(w))
  /\ WF_gmailVars(Gmail /\ PassStep)

\* An IMAP folder that is left alone is in step for good once its passes had their
\* turns, whatever was lost, cleared or refused before (sync_mailbox_messages).
FolderSettles == <>[](Folder => InStep)

\* A Gmail mailbox that is left alone is synced to a delta cursor and holds what the
\* server has for good, although backfills were stopped and tokens and history lost
\* (pass.rs, the additive loop and the reconcile).
GmailSettles == <>[](Gmail => Settled)
===============================================================================
