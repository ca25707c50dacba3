----------------------------- MODULE MCMailFolder -----------------------------
(* Small instances of MailFolder.                                              *)
EXTENDS MailFolder

\* Every message of one date; a folder where the second is old, as a message
\* filed from elsewhere is.
OneDate == [u \in Uids |-> 0]
SecondOld == [u \in Uids |-> IF u = 2 THEN 0 ELSE 1]

\* One pass at a time over every dialect, window and UID space, or two passes at
\* once over the whole history of one UID space with QRESYNC; the server changes
\* twice where nothing but the passes themselves is in the way.
OnePass == pass["b"] = Idle /\ holder # "b"
Whole ==
  /\ depth = 0 /\ cursor.floor = 0
  /\ \A w \in Workers : pass[w].window = 0
OneAtATime ==
  \/ OnePass /\ (server.modseq < MaxModseq \/ Whole)
  \/ /\ Whole /\ server.validity = 1 /\ speaks = "qresync"
     /\ server.modseq < MaxModseq \/ epoch = 0 \/ faults = 0
===============================================================================
