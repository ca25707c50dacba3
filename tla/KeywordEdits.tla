----------------------------- MODULE KeywordEdits -----------------------------
(***************************************************************************)
(* What the store shows of one message's keywords while edits of them are  *)
(* queued, sent and settled, a sync pass reads the server and writes what  *)
(* it read later, and other clients change the message too.                *)
(*                                                                         *)
(* The outbox is Outbox's: here an attempt either reaches the server or    *)
(* does not, and is recorded, retried or given up later.  One clock        *)
(* stamps claims and settlements, in whole seconds, as the engine's        *)
(* SystemClock does; any number of steps share a second.                   *)
(***************************************************************************)
EXTENDS Naturals, Sequences, FiniteSetsExt

CONSTANTS
  Keywords,
  MaxEdits,     \* bound: edits queued
  MaxMishaps,   \* bound: changes other clients make, attempts parked, passes failed
  MaxSeconds    \* bound: how far the clock gets

ASSUME KeywordEditsAssumption ==
  /\ MaxEdits \in Nat /\ MaxMishaps \in Nat /\ MaxSeconds \in Nat

VARIABLES
  mailbox,     \* the server: the message's keywords and how often they changed
  row,         \* what the store shows of it
  serverSet,   \* server_keywords: the server's word, while an edit is unsettled
  edits,       \* the edits, in the order queued
  reading,     \* the sync pass
  synced,      \* the change of the server the cursor covers, the last pass's start
  second,      \* the clock
  mishaps,
  alien        \* history: keywords other clients changed, a lost answer hides the value
               \* of, or whose edits were accepted in another order than queued

editVars == <<mailbox, row, serverSet, edits, reading, synced, second, mishaps, alien>>

\* No keyword set, one, and the one there is.
NoSet == {}
SomeSet(keywords) == {keywords}
The(some) == CHOOSE keywords \in some : TRUE

Mishap == mishaps < MaxMishaps /\ mishaps' = mishaps + 1

Edit == [add : SUBSET Keywords, remove : SUBSET Keywords,
         state : {"Pending", "InFlight", "Succeeded", "Failed", "Cancelled"},
         landed : BOOLEAN, settledAt : Nat]

-------------------------------------------------------------------------------
(* KeywordEdit *)

KeywordsOf(e) == e.add \cup e.remove

ApplyTo(keywords, e) == (keywords \ e.remove) \cup e.add

\* The edits of I, in order, on top of some keywords: the last one that names a
\* keyword decides it.
Naming(es, I, k) == {i \in I : k \in KeywordsOf(es[i])}

Shown(keywords, es, I) ==
  {k \in Keywords :
     LET naming == Naming(es, I, k)
     IN  IF naming = {} THEN k \in keywords ELSE k \in es[Max(naming)].add}

Unsettled(es) == {i \in DOMAIN es : es[i].state \in {"Pending", "InFlight"}}

\* Mutant of AcceptedSince: the instant itself is not looked at.
AcceptedSinceNever(es, since) == {}

\* Stored instants are compared as text, strictly.
AcceptedSince(es, since) ==
  {i \in DOMAIN es : es[i].state = "Succeeded" /\ es[i].settledAt > since}

-------------------------------------------------------------------------------
(* The three moments a message's keywords are written *)

Show(keywords) == row' = [row EXCEPT !.keywords = keywords]

\* queued: in the transaction that queues the op.
Queue(add, remove) ==
  LET server == IF serverSet = NoSet THEN row.keywords ELSE The(serverSet)
      queued == Append(edits, [add |-> add, remove |-> remove, state |-> "Pending",
                               landed |-> FALSE, settledAt |-> 0])
  IN  /\ Len(edits) < MaxEdits
      /\ edits' = queued
      /\ IF row.there THEN serverSet' = SomeSet(server) /\ Show(Shown(server, queued, Unsettled(queued)))
                      ELSE UNCHANGED <<serverSet, row>>
      /\ UNCHANGED <<mailbox, reading, synced, second, mishaps, alien>>

\* An edit of `k` queued before the i-th is still unsettled.
Overtakes(i, k) ==
  \E j \in 1..(i - 1) : edits[j].state \in {"Pending", "InFlight"} /\ k \in KeywordsOf(edits[j])

\* settled: in the transaction that settles it; an accepted edit joins the server set.
Settle(i, state) ==
  LET settled == [edits EXCEPT ![i].state = state, ![i].settledAt = second]
      left == Unsettled(settled)
      server == IF state = "Succeeded" THEN ApplyTo(The(serverSet), edits[i])
                                       ELSE The(serverSet)
  IN  /\ edits' = settled
      /\ IF serverSet = NoSet THEN UNCHANGED <<serverSet, row>>
         ELSE /\ serverSet' = IF left = {} THEN NoSet ELSE SomeSet(server)
              /\ Show(Shown(server, settled, left))
      /\ alien' = alien \cup
                  IF state = "Succeeded" THEN {k \in KeywordsOf(edits[i]) : Overtakes(i, k)}
                  ELSE IF edits[i].landed THEN KeywordsOf(edits[i]) ELSE {}

\* synced: what a pass wrote is the server's word; edits unsettled, or accepted since
\* the pass began, go back on top of it.
Synced(read, since) ==
  LET accepted == AcceptedSince(edits, since)
      server == Shown(read, edits, accepted)
      left == Unsettled(edits)
  IN  /\ serverSet' = IF left = {} THEN serverSet ELSE SomeSet(server)
      /\ row' = [there |-> TRUE, keywords |-> Shown(server, edits, left)]

-------------------------------------------------------------------------------
(* Attempts *)

\* Ops on one message run one at a time, whichever of them is due.
Attempt(i) ==
  /\ edits[i].state = "Pending"
  /\ \A j \in DOMAIN edits : edits[j].state # "InFlight"
  /\ edits' = [edits EXCEPT ![i].state = "InFlight", ![i].landed = FALSE]
  /\ UNCHANGED <<mailbox, row, serverSet, reading, synced, second, mishaps, alien>>

ServerSets(keywords) ==
  mailbox' = [keywords |-> keywords,
              version |-> mailbox.version + IF keywords = mailbox.keywords THEN 0 ELSE 1]

Lands(i) ==
  /\ edits[i].state = "InFlight" /\ ~edits[i].landed
  /\ ServerSets(ApplyTo(mailbox.keywords, edits[i]))
  /\ edits' = [edits EXCEPT ![i].landed = TRUE]
  /\ UNCHANGED <<row, serverSet, reading, synced, second, mishaps, alien>>

\* record: accepted, refused for good or given up.
Record(i) ==
  /\ edits[i].state = "InFlight"
  /\ \/ edits[i].landed /\ Settle(i, "Succeeded")
     \/ Settle(i, "Failed")
  /\ UNCHANGED <<mailbox, reading, synced, second, mishaps>>

\* The answer is lost, or the attempt dies: the op parks and is attempted again.
Parked(i) ==
  /\ edits[i].state = "InFlight" /\ Mishap
  /\ edits' = [edits EXCEPT ![i].state = "Pending"]
  /\ alien' = IF edits[i].landed THEN alien \cup KeywordsOf(edits[i]) ELSE alien
  /\ UNCHANGED <<mailbox, row, serverSet, reading, synced, second>>

Withdraw(i) ==
  /\ edits[i].state = "Pending"
  /\ Settle(i, "Cancelled")
  /\ UNCHANGED <<mailbox, reading, synced, second, mishaps>>

-------------------------------------------------------------------------------
(* The pass, other clients, the clock *)

NotReading == [stage |-> "idle", since |-> 0, saw |-> NoSet, version |-> 0]

\* read_since: the claim's instant is the pass's start.
ClaimRead ==
  /\ reading.stage = "idle"
  /\ reading' = [NotReading EXCEPT !.stage = "claimed", !.since = second]
  /\ UNCHANGED <<mailbox, row, serverSet, edits, synced, second, mishaps, alien>>

\* A delta leaves out a message that has not changed.
ReadServer ==
  /\ reading.stage = "claimed"
  /\ \E saw \in {SomeSet(mailbox.keywords)} \cup
                IF row.there /\ mailbox.version = synced.version THEN {NoSet} ELSE {} :
       reading' = [reading EXCEPT !.stage = "read", !.saw = saw, !.version = mailbox.version]
  /\ UNCHANGED <<mailbox, row, serverSet, edits, synced, second, mishaps, alien>>

ApplyPass ==
  /\ reading.stage = "read"
  /\ IF reading.saw = NoSet THEN UNCHANGED <<row, serverSet>>
                            ELSE Synced(The(reading.saw), reading.since)
  /\ alien' = IF /\ reading.saw # NoSet /\ reading.version = mailbox.version
                 /\ AcceptedSince(edits, reading.since) = {}
                 /\ \A i \in DOMAIN edits : ~(edits[i].state = "InFlight" /\ edits[i].landed)
                THEN {} ELSE alien
  /\ synced' = [version |-> reading.version, since |-> reading.since]
  /\ reading' = NotReading
  /\ UNCHANGED <<mailbox, edits, second, mishaps>>

PassFails ==
  /\ reading.stage # "idle" /\ Mishap
  /\ reading' = NotReading
  /\ UNCHANGED <<mailbox, row, serverSet, edits, synced, second, alien>>

OtherClient(keywords) ==
  /\ Mishap
  /\ keywords # mailbox.keywords
  /\ ServerSets(keywords)
  /\ alien' = alien \cup (keywords \ mailbox.keywords) \cup (mailbox.keywords \ keywords)
  /\ UNCHANGED <<row, serverSet, edits, reading, synced, second>>

Tick ==
  /\ second < MaxSeconds /\ second' = second + 1
  /\ UNCHANGED <<mailbox, row, serverSet, edits, reading, synced, mishaps, alien>>

-------------------------------------------------------------------------------

KeywordInit ==
  /\ mailbox = [keywords |-> {}, version |-> 1]
  /\ row = [there |-> FALSE, keywords |-> {}]
  /\ serverSet = NoSet
  /\ edits = <<>>
  /\ reading = NotReading
  /\ synced = [version |-> 0, since |-> 0]
  /\ second = 1 /\ mishaps = 0 /\ alien = {}

KeywordNext ==
  \/ \E add, remove \in SUBSET Keywords :
       add \cap remove = {} /\ add \cup remove # {} /\ Queue(add, remove)
  \/ \E i \in DOMAIN edits :
       Attempt(i) \/ Lands(i) \/ Record(i) \/ Parked(i) \/ Withdraw(i)
  \/ ClaimRead \/ ReadServer \/ ApplyPass \/ PassFails
  \/ \E keywords \in SUBSET Keywords : OtherClient(keywords)
  \/ Tick

KeywordSpec == KeywordInit /\ [][KeywordNext]_editVars

-------------------------------------------------------------------------------

AsServed(k) == k \in row.keywords <=> k \in Shown(mailbox.keywords, edits, Unsettled(edits))

\* An edit is never undone on the screen: whatever a pass wrote that it had read
\* earlier, a stored message shows the server's keywords with the unsettled edits on
\* top, as long as those edits alone decide the keyword.
EditsNeverUndone == row.there => \A k \in Keywords \ alien : AsServed(k)

\* The same, but for a keyword one of whose edits was accepted in the very second the
\* last pass began.
EditsStayShown ==
  row.there =>
    \A k \in Keywords \ alien :
      \/ AsServed(k)
      \/ \E i \in DOMAIN edits : /\ k \in KeywordsOf(edits[i]) /\ edits[i].state = "Succeeded"
                               /\ edits[i].settledAt = synced.since
===============================================================================
