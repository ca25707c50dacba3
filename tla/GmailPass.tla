------------------------------- MODULE GmailPass ------------------------------
(***************************************************************************)
(* The passes of a Gmail message sync: the history deltas, the paged       *)
(* backfill that resumes from its cursor, the reconciling listing that     *)
(* ends it, and the mailbox, which ages its history and forgets its page   *)
(* tokens.  One pass runs at a time (the lease is MailFolder's) and may    *)
(* stop anywhere.                                                          *)
(*                                                                         *)
(* A history id is how many records the mailbox's log holds, and the       *)
(* version of a message the number of its last record.  A request and the  *)
(* commit of the messages it brought are one action: nothing reads the     *)
(* store between the two, and what the server does meanwhile comes after   *)
(* the history id the pass goes by.  Page tokens are the server's; one it  *)
(* honours goes on below the messages listed so far.                       *)
(***************************************************************************)
EXTENDS Naturals, Sequences, FiniteSets, FiniteSetsExt

CONSTANTS
  MaxMail,         \* bound: how many messages the mailbox ever holds
  FirstMail,       \* how many it starts with
  MaxRecords,      \* bound: how long its history gets
  ListSize,        \* ids a messages.list page holds
  HistorySize,     \* records a history.list page holds
  MaxGmailFaults   \* bound: passes stopped, tokens forgotten

ASSUME GmailPassAssumption ==
  /\ MaxMail \in Nat /\ MaxRecords \in Nat /\ FirstMail \in 0..MaxMail
  /\ ListSize \in Nat \ {0} /\ HistorySize \in Nat \ {0} /\ MaxGmailFaults \in Nat

VARIABLES
  log,          \* the mailbox: every record since it was made
  aged,         \* history ids below this are answered with 404
  tokens,       \* the generation of page tokens honoured
  gmailCursor,  \* the stored cursor
  stored,       \* the version of each message stored, 0 for none
  gmail,        \* the pass
  gmailFaults

gmailVars == <<log, aged, tokens, gmailCursor, stored, gmail, gmailFaults>>

Mail == 1..MaxMail
Records == [msg : Mail, what : {"added", "labels", "deleted"}]

-------------------------------------------------------------------------------
(* The mailbox *)

LastRecord(m) == Max({0} \cup {i \in 1..Len(log) : log[i].msg = m})

Live == {m \in Mail : LastRecord(m) > 0 /\ log[LastRecord(m)].what # "deleted"}

Now(m) == IF m \in Live THEN LastRecord(m) ELSE 0

Arrived == {m \in Mail : LastRecord(m) > 0}

\* A message arrives, is labelled or is deleted.
MailboxMoves ==
  /\ Len(log) < MaxRecords
  /\ \E record \in Records :
       /\ IF record.what = "added" THEN record.msg = Cardinality(Arrived) + 1
                                   ELSE record.msg \in Live
       /\ log' = Append(log, record)
  /\ UNCHANGED <<aged, tokens, gmailCursor, stored, gmail, gmailFaults>>

\* "Gmail has aged the historyId out of its window."
HistoryAges ==
  /\ aged < Len(log) /\ aged' = Len(log)
  /\ UNCHANGED <<log, tokens, gmailCursor, stored, gmail, gmailFaults>>

GmailFault == gmailFaults < MaxGmailFaults /\ gmailFaults' = gmailFaults + 1

TokensForgotten ==
  /\ GmailFault /\ tokens' = tokens + 1
  /\ UNCHANGED <<log, aged, gmailCursor, stored, gmail>>

-------------------------------------------------------------------------------
(* Cursors and passes *)

\* Where a listing goes on: below the messages it has listed.
FirstPage == [below |-> MaxMail + 1, made |-> 0]
Page == [below : 1..(MaxMail + 1), made : Nat]

GmailCursor == [kind : {"none", "Delta", "Backfill", "Reconcile"}, history : Nat, page : Page]

At(kind, history, page) == [kind |-> kind, history |-> history, page |-> page]
NoGmailCursor == At("none", 0, FirstPage)

\* `history`, `from` (caught_up_from) and `page` are the pass's own; `reached` is
\* how far into the history its delta has read.
GmailStages == {"idle", "delta", "caught", "page", "mark", "marklast", "ids"}

GmailIdle == [stage |-> "idle", history |-> 0, from |-> 0, reached |-> 0,
              backfill |-> FALSE, page |-> FirstPage, present |-> {}]

GmailPasses == [stage : GmailStages, history : Nat, from : Nat, reached : Nat,
                backfill : BOOLEAN, page : Page, present : SUBSET Mail]

\* The round of the loop that starts with a delta from `history`.
Round(p) == [p EXCEPT !.stage = "delta", !.from = p.history, !.reached = p.history]

\* stream: what the stored cursor makes of the pass.  A fresh backfill captures
\* the current history id and skips its first delta.
StartPass ==
  LET c == gmailCursor
      p == [GmailIdle EXCEPT !.history = c.history, !.page = c.page,
                             !.backfill = c.kind = "Backfill"]
  IN  /\ gmail.stage = "idle"
      /\ gmail' = CASE c.kind = "none" ->
                         [p EXCEPT !.stage = "page", !.history = Len(log), !.from = Len(log),
                                   !.backfill = TRUE]
                    [] c.kind = "Reconcile" -> [p EXCEPT !.stage = "ids"]
                    [] OTHER -> Round(p)
      /\ UNCHANGED <<log, aged, tokens, gmailCursor, stored, gmailFaults>>

-------------------------------------------------------------------------------
(* The delta *)

\* What a chunk brought is committed over what is stored.
Store(read) ==
  stored' = [m \in Mail |-> IF m \in DOMAIN read THEN read[m] ELSE stored[m]]

\* delta_page and collect_history: deletions win, an added message is fetched whole
\* as it is by now, and a label change is applied to a message that is stored as the
\* record left it.
DeltaPage ==
  LET p == gmail
      upto == Min({p.reached + HistorySize, Len(log)})
      page == (p.reached + 1)..upto
      of(m, what) == {i \in page : log[i].msg = m /\ log[i].what = what}
      removed == {m \in Mail : of(m, "deleted") # {}}
      whole == {m \in Live : of(m, "added") # {}} \ removed
      patched == {m \in Mail : of(m, "labels") # {} /\ of(m, "added") = {} /\ stored[m] > 0}
                   \ removed
      version(m) == IF m \in removed THEN 0
                    ELSE IF m \in whole THEN Now(m) ELSE Max(of(m, "labels"))
  IN  /\ p.stage = "delta" /\ p.history >= aged
      /\ Store([m \in removed \cup whole \cup patched |-> version(m)])
      /\ gmail' = IF upto < Len(log) THEN [p EXCEPT !.reached = upto]
                  ELSE [p EXCEPT !.stage = "caught", !.history = Len(log), !.reached = 0]
      /\ UNCHANGED <<log, aged, tokens, gmailCursor, gmailFaults>>

\* Mutant of Restarted: the backfill goes on from where it was.
RestartedInPlace(p) == [p EXCEPT !.backfill = TRUE]

\* The window is fetched again from the top.
Restarted(p) == [p EXCEPT !.backfill = TRUE, !.page = FirstPage]

\* The history id is too old: only before a page of it was passed on, else the
\* pass fails.
HistoryExpired ==
  LET p == gmail
  IN  /\ p.stage = "delta" /\ p.history < aged
      /\ gmail' = IF p.reached = p.history
                    THEN [Restarted(p) EXCEPT !.stage = "caught", !.history = Len(log),
                                              !.reached = 0]
                    ELSE GmailIdle
      /\ UNCHANGED <<log, aged, tokens, gmailCursor, stored, gmailFaults>>

\* A delta alone ends here; a backfill records the history it has caught up to.
CaughtUp ==
  LET p == gmail
  IN  /\ p.stage = "caught"
      /\ IF p.backfill
           THEN /\ gmail' = [p EXCEPT !.stage = "page"]
                /\ gmailCursor' = IF p.history = p.from THEN gmailCursor
                                  ELSE At("Backfill", p.history, p.page)
           ELSE /\ gmail' = GmailIdle
                /\ gmailCursor' = At("Delta", p.history, FirstPage)
      /\ UNCHANGED <<log, aged, tokens, stored, gmailFaults>>

-------------------------------------------------------------------------------
(* The backfill *)

Honoured(page) == page = FirstPage \/ page.made = tokens

\* The messages a listing holds below a position, and the page of them.
Left(page) == {m \in Live : m < page.below}
Listed(page) == {m \in Left(page) : Cardinality({n \in Left(page) : n > m}) < ListSize}
After(page) == [below |-> Min(Listed(page)), made |-> tokens]

\* A token the server does not recognise may be answered with the first page.
Answered(page) == IF Honoured(page) THEN page ELSE FirstPage

\* listed_page: the page is passed on, and its checkpoint comes after it.
ListPage ==
  LET p == gmail
      page == Answered(p.page)
  IN  /\ p.stage = "page"
      /\ Store([m \in Listed(page) |-> Now(m)])
      /\ gmail' = IF Listed(page) = Left(page) THEN [p EXCEPT !.stage = "marklast"]
                  ELSE [p EXCEPT !.stage = "mark", !.page = After(page)]
      /\ UNCHANGED <<log, aged, tokens, gmailCursor, gmailFaults>>

\* A get fails part way: what came ahead of it is passed on, and the pass fails
\* with its checkpoint before the page.
ListStopped ==
  /\ gmail.stage = "page" /\ GmailFault
  /\ \E ahead \in SUBSET Listed(Answered(gmail.page)) :
       /\ \A m \in ahead, n \in Listed(Answered(gmail.page)) : n > m => n \in ahead
       /\ Store([m \in ahead |-> Now(m)])
  /\ gmail' = GmailIdle
  /\ UNCHANGED <<log, aged, tokens, gmailCursor>>

\* Mutant of AfterRefusal: the refused token is kept.
AfterRefusalKept(p) == Round(p)

AfterRefusal(p) == Round([p EXCEPT !.page = FirstPage])

\* A token the server can no longer read: 400, and the loop goes round.
TokenRefused ==
  /\ gmail.stage = "page" /\ ~Honoured(gmail.page)
  /\ gmail' = AfterRefusal(gmail)
  /\ UNCHANGED <<log, aged, tokens, gmailCursor, stored, gmailFaults>>

\* The checkpoint after a page; the last page's hands over to a reconcile.
Checkpoint ==
  /\ \/ /\ gmail.stage = "mark"
        /\ gmailCursor' = At("Backfill", gmail.history, gmail.page)
        /\ gmail' = Round(gmail)
     \/ /\ gmail.stage = "marklast"
        /\ gmailCursor' = At("Reconcile", gmail.history, FirstPage)
        /\ gmail' = GmailIdle
  /\ UNCHANGED <<log, aged, tokens, stored, gmailFaults>>

-------------------------------------------------------------------------------
(* The reconcile *)

\* One page of ids; the last tombstones what is in none of them.
ListIds ==
  LET p == gmail
      page == Answered(p.page)
      present == p.present \cup Listed(page)
  IN  /\ p.stage = "ids"
      /\ IF Listed(page) # Left(page)
           THEN /\ gmail' = [p EXCEPT !.present = present, !.page = After(page)]
                /\ UNCHANGED <<gmailCursor, stored>>
           ELSE /\ Store([m \in Mail \ present |-> 0])
                /\ gmailCursor' = At("Delta", p.history, FirstPage)
                /\ gmail' = GmailIdle
      /\ UNCHANGED <<log, aged, tokens, gmailFaults>>

\* A request or a commit fails, or the process ends; a refused token ends a reconcile.
PassStops ==
  /\ gmail.stage # "idle"
  /\ \/ GmailFault
     \/ gmail.stage = "ids" /\ ~Honoured(gmail.page) /\ UNCHANGED gmailFaults
  /\ gmail' = GmailIdle
  /\ UNCHANGED <<log, aged, tokens, gmailCursor, stored>>

-------------------------------------------------------------------------------

GmailInit ==
  /\ log = [i \in 1..FirstMail |-> [msg |-> i, what |-> "added"]]
  /\ aged = 0 /\ tokens = 0
  /\ gmailCursor = NoGmailCursor
  /\ stored = [m \in Mail |-> 0]
  /\ gmail = GmailIdle
  /\ gmailFaults = 0

PassStep ==
  \/ StartPass \/ DeltaPage \/ HistoryExpired \/ CaughtUp \/ ListPage \/ TokenRefused
  \/ Checkpoint \/ ListIds

GmailNext ==
  \/ MailboxMoves \/ HistoryAges \/ TokensForgotten
  \/ PassStep \/ ListStopped \/ PassStops

GmailSpec == GmailInit /\ [][GmailNext]_gmailVars

-------------------------------------------------------------------------------
(* What the passes promise *)

\* The messages a cursor vouches for: a backfill's only from its page up.
Vouched(m) ==
  CASE gmailCursor.kind = "none" -> FALSE
    [] gmailCursor.kind = "Backfill" -> m >= gmailCursor.page.below
    [] OTHER -> TRUE

\* Whatever passes stop, pages arrive out of step with the history and history is
\* lost on the way, a message the cursor vouches for is stored as its history id
\* has it, and a synced cursor leaves no message the server had deleted.
GmailCurrent ==
  \A m \in Mail :
    Vouched(m) /\ LastRecord(m) <= gmailCursor.history =>
      \/ stored[m] = Now(m)
      \/ m \notin Live /\ gmailCursor.kind # "Delta"

Settled == gmailCursor.kind = "Delta" /\ \A m \in Mail : stored[m] = Now(m)
===============================================================================
