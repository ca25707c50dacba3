------------------------------ MODULE EventScope ------------------------------
(***************************************************************************)
(* The events of one calendar: the sync passes that fetch them from a      *)
(* CalDAV server, the reconciling pass a calendar write runs, the horizon  *)
(* pass that re-expands what is stored, and the scope they share in the    *)
(* store: events, occurrence rows, cursor, collection tag and window.      *)
(*                                                                         *)
(* Every store call is one transaction and every request one action; the   *)
(* tag and the window are read before the lease is claimed.  The server    *)
(* counts its changes, and the count is at once its sync-token, its CTag   *)
(* and the version of the event it changed; 0 is none of them.             *)
(***************************************************************************)
EXTENDS Naturals

CONSTANTS
  Events,
  Windows,         \* the expansion windows hosts ask for, as positive numbers
  CalWorkers,      \* what may run a pass
  MaxCalChanges,   \* bound: how often the calendar changes
  MaxCalReclaims,  \* MAX_STALE_RECLAIMS
  MaxCalFaults     \* bound: failed requests, deaths, lapsed leases, cleared cursors

NoOne == "no one"

ASSUME EventScopeAssumption ==
  /\ NoOne \notin CalWorkers /\ Windows \subseteq Nat \ {0}
  /\ MaxCalChanges \in Nat \ {0} /\ MaxCalReclaims \in Nat /\ MaxCalFaults \in Nat

VARIABLES
  calendar,  \* the collection on the server
  scope,     \* the scope's row, once known: holder and lease, cursor, tag and window
  events,    \* the version of each event stored, 0 for none
  unread,    \* history: the version of each event last answered without a body that
             \* could be read, 0 when it was read, or gone, the last time
  drawn,     \* the version and the window each event's occurrence rows are of
  calPass,   \* what each worker is doing
  calFaults

calVars == <<calendar, scope, events, unread, drawn, calPass, calFaults>>

Changes == 0..MaxCalChanges

-------------------------------------------------------------------------------
(* The server *)

\* `at` is the count at an event's last change, a removal included; `oldest` the
\* oldest sync-token still honoured.  A calendar may answer sync-collection or not.
Collection == [count : Changes, at : [Events -> Changes], live : SUBSET Events,
               oldest : Changes, reports : BOOLEAN]

Version(e) == IF e \in calendar.live THEN calendar.at[e] ELSE 0

ServerEdits(e) ==
  /\ calendar.count < MaxCalChanges
  /\ \E live \in {calendar.live \cup {e}, calendar.live \ {e}} :
       /\ e \in live \cup calendar.live
       /\ calendar' = [calendar EXCEPT !.count = @ + 1, !.at[e] = calendar.count + 1,
                                       !.live = live]
  /\ UNCHANGED <<scope, events, unread, drawn, calPass, calFaults>>

\* Old sync-tokens are dropped, or sync-collection is no longer answered.
ServerForgets ==
  /\ calendar.reports
  /\ \/ calendar.oldest < calendar.count
        /\ calendar' = [calendar EXCEPT !.oldest = calendar.count]
     \/ calendar' = [calendar EXCEPT !.reports = FALSE]
  /\ UNCHANGED <<scope, events, unread, drawn, calPass, calFaults>>

-------------------------------------------------------------------------------
(* Passes *)

\* A cursor is a sync-token or a CTag.
CalCursor == [kind : {"none", "token", "ctag"}, at : Changes]
NoCalCursor == [kind |-> "none", at |-> 0]

CalStages == {"idle",
              "listed",     \* the calendar list is in; the tag is to be compared
              "resolving",  \* the window is to be read
              "seeding",    \* there was none
              "claiming",
              "claimed",
              "ctagged",    \* has read the CTag; the members come next
              "bodies",     \* has the members; some may lack their body
              "fetched",    \* about to apply
              "widening",   \* a horizon pass about to claim
              "expanded",   \* ... about to apply
              "recording"}  \* ... about to record its window

\* `changed` and `present` are what a fetch names, `read` the versions it answered
\* (of every event stored, for a horizon pass), `skipped` those of them it answered
\* with no body, or with one that does not parse.
CalPass == [stage : CalStages, tag : Changes, seed : Windows \cup {0},
            window : Windows \cup {0}, prior : CalCursor, next : CalCursor,
            whole : BOOLEAN, changed : SUBSET Events, skipped : SUBSET Events,
            read : [Events -> Changes], reclaims : 0..MaxCalReclaims]

None == [e \in Events |-> 0]

CalIdle == [stage |-> "idle", tag |-> 0, seed |-> 0, window |-> 0,
            prior |-> NoCalCursor, next |-> NoCalCursor, whole |-> FALSE,
            changed |-> {}, skipped |-> {}, read |-> None, reclaims |-> 0]

In(w, stage) == calPass[w].stage = stage
CalSteps(w, p) == calPass' = [calPass EXCEPT ![w] = p]
CalFault == calFaults < MaxCalFaults /\ calFaults' = calFaults + 1

\* `release_sync_scope`: only the current token clears the lease.
Freed(w) == IF scope.holder = w THEN [scope EXCEPT !.live = FALSE] ELSE scope

-------------------------------------------------------------------------------
(* sync_calendar, sync_group and reconcile_calendar_events, up to the claim *)

\* The calendar list with its tags, if the server has them; then the window to
\* seed with, the account's own before the host's.
ListCalendars(w) ==
  /\ In(w, "idle")
  /\ \E tag \in {0, calendar.count}, window \in Windows :
       CalSteps(w, [CalIdle EXCEPT !.stage = "listed", !.tag = tag,
                      !.seed = IF scope.window > 0 THEN scope.window ELSE window])
  /\ UNCHANGED <<calendar, scope, events, unread, drawn, calFaults>>

\* A calendar whose tag is the recorded one is not fetched.
CompareTag(w) ==
  LET p == calPass[w]
  IN  /\ In(w, "listed")
      /\ CalSteps(w, IF p.tag > 0 /\ scope.tag = p.tag THEN CalIdle
                     ELSE [p EXCEPT !.stage = "resolving"])
      /\ UNCHANGED <<calendar, scope, events, unread, drawn, calFaults>>

ResolveWindow(w) ==
  LET p == calPass[w]
  IN  /\ In(w, "resolving")
      /\ CalSteps(w, IF scope.window > 0
                       THEN [p EXCEPT !.stage = "claiming", !.window = scope.window, !.seed = 0]
                       ELSE [p EXCEPT !.stage = "seeding", !.window = p.seed, !.seed = 0])
      /\ UNCHANGED <<calendar, scope, events, unread, drawn, calFaults>>

\* seed_window: a claim of its own, given back at once.
SeedWindow(w) ==
  LET p == calPass[w]
  IN  /\ In(w, "seeding")
      /\ \/ /\ ~scope.live
            /\ scope' = [scope EXCEPT !.known = TRUE, !.holder = w, !.window = p.window]
            /\ CalSteps(w, [p EXCEPT !.stage = "claiming"])
         \/ scope.live /\ CalSteps(w, CalIdle) /\ UNCHANGED scope
      /\ UNCHANGED <<calendar, events, unread, drawn, calFaults>>

\* A calendar write is reconciled: no listing, so no tag.
Reconcile(w) ==
  /\ In(w, "idle") /\ scope.window > 0
  /\ CalSteps(w, [CalIdle EXCEPT !.stage = "claiming", !.window = scope.window])
  /\ UNCHANGED <<calendar, scope, events, unread, drawn, calFaults>>

\* run_scope claims, or ends because the scope is held.
ClaimScope(w) ==
  LET p == calPass[w]
  IN  /\ In(w, "claiming")
      /\ \/ /\ ~scope.live
            /\ scope' = [scope EXCEPT !.holder = w, !.live = TRUE]
            /\ CalSteps(w, [p EXCEPT !.stage = "claimed", !.prior = scope.cursor])
         \/ scope.live /\ CalSteps(w, CalIdle) /\ UNCHANGED scope
      /\ UNCHANGED <<calendar, events, unread, drawn, calFaults>>

-------------------------------------------------------------------------------
(* sync_events *)

\* A CTag cursor stays one.  A token too old, or none, brings the whole collection.
ReportCollection(w) ==
  LET p == calPass[w]
      whole == p.prior.kind = "none" \/ p.prior.at < calendar.oldest
      changed == {e \in Events : IF whole THEN e \in calendar.live
                                          ELSE calendar.at[e] > p.prior.at}
  IN  /\ In(w, "claimed") /\ p.prior.kind # "ctag" /\ calendar.reports
      /\ CalSteps(w, [p EXCEPT !.stage = "bodies", !.whole = whole, !.changed = changed,
                        !.read = [e \in Events |-> IF e \in changed THEN Version(e) ELSE 0],
                        !.next = [kind |-> "token", at |-> calendar.count]])
      /\ UNCHANGED <<calendar, scope, events, unread, drawn, calFaults>>

\* by_ctag: nothing is read while the CTag stands still.
ReadCtag(w) ==
  LET p == calPass[w]
      next == [kind |-> "ctag", at |-> calendar.count]
  IN  /\ In(w, "claimed") /\ (p.prior.kind = "ctag" \/ ~calendar.reports)
      /\ CalSteps(w, [p EXCEPT !.stage = IF p.prior = next THEN "fetched" ELSE "ctagged",
                               !.next = next])
      /\ UNCHANGED <<calendar, scope, events, unread, drawn, calFaults>>

ListMembers(w) ==
  LET p == calPass[w]
  IN  /\ In(w, "ctagged")
      /\ CalSteps(w, [p EXCEPT !.stage = "bodies", !.whole = TRUE,
                        !.changed = calendar.live,
                        !.read = [e \in Events |-> Version(e)]])
      /\ UNCHANGED <<calendar, scope, events, unread, drawn, calFaults>>

\* Mutant of NextOf: the token or CTag is asked for once the bodies are in.
NextOfBodies(p) == [p.next EXCEPT !.at = calendar.count]

\* The next cursor is of the moment before any member was read.
NextOf(p) == p.next

\* fill_bodies: what came without a body is fetched again, as it is by now; one
\* gone meanwhile becomes a removal, one that still has no body stays as it came.
\* build_update passes over what has no body, or one it cannot parse.
FillBodies(w) ==
  LET p == calPass[w]
      listed == {e \in p.changed : p.read[e] > 0}
  IN  /\ In(w, "bodies")
      /\ \E missing \in {{}, listed}, skipped \in SUBSET listed :
           CalSteps(w, [p EXCEPT !.stage = "fetched", !.next = NextOf(p),
                          !.skipped = skipped,
                          !.read = [e \in Events |-> IF e \in missing THEN Version(e)
                                                                     ELSE p.read[e]]])
      /\ UNCHANGED <<calendar, scope, events, unread, drawn, calFaults>>

-------------------------------------------------------------------------------
(* apply_sync_update *)

\* The events and, with each, its occurrence rows over the pass's window; what
\* is gone takes its rows with it, and what was skipped is present, and kept.
Touched(p) == IF p.whole THEN Events ELSE p.changed

NotDrawn == [ver |-> 0, window |-> 0]

\* Mutant of TagOf: the tag that stands when the pass commits is recorded.
TagOfCommit(p) == IF p.tag > 0 THEN calendar.count ELSE 0

\* The tag the listing showed before the fetch; none clears it.
TagOf(p) == p.tag

ApplyEvents(w) ==
  LET p == calPass[w]
  IN  /\ In(w, "fetched") /\ scope.holder = w
      /\ events' = [e \in Events |-> IF e \in Touched(p) \ p.skipped THEN p.read[e]
                                     ELSE events[e]]
      /\ drawn' = [e \in Events |->
                     IF e \notin Touched(p) \ p.skipped THEN drawn[e]
                     ELSE IF p.read[e] = 0 THEN NotDrawn
                     ELSE [ver |-> p.read[e], window |-> p.window]]
      /\ unread' = [e \in Events |-> IF e \notin Touched(p) THEN unread[e]
                                     ELSE IF e \in p.skipped THEN p.read[e] ELSE 0]
      /\ scope' = [scope EXCEPT !.live = FALSE, !.cursor = p.next, !.tag = TagOf(p)]
      /\ CalSteps(w, CalIdle)
      /\ UNCHANGED <<calendar, calFaults>>

\* Refused as stale: the pass claims again, with the window and the tag it had.
RefusedEvents(w) ==
  LET p == calPass[w]
  IN  /\ In(w, "fetched") /\ scope.holder # w
      /\ CalSteps(w, IF p.reclaims < MaxCalReclaims
                       THEN [CalIdle EXCEPT !.stage = "claiming", !.tag = p.tag,
                               !.window = p.window, !.reclaims = p.reclaims + 1]
                       ELSE CalIdle)
      /\ UNCHANGED <<calendar, scope, events, unread, drawn, calFaults>>

-------------------------------------------------------------------------------
(* expand_calendar_horizon *)

\* Of the scopes the store knows, one expanded over exactly this window is skipped,
\* without a claim.
Widen(w, window) ==
  /\ In(w, "idle") /\ scope.known /\ scope.window # window
  /\ CalSteps(w, [CalIdle EXCEPT !.stage = "widening", !.window = window])
  /\ UNCHANGED <<calendar, scope, events, unread, drawn, calFaults>>

\* Claims, then expands every event stored; nobody else's write goes unnoticed
\* between the claim and the apply.
ExpandStored(w) ==
  LET p == calPass[w]
  IN  /\ In(w, "widening")
      /\ \/ /\ ~scope.live
            /\ scope' = [scope EXCEPT !.holder = w, !.live = TRUE]
            /\ CalSteps(w, [p EXCEPT !.stage = "expanded", !.read = events])
         \/ scope.live /\ CalSteps(w, CalIdle) /\ UNCHANGED scope
      /\ UNCHANGED <<calendar, events, unread, drawn, calFaults>>

\* Mutant of MaintenanceHolds: apply_maintenance does not check the token.
MaintenanceHoldsAlways(w) == TRUE

MaintenanceHolds(w) == scope.holder = w

\* apply_maintenance: the occurrence rows of every event read.
ApplyMaintenance(w) ==
  LET p == calPass[w]
  IN  /\ In(w, "expanded")
      /\ \/ /\ MaintenanceHolds(w)
            /\ drawn' = [e \in Events |-> IF p.read[e] = 0 THEN drawn[e]
                                          ELSE [ver |-> p.read[e], window |-> p.window]]
            /\ CalSteps(w, [p EXCEPT !.stage = "recording", !.read = None])
         \/ ~MaintenanceHolds(w) /\ CalSteps(w, CalIdle) /\ UNCHANGED drawn
      /\ UNCHANGED <<calendar, scope, events, unread, calFaults>>

\* set_expansion_window, a transaction of its own.
RecordWindow(w) ==
  /\ In(w, "recording")
  /\ scope' = IF scope.holder = w
                THEN [scope EXCEPT !.window = calPass[w].window, !.live = FALSE]
                ELSE scope
  /\ CalSteps(w, CalIdle)
  /\ UNCHANGED <<calendar, events, unread, drawn, calFaults>>

-------------------------------------------------------------------------------
(* What goes wrong *)

CalFetching == {"claimed", "ctagged", "bodies", "fetched"}

\* A request fails, or the store does: the lease is given back.
CalFails(w) ==
  /\ calPass[w].stage \in CalFetching \cup {"expanded", "recording"}
  /\ CalFault
  /\ scope' = Freed(w)
  /\ CalSteps(w, CalIdle)
  /\ UNCHANGED <<calendar, events, unread, drawn>>

\* The process ends, or a stored event cannot be read: the lease stays.
CalDies(w) ==
  /\ ~In(w, "idle") /\ CalFault
  /\ CalSteps(w, CalIdle)
  /\ UNCHANGED <<calendar, scope, events, unread, drawn>>

\* The lease runs out.  Nothing renews it while its pass is held up.
CalLeaseLapses ==
  /\ scope.live
  /\ IF \E w \in CalWorkers : scope.holder = w /\ ~In(w, "idle")
       THEN CalFault ELSE UNCHANGED calFaults
  /\ scope' = [scope EXCEPT !.live = FALSE]
  /\ UNCHANGED <<calendar, events, unread, drawn, calPass>>

\* The cursor is cleared, and with it the tag; the token moves.
ClearCalCursor ==
  /\ CalFault
  /\ scope' = [scope EXCEPT !.holder = NoOne, !.live = FALSE,
                            !.cursor = NoCalCursor, !.tag = 0]
  /\ UNCHANGED <<calendar, events, unread, drawn, calPass>>

\* forget_scope: the calendar left the list.
ForgetCalendar ==
  /\ ~scope.live /\ CalFault
  /\ scope' = [scope EXCEPT !.holder = NoOne, !.cursor = NoCalCursor, !.tag = 0,
                            !.window = 0]
  /\ events' = None /\ unread' = None /\ drawn' = [e \in Events |-> NotDrawn]
  /\ UNCHANGED <<calendar, calPass>>

-------------------------------------------------------------------------------

CalInit ==
  /\ \E e \in Events :
       calendar = [count |-> 1, at |-> [None EXCEPT ![e] = 1], live |-> {e},
                   oldest |-> 0, reports |-> TRUE]
  /\ scope = [known |-> FALSE, holder |-> NoOne, live |-> FALSE, cursor |-> NoCalCursor,
              tag |-> 0, window |-> 0]
  /\ events = None /\ unread = None /\ drawn = [e \in Events |-> NotDrawn]
  /\ calPass = [w \in CalWorkers |-> CalIdle]
  /\ calFaults = 0

CalNext ==
  \/ \E e \in Events : ServerEdits(e)
  \/ ServerForgets \/ CalLeaseLapses \/ ClearCalCursor \/ ForgetCalendar
  \/ \E w \in CalWorkers :
       \/ ListCalendars(w) \/ CompareTag(w) \/ ResolveWindow(w) \/ SeedWindow(w)
       \/ Reconcile(w) \/ ClaimScope(w) \/ ReportCollection(w) \/ ReadCtag(w)
       \/ ListMembers(w) \/ FillBodies(w) \/ ApplyEvents(w) \/ RefusedEvents(w)
       \/ ExpandStored(w) \/ ApplyMaintenance(w) \/ RecordWindow(w)
       \/ CalFails(w) \/ CalDies(w)
       \/ \E window \in Windows : Widen(w, window)

CalSpec == CalInit /\ [][CalNext]_calVars

-------------------------------------------------------------------------------
(* What the calendar promises *)

\* What the server last answered for an event: the version stored, or one it gave no
\* body for that could be read.
LastAnswer(e) == IF unread[e] > 0 THEN unread[e] ELSE events[e]

\* A change the stored cursor covers is stored, or came without a body that could be
\* read: no pass, overtaken, replayed or reading bodies late, moves the cursor past a
\* change it was not answered (the cursor as apply_sync_update keeps it, sync.rs and
\* ctag_sync.rs).
CursorMeansRead ==
  \A e \in Events :
    calendar.at[e] <= scope.cursor.at => LastAnswer(e) = Version(e)

\* A calendar that sync_group skips as unchanged is stored as the server has it, but
\* for events whose present version came without a readable body, although the tag was
\* listed long before the fetch it is recorded with.
TagSkipsNothing ==
  scope.tag > 0 /\ scope.tag = calendar.count =>
    \A e \in Events : LastAnswer(e) = Version(e)

\* The occurrence rows are of the version of the event stored, and of nothing
\* removed: a horizon pass that expanded older events does not write them over
\* what a sync committed since.
OccurrencesFollowEvents == \A e \in Events : drawn[e].ver = events[e]

\* No horizon pass is between its two transactions.
NotRecording == \A w \in CalWorkers : ~In(w, "recording")

\* "It expands over the window the store already holds": the rows of every stored
\* event are those of the recorded window.
RowsCoverWindow ==
  NotRecording =>
    \A e \in Events : events[e] > 0 => drawn[e].window = scope.window
===============================================================================
