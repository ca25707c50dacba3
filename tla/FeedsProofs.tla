----------------------------- MODULE FeedsProofs -----------------------------
(* What holds of the passes and sweeps of the store beside mail. *)
EXTENDS EventScope, BlobSweep, PeopleIndex, KeywordEdits, JmapWalkProofs

-------------------------------------------------------------------------------
(***************************************************************************)
(* The cursor, the tag and the occurrence rows of a calendar scope, for    *)
(* any events, windows, workers and bounds.  A pass reads the server over  *)
(* several requests and commits under its token; the invariant says what   *)
(* its next cursor covers while it reads, and that whoever holds the token *)
(* still has the cursor, or the events, it started from.                   *)
(***************************************************************************)

ScopeRow == [known : BOOLEAN, holder : CalWorkers \cup {NoOne}, live : BOOLEAN,
             cursor : CalCursor, tag : Changes, window : Windows \cup {0}]

CalTypeOK ==
  /\ calendar \in Collection
  /\ scope \in ScopeRow
  /\ events \in [Events -> Changes] /\ unread \in [Events -> Changes]
  /\ drawn \in [Events -> [ver : Changes, window : Windows \cup {0}]]
  /\ calPass \in [CalWorkers -> CalPass]

\* Nothing is known of the server's future, and a recorded tag is no newer than
\* the cursor beside it.
InThePast ==
  /\ \A e \in Events : calendar.at[e] <= calendar.count
  /\ \A e \in Events : calendar.at[e] = 0 => e \notin calendar.live
  /\ scope.cursor.at <= calendar.count
  /\ scope.tag <= scope.cursor.at

\* What pass `p` would commit as its next cursor covers what it was answered; what it
\* skipped of that is there, so its version is no 0.
CoversReads(p) ==
  \A e \in Events :
    calendar.at[e] <= p.next.at =>
      IF e \in Touched(p) THEN p.read[e] = Version(e) /\ (e \in p.skipped => p.read[e] > 0)
                          ELSE calendar.at[e] <= p.prior.at

\* Where the pass of worker `w` stands.
PassSound(w) ==
  LET p == calPass[w]
  IN  /\ p.tag <= calendar.count
      /\ p.stage \notin {"bodies", "fetched"} => p.whole = FALSE /\ p.changed = {}
                                                  /\ p.skipped = {}
      /\ p.stage = "bodies" => p.skipped = {}
      /\ p.stage \in {"ctagged", "bodies", "fetched"} =>
           p.next.at <= calendar.count /\ p.tag <= p.next.at
      /\ p.stage \in {"bodies", "fetched"} => CoversReads(p)
      /\ p.stage \in CalFetching /\ scope.holder = w => p.prior.at = scope.cursor.at
      /\ p.stage = "expanded" /\ scope.holder = w => p.read = events

CalInv ==
  /\ CalTypeOK /\ InThePast /\ CursorMeansRead /\ OccurrencesFollowEvents
  /\ \A w \in CalWorkers : PassSound(w)

\* An idle pass, whatever it tagged, is well typed.
LEMMA IdleTyped == CalIdle \in CalPass
BY EventScopeAssumption DEF CalIdle, CalPass, CalStages, NoCalCursor, CalCursor, Changes, None

\* The scope starts empty, beside one event on the server.
LEMMA CalInvInit == CalInit => CalInv
<1> SUFFICES ASSUME CalInit PROVE CalInv
  OBVIOUS
<1>1. PICK e \in Events :
        calendar = [count |-> 1, at |-> [None EXCEPT ![e] = 1], live |-> {e},
                    oldest |-> 0, reports |-> TRUE]
  BY DEF CalInit
<1>2. /\ calendar.count = 1 /\ calendar.live = {e}
      /\ \A f \in Events : calendar.at[f] = IF f = e THEN 1 ELSE 0
  BY <1>1 DEF None
<1>3. CalTypeOK
  <2>1. calendar \in Collection
    BY <1>1, EventScopeAssumption DEF Collection, Changes, None
  <2> QED
    BY <2>1, IdleTyped, EventScopeAssumption
       DEF CalInit, CalTypeOK, ScopeRow, NoCalCursor, CalCursor, Changes, None, NotDrawn
<1>4. InThePast /\ CursorMeansRead /\ OccurrencesFollowEvents
  BY <1>2 DEF CalInit, InThePast, CursorMeansRead, LastAnswer, OccurrencesFollowEvents, NoCalCursor, None,
              NotDrawn, Version
<1>5. \A w \in CalWorkers : PassSound(w)
  BY <1>2 DEF CalInit, CalIdle, PassSound, CalFetching
<1> QED
  BY <1>3, <1>4, <1>5 DEF CalInv

\* A worker's step leaves the passes of the others as sound as they were, if the
\* server stands still and whoever keeps the token finds cursor and events in place.
LEMMA OthersSound ==
  ASSUME CalInv, NEW w \in CalWorkers, NEW p, CalSteps(w, p), UNCHANGED calendar,
         \A v \in CalWorkers \ {w} :
           scope'.holder = v => /\ scope.holder = v /\ events' = events
                                /\ scope'.cursor.at = scope.cursor.at
  PROVE  \A v \in CalWorkers \ {w} : PassSound(v)'
<1> TAKE v \in CalWorkers \ {w}
<1>1. calPass'[v] = calPass[v]
  BY DEF CalInv, CalTypeOK, CalSteps
<1>2. PassSound(v)
  BY DEF CalInv
<1> QED
  BY <1>1, <1>2 DEF PassSound, CoversReads, Touched, Version

\* A step that changes nothing but the worker's own pass.
LEMMA QuietStep ==
  ASSUME CalInv, NEW w \in CalWorkers, NEW p \in CalPass, CalSteps(w, p),
         UNCHANGED <<calendar, scope, events, unread, drawn>>, PassSound(w)'
  PROVE  CalInv'
<1>1. \A v \in CalWorkers \ {w} : PassSound(v)'
  BY OthersSound
<1>2. CalTypeOK'
  BY DEF CalInv, CalTypeOK, CalSteps
<1>3. InThePast' /\ CursorMeansRead' /\ OccurrencesFollowEvents'
  BY DEF CalInv, InThePast, CursorMeansRead, LastAnswer, OccurrencesFollowEvents, Version
<1> QED
  BY <1>1, <1>2, <1>3 DEF CalInv

\* A pass that is not reading, and holds no older tag, is sound anyway.
LEMMA RestingSound ==
  ASSUME CalInv, NEW w \in CalWorkers, NEW p \in CalPass, CalSteps(w, p), UNCHANGED calendar,
         p.tag <= calendar.count, p.whole = FALSE, p.changed = {} /\ p.skipped = {},
         p.stage \notin CalFetching \cup {"expanded"}
  PROVE  PassSound(w)'
<1>1. calPass'[w] = p
  BY DEF CalInv, CalTypeOK, CalSteps
<1> QED
  BY <1>1 DEF PassSound, CalFetching

\* The steps up to the claim, and those that end a pass early.
LEMMA BeforeClaim ==
  ASSUME CalInv, NEW w \in CalWorkers,
         \/ ListCalendars(w) \/ CompareTag(w) \/ ResolveWindow(w) \/ Reconcile(w)
         \/ RefusedEvents(w) \/ CalDies(w) \/ \E window \in Windows : Widen(w, window)
  PROVE  CalInv'
<1> DEFINE p == calPass[w]
<1>1. p \in CalPass /\ p.tag <= calendar.count /\ scope.window \in Windows \cup {0}
      /\ calendar.count \in Changes
  BY DEF CalInv, CalTypeOK, ScopeRow, PassSound, Collection
<1>2. /\ CalIdle \in CalPass /\ CalIdle.tag = 0 /\ CalIdle.stage = "idle"
      /\ CalIdle.whole = FALSE /\ CalIdle.changed = {} /\ CalIdle.skipped = {} /\ 0 <= calendar.count
  BY <1>1, IdleTyped, EventScopeAssumption DEF CalIdle, Changes
<1> SUFFICES \E q \in CalPass :
               /\ CalSteps(w, q) /\ q.tag <= calendar.count /\ q.whole = FALSE /\ q.changed = {} /\ q.skipped = {}
               /\ q.stage \notin CalFetching \cup {"expanded"}
               /\ UNCHANGED <<calendar, scope, events, unread, drawn>>
  BY RestingSound, QuietStep
<1>10. p.stage \notin {"bodies", "fetched"} => p.whole = FALSE /\ p.changed = {} /\ p.skipped = {}
  BY DEF CalInv, PassSound
<1>3. CASE ListCalendars(w)
  <2>1. PICK tag \in {0, calendar.count}, window \in Windows :
          CalSteps(w, [CalIdle EXCEPT !.stage = "listed", !.tag = tag,
                         !.seed = IF scope.window > 0 THEN scope.window ELSE window])
    BY <1>3 DEF ListCalendars
  <2> DEFINE seed == IF scope.window > 0 THEN scope.window ELSE window
             q == [CalIdle EXCEPT !.stage = "listed", !.tag = tag, !.seed = seed]
  <2>4. seed \in Windows \cup {0} /\ tag \in Changes
    BY <1>1, EventScopeAssumption DEF Changes
  <2> HIDE DEF seed
  <2>5. q \in CalPass
    BY <1>2, <2>4 DEF CalPass, CalStages
  <2>2. /\ q \in CalPass /\ q.stage = "listed" /\ q.tag = tag /\ q.whole = FALSE
        /\ q.changed = {} /\ q.skipped = {}
    BY <1>2, <2>5 DEF CalPass
  <2>3. tag <= calendar.count
    BY <1>1, EventScopeAssumption DEF Changes
  <2> QED
    BY <1>3, <2>1, <2>2, <2>3 DEF ListCalendars, CalFetching, seed
<1>4. CASE CompareTag(w)
  <2> DEFINE q == [p EXCEPT !.stage = "resolving"]
  <2>1. q \in CalPass /\ q.stage = "resolving" /\ q.tag = p.tag /\ q.whole = FALSE
        /\ q.changed = {} /\ q.skipped = {}
    BY <1>1, <1>4, <1>10 DEF CalPass, CalStages, CompareTag, In
  <2>2. CalSteps(w, CalIdle) \/ CalSteps(w, q)
    BY <1>4 DEF CompareTag
  <2> QED
    BY <1>1, <1>2, <1>4, <2>1, <2>2 DEF CompareTag, CalFetching
<1>5. CASE ResolveWindow(w)
  <2> DEFINE q == [p EXCEPT !.stage = "claiming", !.window = scope.window, !.seed = 0]
             r == [p EXCEPT !.stage = "seeding", !.window = p.seed, !.seed = 0]
  <2>1. /\ q \in CalPass /\ q.stage = "claiming" /\ q.tag = p.tag
        /\ r \in CalPass /\ r.stage = "seeding" /\ r.tag = p.tag
        /\ q.whole = FALSE /\ q.changed = {} /\ q.skipped = {} /\ r.whole = FALSE /\ r.changed = {} /\ r.skipped = {}
    BY <1>1, <1>5, <1>10 DEF CalPass, CalStages, ResolveWindow, In
  <2>2. CalSteps(w, q) \/ CalSteps(w, r)
    BY <1>5 DEF ResolveWindow
  <2> QED
    BY <1>1, <1>5, <2>1, <2>2 DEF ResolveWindow, CalFetching
<1>6. CASE Reconcile(w)
  <2> DEFINE q == [CalIdle EXCEPT !.stage = "claiming", !.window = scope.window]
  <2>1. q \in CalPass /\ q.stage = "claiming" /\ q.tag = 0 /\ q.whole = FALSE
        /\ q.changed = {} /\ q.skipped = {}
    BY <1>1, <1>2 DEF CalPass, CalStages
  <2> QED
    BY <1>2, <1>6, <2>1 DEF Reconcile, CalFetching
<1>7. CASE RefusedEvents(w)
  <2> DEFINE q == [CalIdle EXCEPT !.stage = "claiming", !.tag = p.tag,
                     !.window = p.window, !.reclaims = p.reclaims + 1]
  <2>1. CASE p.reclaims < MaxCalReclaims
    <3> DEFINE again == p.reclaims + 1
    <3>1. again \in 0..MaxCalReclaims
      BY <1>1, <2>1, EventScopeAssumption DEF CalPass
    <3>2. p.tag \in Changes /\ p.window \in Windows \cup {0}
      BY <1>1 DEF CalPass
    <3> HIDE DEF again
    <3>3. [CalIdle EXCEPT !.stage = "claiming", !.tag = p.tag,
             !.window = p.window, !.reclaims = again] \in CalPass
      BY <1>2, <3>1, <3>2 DEF CalPass, CalStages
    <3>4. q \in CalPass
      BY <3>3 DEF again
    <3>5. q.stage = "claiming" /\ q.tag = p.tag /\ q.whole = FALSE /\ q.changed = {} /\ q.skipped = {}
      BY <1>2 DEF CalPass
    <3> QED
      BY <1>1, <1>7, <2>1, <3>4, <3>5 DEF RefusedEvents, CalFetching
  <2>2. CASE ~(p.reclaims < MaxCalReclaims)
    BY <1>2, <1>7, <2>2 DEF RefusedEvents, CalFetching
  <2> QED
    BY <2>1, <2>2
<1>8. CASE CalDies(w)
  BY <1>2, <1>8 DEF CalDies, CalFetching
<1>9. CASE \E window \in Windows : Widen(w, window)
  <2>1. PICK window \in Windows : Widen(w, window)
    BY <1>9
  <2> DEFINE q == [CalIdle EXCEPT !.stage = "widening", !.window = window]
  <2>2. q \in CalPass /\ q.stage = "widening" /\ q.tag = 0 /\ q.whole = FALSE
        /\ q.changed = {} /\ q.skipped = {}
    BY <1>2 DEF CalPass, CalStages
  <2> QED
    BY <1>2, <2>1, <2>2 DEF Widen, CalFetching
<1> QED
  BY <1>3, <1>4, <1>5, <1>6, <1>7, <1>8, <1>9

\* What a pass that has read covers is a fact of its fields alone: it stays sound
\* when its stage is all that moves.
LEMMA ReadingSound ==
  ASSUME CalInv, NEW w \in CalWorkers, NEW q \in CalPass, CalSteps(w, q),
         UNCHANGED <<calendar, scope, events, unread, drawn>>,
         calPass[w].stage \in CalFetching,
         q.stage \in {"ctagged", "bodies", "fetched"},
         q.tag = calPass[w].tag, q.prior = calPass[w].prior,
         q.next.at <= calendar.count, q.tag <= q.next.at,
         q.stage \in {"bodies", "fetched"} => CoversReads(q),
         q.stage = "ctagged" => q.whole = FALSE /\ q.changed = {} /\ q.skipped = {},
         q.stage = "bodies" => q.skipped = {}
  PROVE  CalInv'
<1>1. calPass'[w] = q
  BY DEF CalInv, CalTypeOK, CalSteps
<1>2. PassSound(w)
  BY DEF CalInv
<1>3. CoversReads(q)' <=> CoversReads(q)
  BY DEF CoversReads, Touched, Version
<1>4. PassSound(w)'
  BY <1>1, <1>2, <1>3 DEF PassSound, CoversReads, Touched, Version, CalFetching
<1> QED
  BY <1>4, QuietStep

\* The REPORT, the CTag, the listing and the bodies.
LEMMA WhileReading ==
  ASSUME CalInv, NEW w \in CalWorkers,
         ReportCollection(w) \/ ReadCtag(w) \/ ListMembers(w) \/ FillBodies(w)
  PROVE  CalInv'
<1> DEFINE p == calPass[w]
<1>1. /\ p \in CalPass /\ p.tag <= calendar.count /\ p.tag \in Nat /\ p.prior \in CalCursor
      /\ p.prior.at \in Nat /\ calendar.count \in Changes /\ calendar.count \in Nat
      /\ calendar.live \subseteq Events /\ calendar.at \in [Events -> Changes]
      /\ \A e \in Events : Version(e) \in Changes /\ calendar.at[e] \in Nat
      /\ 0 \in Changes
  BY EventScopeAssumption
     DEF CalInv, CalTypeOK, PassSound, Collection, CalPass, CalCursor, Changes, Version
<1>2. PassSound(w) /\ InThePast
  BY DEF CalInv
<1>3. CASE ReportCollection(w)
  <2> DEFINE whole == p.prior.kind = "none" \/ p.prior.at < calendar.oldest
             changed == {e \in Events : IF whole THEN e \in calendar.live
                                                 ELSE calendar.at[e] > p.prior.at}
             read == [e \in Events |-> IF e \in changed THEN Version(e) ELSE 0]
             next == [kind |-> "token", at |-> calendar.count]
             q == [p EXCEPT !.stage = "bodies", !.whole = whole, !.changed = changed,
                            !.read = read, !.next = next]
  <2>1. CalSteps(w, q) /\ UNCHANGED <<calendar, scope, events, unread, drawn>> /\ p.stage = "claimed"
    BY <1>3 DEF ReportCollection, In
  <2>2. whole \in BOOLEAN /\ changed \subseteq Events /\ read \in [Events -> Changes]
        /\ next \in CalCursor /\ next.at = calendar.count
    BY <1>1 DEF CalCursor
  <2>3. \A e \in Events : IF e \in (IF whole THEN Events ELSE changed)
                          THEN read[e] = Version(e) ELSE calendar.at[e] <= p.prior.at
    <3>1. CASE whole
      <4>1. changed = {e \in Events : e \in calendar.live}
        BY <3>1
      <4>2. \A e \in Events : read[e] = Version(e)
        BY <4>1 DEF Version
      <4> QED
        BY <3>1, <4>2
    <3>2. CASE ~whole
      <4>1. changed = {e \in Events : calendar.at[e] > p.prior.at}
        BY <3>2
      <4>2. \A e \in changed : read[e] = Version(e)
        OBVIOUS
      <4> HIDE DEF whole, changed, read
      <4>3. ASSUME NEW e \in Events \ changed PROVE calendar.at[e] <= p.prior.at
        <5>1. ~(calendar.at[e] > p.prior.at)
          BY <4>1, Zenon
        <5>2. calendar.at[e] \in Nat /\ p.prior.at \in Nat
          BY <1>1
        <5> QED
          BY <5>1, <5>2
      <4> QED
        BY <3>2, <4>2, <4>3
    <3> QED
      BY <3>1, <3>2
  <2> HIDE DEF whole, changed, read, next
  <2>4. q \in CalPass
    BY <1>1, <2>2 DEF CalPass, CalStages
  <2>5. /\ q.stage = "bodies" /\ q.tag = p.tag /\ q.prior = p.prior /\ q.next = next
        /\ q.whole = whole /\ q.changed = changed /\ q.read = read /\ q.skipped = p.skipped
        /\ p.skipped = {}
    BY <1>1, <1>2, <2>1 DEF CalPass, PassSound
  <2>6. CoversReads(q)
    BY <2>3, <2>5 DEF CoversReads, Touched
  <2>7. q.next.at <= calendar.count /\ q.tag <= q.next.at /\ p.stage \in CalFetching
    BY <1>1, <2>1, <2>2, <2>5 DEF CalFetching
  <2> HIDE DEF q
  <2> QED
    BY <2>1, <2>4, <2>5, <2>6, <2>7, ReadingSound
<1>4. CASE ReadCtag(w)
  <2> DEFINE next == [kind |-> "ctag", at |-> calendar.count]
             stage == IF p.prior = next THEN "fetched" ELSE "ctagged"
             q == [p EXCEPT !.stage = stage, !.next = next]
  <2>1. CalSteps(w, q) /\ UNCHANGED <<calendar, scope, events, unread, drawn>> /\ p.stage = "claimed"
    BY <1>4 DEF ReadCtag, In
  <2>2. /\ next \in CalCursor /\ next.at = calendar.count
        /\ stage \in {"fetched", "ctagged"} /\ (stage = "fetched" => p.prior.at = calendar.count)
    BY <1>1 DEF CalCursor
  <2> HIDE DEF next, stage
  <2>3. q \in CalPass
    BY <1>1, <2>2 DEF CalPass, CalStages
  <2>4. /\ q.stage = stage /\ q.tag = p.tag /\ q.prior = p.prior /\ q.next = next
        /\ q.whole = p.whole /\ q.changed = p.changed /\ q.skipped = p.skipped
    BY <1>1 DEF CalPass
  <2>5. p.whole = FALSE /\ p.changed = {} /\ p.skipped = {}
    BY <1>2, <2>1 DEF PassSound
  <2>6. stage = "fetched" => CoversReads(q)
    BY <1>1, <1>2, <2>2, <2>4, <2>5 DEF CoversReads, Touched, InThePast
  <2>7. q.next.at <= calendar.count /\ q.tag <= q.next.at /\ p.stage \in CalFetching
    BY <1>1, <2>1, <2>2, <2>4 DEF CalFetching
  <2>8. /\ q.stage \in {"ctagged", "bodies", "fetched"}
        /\ q.stage \in {"bodies", "fetched"} => CoversReads(q)
        /\ q.stage = "ctagged" => q.whole = FALSE /\ q.changed = {} /\ q.skipped = {}
        /\ q.stage = "bodies" => q.skipped = {}
    BY <2>2, <2>4, <2>5, <2>6
  <2> HIDE DEF q
  <2> QED
    BY <2>1, <2>3, <2>4, <2>7, <2>8, ReadingSound
<1>5. CASE ListMembers(w)
  <2> DEFINE read == [e \in Events |-> Version(e)]
             q == [p EXCEPT !.stage = "bodies", !.whole = TRUE, !.changed = calendar.live,
                            !.read = read]
  <2>1. CalSteps(w, q) /\ UNCHANGED <<calendar, scope, events, unread, drawn>> /\ p.stage = "ctagged"
    BY <1>5 DEF ListMembers, In
  <2>2. read \in [Events -> Changes] /\ \A e \in Events : read[e] = Version(e)
    BY <1>1
  <2> HIDE DEF read
  <2>3. q \in CalPass
    BY <1>1, <2>2 DEF CalPass, CalStages
  <2>4. /\ q.stage = "bodies" /\ q.tag = p.tag /\ q.prior = p.prior /\ q.next = p.next
        /\ q.whole = TRUE /\ q.read = read /\ q.skipped = p.skipped /\ p.skipped = {}
    BY <1>1, <1>2, <2>1 DEF CalPass, PassSound
  <2>5. CoversReads(q)
    BY <2>2, <2>4 DEF CoversReads, Touched
  <2>6. p.next.at <= calendar.count /\ p.tag <= p.next.at
    BY <1>2, <2>1 DEF PassSound
  <2> HIDE DEF q
  <2> QED
    BY <1>1, <2>1, <2>3, <2>4, <2>5, <2>6, ReadingSound DEF CalFetching
<1>6. CASE FillBodies(w)
  <2> DEFINE listed == {e \in p.changed : p.read[e] > 0}
  <2>1. PICK missing \in {{}, listed}, skipped \in SUBSET listed :
          CalSteps(w, [p EXCEPT !.stage = "fetched", !.next = NextOf(p), !.skipped = skipped,
                         !.read = [e \in Events |-> IF e \in missing THEN Version(e)
                                                                    ELSE p.read[e]]])
    BY <1>6 DEF FillBodies
  <2> DEFINE read == [e \in Events |-> IF e \in missing THEN Version(e) ELSE p.read[e]]
             next == NextOf(p)
             q == [p EXCEPT !.stage = "fetched", !.next = next, !.skipped = skipped,
                            !.read = read]
  <2>2. CalSteps(w, q) /\ UNCHANGED <<calendar, scope, events, unread, drawn>> /\ p.stage = "bodies"
    BY <1>6, <2>1 DEF FillBodies, In
  <2>3. read \in [Events -> Changes]
        /\ \A e \in Events : read[e] = Version(e) \/ read[e] = p.read[e]
    BY <1>1 DEF CalPass
  <2>4. next = p.next /\ next \in CalCursor
    BY <1>1 DEF NextOf, CalPass
  <2>9. skipped \in SUBSET Events /\ \A e \in skipped : p.read[e] > 0
    BY <1>1 DEF CalPass
  <2> HIDE DEF read, next, listed
  <2>5. q \in CalPass
    BY <1>1, <2>3, <2>4, <2>9 DEF CalPass, CalStages
  <2>6. /\ q.stage = "fetched" /\ q.tag = p.tag /\ q.prior = p.prior /\ q.next = p.next
        /\ q.whole = p.whole /\ q.changed = p.changed /\ q.read = read
        /\ q.skipped = skipped
    BY <1>1, <2>4 DEF CalPass
  <2>7. CoversReads(p) /\ p.next.at <= calendar.count /\ p.tag <= p.next.at
    BY <1>2, <2>2 DEF PassSound
  <2>8. CoversReads(q)
    BY <2>3, <2>6, <2>7, <2>9 DEF CoversReads, Touched
  <2> HIDE DEF q
  <2> QED
    BY <1>1, <2>2, <2>5, <2>6, <2>7, <2>8, ReadingSound DEF CalFetching
<1> QED
  BY <1>3, <1>4, <1>5, <1>6

\* A step that moves the token to the worker, or leaves it, and keeps the cursor.
LEMMA TokenStep ==
  ASSUME CalInv, NEW w \in CalWorkers, NEW q \in CalPass, CalSteps(w, q),
         UNCHANGED <<calendar, events, unread, drawn>>, scope' \in ScopeRow,
         scope'.holder \in {w, scope.holder},
         scope'.cursor = scope.cursor, scope'.tag = scope.tag, PassSound(w)'
  PROVE  CalInv'
<1>1. \A v \in CalWorkers \ {w} : PassSound(v)'
  BY OthersSound
<1>2. CalTypeOK'
  BY DEF CalInv, CalTypeOK, CalSteps, ScopeRow
<1>3. InThePast' /\ CursorMeansRead' /\ OccurrencesFollowEvents'
  BY DEF CalInv, InThePast, CursorMeansRead, LastAnswer, OccurrencesFollowEvents, Version
<1> QED
  BY <1>1, <1>2, <1>3 DEF CalInv

\* Seeding, claiming, expanding, recording the window, and failing.
LEMMA TokenMoves ==
  ASSUME CalInv, NEW w \in CalWorkers,
         SeedWindow(w) \/ ClaimScope(w) \/ ExpandStored(w) \/ RecordWindow(w) \/ CalFails(w)
  PROVE  CalInv'
<1> DEFINE p == calPass[w]
<1>1. /\ p \in CalPass /\ p.tag <= calendar.count /\ p.window \in Windows \cup {0}
      /\ scope \in ScopeRow /\ events \in [Events -> Changes]
  BY DEF CalInv, CalTypeOK, PassSound, CalPass, ScopeRow
<1>2. /\ CalIdle \in CalPass /\ CalIdle.tag <= calendar.count /\ CalIdle.stage = "idle"
      /\ CalIdle.whole = FALSE /\ CalIdle.changed = {} /\ CalIdle.skipped = {}
  BY IdleTyped, EventScopeAssumption DEF CalIdle, CalInv, CalTypeOK, Collection, Changes
<1>3. PassSound(w)
  BY DEF CalInv
<1>4. ASSUME CalSteps(w, CalIdle), UNCHANGED <<calendar, scope, events, unread, drawn>>
      PROVE  CalInv'
  BY <1>2, <1>4, RestingSound, QuietStep DEF CalFetching
<1>5. CASE SeedWindow(w)
  <2>1. CASE scope.live
    BY <1>4, <1>5, <2>1 DEF SeedWindow
  <2>2. CASE ~scope.live
    <3> DEFINE q == [p EXCEPT !.stage = "claiming"]
    <3>1. q \in CalPass /\ q.stage = "claiming" /\ q.tag = p.tag /\ q.whole = FALSE
          /\ q.changed = {} /\ q.skipped = {}
      BY <1>1, <1>3, <1>5 DEF CalPass, CalStages, PassSound, SeedWindow, In
    <3>2. CalSteps(w, q) /\ UNCHANGED <<calendar, events, unread, drawn>>
          /\ scope' = [scope EXCEPT !.known = TRUE, !.holder = w, !.window = p.window]
      BY <1>5, <2>2 DEF SeedWindow
    <3>3. scope' \in ScopeRow /\ scope'.holder = w /\ scope'.cursor = scope.cursor
          /\ scope'.tag = scope.tag
      BY <1>1, <3>2 DEF ScopeRow
    <3>4. PassSound(w)'
      BY <1>1, <3>1, <3>2, RestingSound DEF CalFetching
    <3> QED
      BY <3>1, <3>2, <3>3, <3>4, TokenStep
  <2> QED
    BY <2>1, <2>2
<1>6. CASE ClaimScope(w)
  <2>1. CASE scope.live
    BY <1>4, <1>6, <2>1 DEF ClaimScope
  <2>2. CASE ~scope.live
    <3> DEFINE q == [p EXCEPT !.stage = "claimed", !.prior = scope.cursor]
    <3>1. q \in CalPass /\ q.stage = "claimed" /\ q.tag = p.tag /\ q.prior = scope.cursor
          /\ q.whole = FALSE /\ q.changed = {} /\ q.skipped = {}
      BY <1>1, <1>3, <1>6 DEF CalPass, CalStages, ScopeRow, PassSound, ClaimScope, In
    <3>2. CalSteps(w, q) /\ UNCHANGED <<calendar, events, unread, drawn>>
          /\ scope' = [scope EXCEPT !.holder = w, !.live = TRUE]
      BY <1>6, <2>2 DEF ClaimScope
    <3>3. scope' \in ScopeRow /\ scope'.holder = w /\ scope'.cursor = scope.cursor
          /\ scope'.tag = scope.tag
      BY <1>1, <3>2 DEF ScopeRow
    <3>4. calPass'[w] = q
      BY <3>2 DEF CalInv, CalTypeOK, CalSteps
    <3>5. PassSound(w)'
      BY <1>1, <3>1, <3>2, <3>3, <3>4 DEF PassSound
    <3> QED
      BY <3>1, <3>2, <3>3, <3>5, TokenStep
  <2> QED
    BY <2>1, <2>2
<1>7. CASE ExpandStored(w)
  <2>1. CASE scope.live
    BY <1>4, <1>7, <2>1 DEF ExpandStored
  <2>2. CASE ~scope.live
    <3> DEFINE q == [p EXCEPT !.stage = "expanded", !.read = events]
    <3>1. q \in CalPass /\ q.stage = "expanded" /\ q.tag = p.tag /\ q.read = events
          /\ q.whole = FALSE /\ q.changed = {} /\ q.skipped = {}
      BY <1>1, <1>3, <1>7 DEF CalPass, CalStages, PassSound, ExpandStored, In
    <3>2. CalSteps(w, q) /\ UNCHANGED <<calendar, events, unread, drawn>>
          /\ scope' = [scope EXCEPT !.holder = w, !.live = TRUE]
      BY <1>7, <2>2 DEF ExpandStored
    <3>3. scope' \in ScopeRow /\ scope'.holder = w /\ scope'.cursor = scope.cursor
          /\ scope'.tag = scope.tag
      BY <1>1, <3>2 DEF ScopeRow
    <3>4. calPass'[w] = q
      BY <3>2 DEF CalInv, CalTypeOK, CalSteps
    <3>5. PassSound(w)'
      BY <1>1, <3>1, <3>2, <3>3, <3>4 DEF PassSound, CalFetching
    <3> QED
      BY <3>1, <3>2, <3>3, <3>5, TokenStep
  <2> QED
    BY <2>1, <2>2
<1>8. CASE RecordWindow(w) \/ CalFails(w)
  <2>1. CalSteps(w, CalIdle) /\ UNCHANGED <<calendar, events, unread, drawn>>
    BY <1>8 DEF RecordWindow, CalFails
  <2>2. \/ scope' = scope
        \/ scope' = [scope EXCEPT !.window = p.window, !.live = FALSE]
        \/ scope' = [scope EXCEPT !.live = FALSE]
    BY <1>8 DEF RecordWindow, CalFails, Freed
  <2>3. scope' \in ScopeRow /\ scope'.holder = scope.holder /\ scope'.cursor = scope.cursor
        /\ scope'.tag = scope.tag
    BY <1>1, <2>2 DEF ScopeRow
  <2>4. PassSound(w)'
    BY <1>2, <2>1, RestingSound DEF CalFetching
  <2> QED
    BY <1>2, <2>1, <2>3, <2>4, TokenStep
<1> QED
  BY <1>5, <1>6, <1>7, <1>8

\* The commit of a sync: its next cursor covers what it read and, of what it did
\* not touch, what the cursor it started from covered.
LEMMA CommitSound ==
  ASSUME CalInv, NEW w \in CalWorkers, ApplyEvents(w)
  PROVE  CalInv'
<1> DEFINE p == calPass[w]
<1>1. /\ p \in CalPass /\ p.stage = "fetched" /\ scope.holder = w /\ scope \in ScopeRow
      /\ UNCHANGED calendar /\ CalSteps(w, CalIdle)
      /\ events' = [e \in Events |-> IF e \in Touched(p) \ p.skipped THEN p.read[e]
                                     ELSE events[e]]
      /\ drawn' = [e \in Events |-> IF e \notin Touched(p) \ p.skipped THEN drawn[e]
                                    ELSE IF p.read[e] = 0 THEN NotDrawn
                                    ELSE [ver |-> p.read[e], window |-> p.window]]
      /\ unread' = [e \in Events |-> IF e \notin Touched(p) THEN unread[e]
                                     ELSE IF e \in p.skipped THEN p.read[e] ELSE 0]
      /\ scope' = [scope EXCEPT !.live = FALSE, !.cursor = p.next, !.tag = p.tag]
  BY DEF ApplyEvents, In, TagOf, CalInv, CalTypeOK, ScopeRow
<1>2. /\ p.read \in [Events -> Changes] /\ p.next \in CalCursor /\ p.tag \in Changes
      /\ p.window \in Windows \cup {0} /\ 0 \in Changes /\ 0 \in Windows \cup {0}
  BY <1>1, EventScopeAssumption DEF CalPass, Changes
<1>3. /\ scope' \in ScopeRow /\ scope'.holder = w /\ scope'.cursor = p.next
      /\ scope'.tag = p.tag
  BY <1>1, <1>2 DEF ScopeRow
<1>4. /\ CoversReads(p) /\ p.next.at <= calendar.count /\ p.tag <= p.next.at
      /\ p.prior.at = scope.cursor.at
  BY <1>1 DEF CalInv, PassSound, CalFetching
<1>5. CalTypeOK'
  <2>1. events' \in [Events -> Changes] /\ unread' \in [Events -> Changes]
    BY <1>1, <1>2 DEF CalInv, CalTypeOK
  <2>2. drawn' \in [Events -> [ver : Changes, window : Windows \cup {0}]]
    BY <1>1, <1>2 DEF CalInv, CalTypeOK, NotDrawn
  <2>3. calPass' \in [CalWorkers -> CalPass]
    BY <1>1, IdleTyped DEF CalInv, CalTypeOK, CalSteps
  <2> QED
    BY <1>1, <1>3, <2>1, <2>2, <2>3 DEF CalInv, CalTypeOK, ScopeRow
<1>6. InThePast'
  BY <1>1, <1>3, <1>4 DEF CalInv, InThePast
<1>7. CursorMeansRead'
  <2> SUFFICES ASSUME NEW e \in Events, calendar.at[e] <= p.next.at
               PROVE  (IF unread'[e] > 0 THEN unread'[e] ELSE events'[e]) = Version(e)
    BY <1>1, <1>3 DEF CursorMeansRead, LastAnswer, Version
  <2>1. CASE e \in Touched(p)
    <3>1. p.read[e] = Version(e) /\ (e \in p.skipped => p.read[e] > 0)
      BY <1>4, <2>1 DEF CoversReads
    <3>2. CASE e \in p.skipped
      BY <1>1, <2>1, <3>1, <3>2
    <3>3. CASE e \notin p.skipped
      BY <1>1, <2>1, <3>1, <3>3
    <3> QED
      BY <3>2, <3>3
  <2>2. CASE e \notin Touched(p)
    <3>1. calendar.at[e] <= scope.cursor.at
      BY <1>4, <2>2 DEF CoversReads
    <3>2. unread'[e] = unread[e] /\ events'[e] = events[e]
      BY <1>1, <2>2
    <3> QED
      BY <3>1, <3>2 DEF CalInv, CursorMeansRead, LastAnswer
  <2> QED
    BY <2>1, <2>2
<1>8. OccurrencesFollowEvents'
  <2> SUFFICES ASSUME NEW e \in Events PROVE drawn'[e].ver = events'[e]
    BY DEF OccurrencesFollowEvents
  <2>1. drawn[e].ver = events[e]
    BY DEF CalInv, OccurrencesFollowEvents
  <2> QED
    BY <1>1, <2>1 DEF NotDrawn
<1>9. \A v \in CalWorkers : PassSound(v)'
  <2>1. \A v \in CalWorkers \ {w} : PassSound(v)'
    BY <1>1, <1>3, OthersSound
  <2>2. CalIdle.tag <= calendar.count /\ CalIdle.stage \notin CalFetching \cup {"expanded"}
        /\ CalIdle.whole = FALSE /\ CalIdle.changed = {} /\ CalIdle.skipped = {}
    BY EventScopeAssumption DEF CalIdle, CalFetching, CalInv, CalTypeOK, Collection, Changes
  <2>3. PassSound(w)'
    BY <1>1, <2>2, IdleTyped, RestingSound
  <2> QED
    BY <2>1, <2>3
<1> QED
  BY <1>5, <1>6, <1>7, <1>8, <1>9 DEF CalInv

\* The rows of a horizon pass, which still holds the token it read the events under.
LEMMA MaintenanceSound ==
  ASSUME CalInv, NEW w \in CalWorkers, ApplyMaintenance(w)
  PROVE  CalInv'
<1> DEFINE p == calPass[w]
           q == [p EXCEPT !.stage = "recording", !.read = None]
<1>1. /\ p \in CalPass /\ p.stage = "expanded" /\ UNCHANGED <<calendar, scope, events, unread>>
      /\ p.tag <= calendar.count /\ p.whole = FALSE /\ p.changed = {} /\ p.skipped = {}
  BY DEF ApplyMaintenance, In, CalInv, CalTypeOK, PassSound
<1>2. /\ p.read \in [Events -> Changes] /\ p.window \in Windows \cup {0}
      /\ None \in [Events -> Changes]
  BY <1>1, EventScopeAssumption DEF CalPass, Changes, None
<1>3. CASE scope.holder = w
  <2>1. /\ CalSteps(w, q)
        /\ drawn' = [e \in Events |-> IF p.read[e] = 0 THEN drawn[e]
                                      ELSE [ver |-> p.read[e], window |-> p.window]]
    BY <1>3 DEF ApplyMaintenance, MaintenanceHolds
  <2>2. q \in CalPass /\ q.stage = "recording" /\ q.tag = p.tag /\ q.whole = FALSE
        /\ q.changed = {} /\ q.skipped = {}
    BY <1>1, <1>2 DEF CalPass, CalStages
  <2>3. p.read = events
    BY <1>1, <1>3 DEF CalInv, PassSound
  <2>4. CalTypeOK'
    <3>1. drawn' \in [Events -> [ver : Changes, window : Windows \cup {0}]]
      BY <1>2, <2>1 DEF CalInv, CalTypeOK
    <3>2. calPass' \in [CalWorkers -> CalPass]
      BY <2>1, <2>2 DEF CalInv, CalTypeOK, CalSteps
    <3> QED
      BY <1>1, <3>1, <3>2 DEF CalInv, CalTypeOK
  <2>5. InThePast' /\ CursorMeansRead'
    BY <1>1 DEF CalInv, InThePast, CursorMeansRead, LastAnswer, Version
  <2>6. OccurrencesFollowEvents'
    BY <1>1, <2>1, <2>3 DEF CalInv, OccurrencesFollowEvents
  <2> HIDE DEF q
  <2>7. PassSound(w)'
    BY <1>1, <2>1, <2>2, RestingSound DEF CalFetching
  <2>8. \A v \in CalWorkers \ {w} : PassSound(v)'
    BY <1>1, <2>1, OthersSound
  <2> QED
    BY <2>4, <2>5, <2>6, <2>7, <2>8 DEF CalInv
<1>4. CASE scope.holder # w
  <2>1. CalSteps(w, CalIdle) /\ UNCHANGED drawn
    BY <1>4 DEF ApplyMaintenance, MaintenanceHolds
  <2>2. CalIdle.tag <= calendar.count /\ CalIdle.stage \notin CalFetching \cup {"expanded"}
        /\ CalIdle.whole = FALSE /\ CalIdle.changed = {} /\ CalIdle.skipped = {}
    BY EventScopeAssumption DEF CalIdle, CalFetching, CalInv, CalTypeOK, Collection, Changes
  <2> QED
    BY <1>1, <2>1, <2>2, IdleTyped, RestingSound, QuietStep
<1> QED
  BY <1>3, <1>4

\* The server edits an event: no cursor covers the new change, and nothing else moved.
LEMMA EditSound ==
  ASSUME CalInv, NEW e \in Events, ServerEdits(e)
  PROVE  CalInv'
<1>1. PICK live \in {calendar.live \cup {e}, calendar.live \ {e}} :
        calendar' = [calendar EXCEPT !.count = @ + 1, !.at[e] = calendar.count + 1,
                                     !.live = live]
  BY DEF ServerEdits
<1>2. /\ calendar \in Collection /\ calendar.count \in Nat /\ calendar.count < MaxCalChanges
      /\ UNCHANGED <<scope, events, unread, drawn, calPass>>
  BY EventScopeAssumption DEF ServerEdits, CalInv, CalTypeOK, Collection, Changes
<1>3. /\ calendar' \in Collection /\ calendar'.count = calendar.count + 1
      /\ calendar'.at[e] = calendar.count + 1
      /\ \A f \in Events \ {e} : calendar'.at[f] = calendar.at[f]
                                 /\ (f \in calendar'.live <=> f \in calendar.live)
  <2>1. calendar.count + 1 \in Changes
    BY <1>2, EventScopeAssumption DEF Changes
  <2> QED
    BY <1>1, <1>2, <2>1 DEF Collection
<1>4. \A f \in Events \ {e} : Version(f)' = Version(f)
  BY <1>3 DEF Version
<1>5. /\ scope.cursor.at \in Nat /\ scope.tag \in Nat /\ scope.cursor.at <= calendar.count
      /\ scope.tag <= scope.cursor.at
      /\ \A f \in Events : calendar.at[f] \in Nat /\ calendar.at[f] <= calendar.count
  BY <1>2, EventScopeAssumption
     DEF CalInv, CalTypeOK, ScopeRow, CalCursor, Changes, InThePast, Collection
<1>6. CalTypeOK'
  BY <1>2, <1>3 DEF CalInv, CalTypeOK
<1>7. InThePast'
  <2>1. \A f \in Events : calendar'.at[f] <= calendar'.count
    BY <1>2, <1>3, <1>5
  <2>2. \A f \in Events : calendar'.at[f] = 0 => f \notin calendar'.live
    BY <1>2, <1>3, <1>5 DEF CalInv, InThePast
  <2>3. scope'.cursor.at <= calendar'.count /\ scope'.tag <= scope'.cursor.at
    BY <1>2, <1>3, <1>5
  <2> QED
    BY <2>1, <2>2, <2>3 DEF InThePast
<1>8. CursorMeansRead'
  <2> SUFFICES ASSUME NEW f \in Events, calendar'.at[f] <= scope.cursor.at
               PROVE  LastAnswer(f) = Version(f)'
    BY <1>2 DEF CursorMeansRead, LastAnswer
  <2>1. f # e
    BY <1>2, <1>3, <1>5
  <2> QED
    BY <1>3, <1>4, <2>1 DEF CalInv, CursorMeansRead
<1>9. OccurrencesFollowEvents'
  BY <1>2 DEF CalInv, OccurrencesFollowEvents
<1>10. \A w \in CalWorkers : PassSound(w)'
  <2> TAKE w \in CalWorkers
  <2> DEFINE p == calPass[w]
  <2>1. /\ p \in CalPass /\ p.tag \in Nat /\ p.next.at \in Nat /\ p.prior.at \in Nat
        /\ PassSound(w)
    BY EventScopeAssumption DEF CalInv, CalTypeOK, CalPass, CalCursor, Changes
  <2>2. p.tag <= calendar'.count /\ (p.next.at <= calendar.count => p.next.at <= calendar'.count)
    BY <1>2, <1>3, <2>1 DEF PassSound
  <2>3. ASSUME CoversReads(p), p.next.at <= calendar.count
        PROVE  CoversReads(p)'
    <3> SUFFICES ASSUME NEW f \in Events, calendar'.at[f] <= p.next.at
                 PROVE  IF f \in Touched(p)
                          THEN p.read[f] = Version(f)' /\ (f \in p.skipped => p.read[f] > 0)
                          ELSE calendar'.at[f] <= p.prior.at
      BY <1>2 DEF CoversReads, Touched
    <3>1. f # e
      BY <1>2, <1>3, <2>1, <2>3
    <3> QED
      BY <1>3, <1>4, <2>3, <3>1 DEF CoversReads
  <2> QED
    BY <1>2, <2>1, <2>2, <2>3 DEF PassSound
<1> QED
  BY <1>6, <1>7, <1>8, <1>9, <1>10 DEF CalInv

\* Tokens dropped, leases run out, the cursor cleared or the calendar forgotten.
\* Whoever had the token has it no more once cursor or events are gone.
LEMMA HostSound ==
  ASSUME CalInv, ServerForgets \/ CalLeaseLapses \/ ClearCalCursor \/ ForgetCalendar
  PROVE  CalInv'
<1>1. CalTypeOK /\ InThePast /\ CursorMeansRead /\ OccurrencesFollowEvents
      /\ \A w \in CalWorkers : PassSound(w)
  BY DEF CalInv
<1>2. NoOne \notin CalWorkers /\ 0 \in Changes /\ NoCalCursor \in CalCursor
      /\ \A n \in Changes : n \in Nat
  BY EventScopeAssumption DEF Changes, NoCalCursor, CalCursor
<1>3. CASE ServerForgets
  <2>1. /\ UNCHANGED <<scope, events, unread, drawn, calPass>>
        /\ \/ calendar' = [calendar EXCEPT !.oldest = calendar.count]
           \/ calendar' = [calendar EXCEPT !.reports = FALSE]
    BY <1>3 DEF ServerForgets
  <2>2. /\ calendar' \in Collection /\ calendar'.at = calendar.at
        /\ calendar'.live = calendar.live /\ calendar'.count = calendar.count
    BY <1>1, <2>1 DEF CalTypeOK, Collection
  <2>3. \A e \in Events : Version(e)' = Version(e)
    BY <2>2 DEF Version
  <2>4. CalTypeOK' /\ InThePast' /\ CursorMeansRead' /\ OccurrencesFollowEvents'
    BY <1>1, <2>1, <2>2, <2>3
       DEF CalTypeOK, InThePast, CursorMeansRead, LastAnswer, OccurrencesFollowEvents
  <2>5. \A w \in CalWorkers : PassSound(w)'
    BY <1>1, <2>1, <2>2, <2>3 DEF PassSound, CoversReads, Touched
  <2> QED
    BY <2>4, <2>5 DEF CalInv
<1>4. CASE CalLeaseLapses
  <2>1. /\ UNCHANGED <<calendar, events, unread, drawn, calPass>>
        /\ scope' = [scope EXCEPT !.live = FALSE]
    BY <1>4 DEF CalLeaseLapses
  <2>2. /\ scope' \in ScopeRow /\ scope'.holder = scope.holder
        /\ scope'.cursor = scope.cursor /\ scope'.tag = scope.tag
    BY <1>1, <2>1 DEF CalTypeOK, ScopeRow
  <2>3. CalTypeOK' /\ InThePast' /\ CursorMeansRead' /\ OccurrencesFollowEvents'
    BY <1>1, <2>1, <2>2
       DEF CalTypeOK, ScopeRow, InThePast, CursorMeansRead, LastAnswer,
           OccurrencesFollowEvents, Version
  <2>4. \A w \in CalWorkers : PassSound(w)'
    BY <1>1, <2>1, <2>2 DEF PassSound, CoversReads, Touched, Version
  <2> QED
    BY <2>3, <2>4 DEF CalInv
<1>5. CASE ClearCalCursor \/ ForgetCalendar
  <2>1. /\ UNCHANGED <<calendar, calPass>>
        /\ \/ /\ scope' = [scope EXCEPT !.holder = NoOne, !.live = FALSE,
                                        !.cursor = NoCalCursor, !.tag = 0]
              /\ UNCHANGED <<events, unread, drawn>>
           \/ /\ scope' = [scope EXCEPT !.holder = NoOne, !.cursor = NoCalCursor, !.tag = 0,
                                        !.window = 0]
              /\ events' = None /\ unread' = None /\ drawn' = [e \in Events |-> NotDrawn]
    BY <1>5 DEF ClearCalCursor, ForgetCalendar
  <2>2. /\ scope' \in ScopeRow /\ scope'.holder = NoOne
        /\ scope'.cursor = NoCalCursor /\ scope'.tag = 0
    BY <1>1, <1>2, <2>1 DEF CalTypeOK, ScopeRow
  <2>3. NoCalCursor.at = 0 /\ calendar.count \in Nat /\ scope.cursor.at \in Nat
        /\ \A e \in Events : calendar.at[e] \in Nat
    BY <1>1, <1>2 DEF NoCalCursor, CalTypeOK, ScopeRow, Collection, CalCursor
  <2>4. /\ events' \in [Events -> Changes] /\ unread' \in [Events -> Changes]
        /\ OccurrencesFollowEvents'
        /\ drawn' \in [Events -> [ver : Changes, window : Windows \cup {0}]]
    BY <1>1, <1>2, <2>1 DEF CalTypeOK, None, NotDrawn, OccurrencesFollowEvents
  <2>5. CalTypeOK'
    BY <1>1, <2>1, <2>2, <2>4 DEF CalTypeOK, ScopeRow
  <2>6. InThePast'
    BY <1>1, <2>1, <2>2, <2>3 DEF InThePast
  <2>7. CursorMeansRead'
    <3> SUFFICES ASSUME NEW e \in Events, calendar.at[e] <= 0
                 PROVE  (IF unread'[e] > 0 THEN unread'[e] ELSE events'[e]) = Version(e)
      BY <2>1, <2>2, <2>3 DEF CursorMeansRead, LastAnswer, Version
    <3>1. calendar.at[e] = 0 /\ calendar.at[e] <= scope.cursor.at
      BY <2>3
    <3>2. Version(e) = 0
      BY <1>1, <3>1 DEF InThePast, Version
    <3>3. LastAnswer(e) = Version(e)
      BY <1>1, <3>1 DEF CursorMeansRead
    <3> QED
      BY <2>1, <3>2, <3>3 DEF None, LastAnswer
  <2>8. \A w \in CalWorkers : PassSound(w)'
    BY <1>1, <1>2, <2>1, <2>2 DEF PassSound, CoversReads, Touched, Version
  <2> QED
    BY <2>4, <2>5, <2>6, <2>7, <2>8 DEF CalInv
<1> QED
  BY <1>3, <1>4, <1>5

LEMMA CalInvStep == CalInv /\ [CalNext]_calVars => CalInv'
<1> SUFFICES ASSUME CalInv, [CalNext]_calVars PROVE CalInv'
  OBVIOUS
<1>1. CASE UNCHANGED calVars
  BY <1>1 DEF calVars, CalInv, CalTypeOK, InThePast, CursorMeansRead, LastAnswer,
              OccurrencesFollowEvents, PassSound, CoversReads, Touched, Version
<1>2. CASE \E e \in Events : ServerEdits(e)
  BY <1>2, EditSound
<1>3. CASE ServerForgets \/ CalLeaseLapses \/ ClearCalCursor \/ ForgetCalendar
  BY <1>3, HostSound
<1>4. ASSUME NEW w \in CalWorkers,
             \/ ListCalendars(w) \/ CompareTag(w) \/ ResolveWindow(w) \/ Reconcile(w)
             \/ RefusedEvents(w) \/ CalDies(w) \/ \E window \in Windows : Widen(w, window)
      PROVE  CalInv'
  BY <1>4, BeforeClaim
<1>5. ASSUME NEW w \in CalWorkers,
             SeedWindow(w) \/ ClaimScope(w) \/ ExpandStored(w) \/ RecordWindow(w) \/ CalFails(w)
      PROVE  CalInv'
  BY <1>5, TokenMoves
<1>6. ASSUME NEW w \in CalWorkers,
             ReportCollection(w) \/ ReadCtag(w) \/ ListMembers(w) \/ FillBodies(w)
      PROVE  CalInv'
  BY <1>6, WhileReading
<1>7. ASSUME NEW w \in CalWorkers, ApplyEvents(w)
      PROVE  CalInv'
  BY <1>7, CommitSound
<1>8. ASSUME NEW w \in CalWorkers, ApplyMaintenance(w)
      PROVE  CalInv'
  BY <1>8, MaintenanceSound
<1> QED
  BY <1>1, <1>2, <1>3, <1>4, <1>5, <1>6, <1>7, <1>8 DEF CalNext

LEMMA CalInvHolds == CalSpec => []CalInv
<1> QED
  BY CalInvInit, CalInvStep, PTL DEF CalSpec

\* The stored cursor never covers a change that is not stored, unless its version came
\* without a body that could be read, whatever passes overtake each other, are refused
\* or read bodies late (apply_sync_update).
THEOREM CursorCovers == CalSpec => []CursorMeansRead
<1>1. CalInv => CursorMeansRead
  BY DEF CalInv
<1> QED
  BY <1>1, CalInvHolds, PTL

\* A calendar skipped because its tag is the recorded one is stored as it is, but for
\* what came without a readable body (sync_group).
THEOREM TagIsSafe == CalSpec => []TagSkipsNothing
<1>1. ASSUME CalInv PROVE TagSkipsNothing
  <2> SUFFICES ASSUME scope.tag = calendar.count, NEW e \in Events
               PROVE  LastAnswer(e) = Version(e)
    BY DEF TagSkipsNothing
  <2>1. /\ calendar.count \in Nat /\ calendar.at[e] \in Nat /\ scope.cursor.at \in Nat
        /\ calendar.at[e] <= calendar.count /\ scope.tag <= scope.cursor.at
    BY <1>1, EventScopeAssumption
       DEF CalInv, CalTypeOK, ScopeRow, Collection, CalCursor, Changes, InThePast
  <2>2. calendar.at[e] <= scope.cursor.at
    BY <2>1
  <2> QED
    BY <1>1, <2>2 DEF CalInv, CursorMeansRead
<1> QED
  BY <1>1, CalInvHolds, PTL

\* The occurrence rows are always of the stored version of their event
\* (apply_maintenance and its fence).
THEOREM RowsFollowEvents == CalSpec => []OccurrencesFollowEvents
<1>1. CalInv => OccurrencesFollowEvents
  BY DEF CalInv
<1> QED
  BY <1>1, CalInvHolds, PTL

-------------------------------------------------------------------------------
(***************************************************************************)
(* A sweep takes no lease and no lock, and reads files and rows at         *)
(* different moments.  That no number of them, at the same time, unlinks   *)
(* what a put just wrote, for any number of keys, contents and puts, rests *)
(* on the grace: what a sweep lists is old when it lists it, and what a    *)
(* timely put is about to name is young and on no sweep's way.             *)
(***************************************************************************)

BlobTypeOK ==
  /\ file \in [Hashes -> {"none", "young", "old"}]
  /\ names \in [Keys -> SUBSET Hashes]
  /\ put \in [Keys -> [hash : SUBSET Hashes, fresh : BOOLEAN]]
  /\ sweep \in [Sweepers -> [stage : {"idle", "listed", "unlink"}, listed : SUBSET Hashes,
                             live : SUBSET Hashes]]
  /\ fresh \in SUBSET Keys

\* What a timely put wrote itself is still young, and no sweep will unlink it.
PutsYoung ==
  \A k \in Keys : put[k].fresh =>
    \A h \in put[k].hash : /\ file[h] = "young"
                           /\ \A s \in Sweepers : h \notin sweep[s].listed \ sweep[s].live

\* A sweep knows no hash in use before it reads them.
ReadLater == \A s \in Sweepers : sweep[s].stage # "unlink" => sweep[s].live = {}

\* Once a sweep has read the hashes in use, those of fresh rows are among them, or
\* are not on its list.
FreshSpared ==
  \A s \in Sweepers : sweep[s].stage = "unlink" =>
    \A k \in fresh : \A h \in names[k] : h \notin sweep[s].listed \ sweep[s].live

BlobInv == BlobTypeOK /\ PutsYoung /\ ReadLater /\ FreshSpared /\ FreshBlobsKept

\* The area starts empty.
LEMMA BlobInvInit == BlobInit => BlobInv
BY DEF BlobInit, NoPut, NoSweep, BlobInv, BlobTypeOK, PutsYoung, ReadLater, FreshSpared,
       FreshBlobsKept

\* No step of a put, of the host, of the clock or of a sweep breaks the invariant.
LEMMA BlobInvStep == BlobInv /\ [BlobNext]_blobVars => BlobInv'
<1> SUFFICES ASSUME BlobInv, [BlobNext]_blobVars PROVE BlobInv'
  OBVIOUS
<1> USE DEF BlobInv, BlobTypeOK
<1>1. ASSUME NEW k \in Keys, NEW h \in Hashes, WriteBlob(k, h) PROVE BlobInv'
  <2> DEFINE wrote == file[h] = "none" /\ ~SweptFor(h)
             written == [hash |-> {h}, fresh |-> wrote]
  <2>1. put' = [put EXCEPT ![k] = written]
        /\ file' = [file EXCEPT ![h] = IF file[h] = "none" THEN "young" ELSE file[h]]
        /\ UNCHANGED <<names, sweep, fresh>>
    BY <1>1 DEF WriteBlob
  <2>w. wrote \in BOOLEAN
    OBVIOUS
  <2>2. BlobTypeOK'
    <3> HIDE DEF wrote
    <3> QED BY <2>1, <2>w
  <2>3. PutsYoung'
    <3> SUFFICES ASSUME NEW j \in Keys, put'[j].fresh, NEW g \in put'[j].hash
                 PROVE /\ file'[g] = "young"
                       /\ \A s \in Sweepers : g \notin sweep[s].listed \ sweep[s].live
      BY <2>1 DEF PutsYoung
    <3>1. CASE j = k
      <4>1. put'[j] = written
        BY <2>1, <3>1
      <4>2. written.fresh /\ g \in written.hash
        BY <4>1, Zenon
      <4>3. wrote /\ g = h
        <5> HIDE DEF wrote
        <5> QED BY <4>2
      <4>4. file[h] = "none" /\ ~SweptFor(h)
        BY <4>3
      <4> QED
        BY <4>3, <4>4, <2>1 DEF SweptFor
    <3>2. CASE j # k
      <4>1. put'[j] = put[j]
        BY <2>1, <3>2
      <4> QED
        BY <2>1, <4>1 DEF PutsYoung
    <3> QED
      BY <3>1, <3>2
  <2>4. ReadLater' /\ FreshSpared' /\ FreshBlobsKept'
    BY <2>1 DEF ReadLater, FreshSpared, FreshBlobsKept
  <2> QED
    BY <2>2, <2>3, <2>4
<1>2. ASSUME NEW k \in Keys, UpsertRow(k) PROVE BlobInv'
  <2>1. BlobTypeOK' /\ PutsYoung'
    BY <1>2 DEF UpsertRow, NoPut, PutsYoung
  <2>2. \A j \in fresh' : \A h \in names'[j] :
          \/ j \in fresh /\ h \in names[j]
          \/ j = k /\ put[k].fresh /\ h \in put[k].hash
    BY <1>2 DEF UpsertRow
  <2>3. ReadLater' /\ FreshSpared' /\ FreshBlobsKept'
    BY <1>2, <2>2 DEF UpsertRow, PutsYoung, ReadLater, FreshSpared, FreshBlobsKept
  <2> QED
    BY <2>1, <2>3
<1>3. ASSUME NEW k \in Keys, PutDies(k) PROVE BlobInv'
  BY <1>3 DEF PutDies, NoPut, PutsYoung, ReadLater, FreshSpared, FreshBlobsKept
<1>4. ASSUME NEW k \in Keys, DropRow(k) PROVE BlobInv'
  BY <1>4 DEF DropRow, PutsYoung, ReadLater, FreshSpared, FreshBlobsKept
<1>5. ASSUME NEW h \in Hashes, Ages(h) PROVE BlobInv'
  <2>1. BlobTypeOK'
    BY <1>5 DEF Ages
  <2>2. PutsYoung'
    BY <1>5 DEF Ages, PutsYoung
  <2>3. ReadLater' /\ FreshSpared' /\ FreshBlobsKept'
    BY <1>5 DEF Ages, ReadLater, FreshSpared, FreshBlobsKept
  <2> QED
    BY <2>1, <2>2, <2>3
<1>6. ASSUME NEW s \in Sweepers, NEW h \in Hashes, Unlink(s, h) PROVE BlobInv'
  <2>0. BlobTypeOK' /\ ReadLater' /\ UNCHANGED <<names, put, fresh>>
    BY <1>6 DEF Unlink, NoSweep, ReadLater
  <2>1. \A t \in Sweepers : /\ sweep'[t].listed \subseteq sweep[t].listed
                            /\ sweep'[t].listed # {} => sweep'[t].live = sweep[t].live
                            /\ sweep'[t].stage = "unlink" => sweep[t].stage = "unlink"
    BY <1>6 DEF Unlink, NoSweep
  <2>2. /\ sweep[s].stage = "unlink"
        /\ \A g \in Hashes : file'[g] = file[g] \/ (g \in sweep[s].listed \ sweep[s].live)
    BY <1>6 DEF Unlink
  <2>3. PutsYoung'
    BY <2>0, <2>1, <2>2 DEF PutsYoung
  <2>4. FreshSpared'
    BY <2>0, <2>1 DEF FreshSpared
  <2>5. FreshBlobsKept'
    BY <2>0, <2>2 DEF FreshSpared, FreshBlobsKept
  <2> QED
    BY <2>0, <2>3, <2>4, <2>5
<1>7. ASSUME NEW s \in Sweepers, ListFiles(s) PROVE BlobInv'
  BY <1>7 DEF ListFiles, NoSweep, Candidates, PutsYoung, ReadLater, FreshSpared, FreshBlobsKept
<1>8. ASSUME NEW s \in Sweepers, ReadHashes(s) PROVE BlobInv'
  <2>1. /\ sweep' = [sweep EXCEPT ![s].stage = "unlink", ![s].live = ReferencedHashes]
        /\ UNCHANGED <<file, names, put, fresh>>
        /\ sweep[s].stage = "listed"
    BY <1>8 DEF ReadHashes
  <2>2. ReferencedHashes \in SUBSET Hashes
    BY DEF ReferencedHashes
  <2>3. \A k \in fresh : names[k] \subseteq ReferencedHashes
    BY DEF ReferencedHashes
  <2>4. BlobTypeOK' /\ ReadLater' /\ FreshSpared' /\ FreshBlobsKept'
    BY <2>1, <2>2, <2>3 DEF ReadLater, FreshSpared, FreshBlobsKept
  <2> QED
    BY <2>1, <2>4 DEF PutsYoung, ReadLater
<1>9. ASSUME NEW s \in Sweepers, SweepFails(s) PROVE BlobInv'
  BY <1>9 DEF SweepFails, NoSweep, PutsYoung, ReadLater, FreshSpared, FreshBlobsKept
<1>10. ASSUME UNCHANGED blobVars PROVE BlobInv'
  BY <1>10 DEF blobVars, PutsYoung, ReadLater, FreshSpared, FreshBlobsKept
<1> QED
  BY <1>1, <1>2, <1>3, <1>4, <1>5, <1>6, <1>7, <1>8, <1>9, <1>10 DEF BlobNext

\* Whatever sweeps, puts and removals interleave, any number of sweeps at a time, a row
\* whose put wrote the file and named it within SWEEP_GRACE, with no sweep still on its
\* way to the file it replaced, names a file that is there (sweep_unreferenced_blobs).
THEOREM SweepSparesFresh == BlobSpec => []FreshBlobsKept
<1>1. BlobInv => FreshBlobsKept
  BY DEF BlobInv
<1> QED
  BY <1>1, BlobInvInit, BlobInvStep, PTL DEF BlobSpec
-------------------------------------------------------------------------------
(* The people index: the cards and their groups *)

\* Every card of L is in one group and no group is empty.
Partition(G, L) ==
  /\ \A g \in G : g \subseteq Cards /\ g # {}
  /\ \A c : c \in L <=> \E g \in G : c \in g
  /\ \A g, h \in G : \A c : (c \in g /\ c \in h) => g = h

\* A closed set is closed from the outside too: sharing is mutual.
LEMMA ClosedComplement ==
  ASSUME NEW cs, NEW S \in Closed(cs)
  PROVE  LiveIn(cs) \ S \in Closed(cs)
<1> DEFINE T == LiveIn(cs) \ S
<1>1. \A a, b : Shares(cs, a, b) => Shares(cs, b, a)
  <2> SUFFICES ASSUME NEW a, NEW b, Shares(cs, a, b) PROVE Shares(cs, b, a)
    OBVIOUS
  <2>1. PICK X, Y : X = UNION cs[a] /\ Y = UNION cs[b]
    OBVIOUS
  <2>2. X \cap Y # {} => Y \cap X # {}
    OBVIOUS
  <2> QED
    BY <2>1, <2>2 DEF Shares
<1>2. S \subseteq LiveIn(cs) /\ \A c \in S : \A d \in T : ~Shares(cs, c, d)
  BY DEF Closed
<1>3. \A c \in T : \A d \in LiveIn(cs) \ T : d \in S
  OBVIOUS
<1>4. \A c \in T : \A d \in LiveIn(cs) \ T : ~Shares(cs, c, d)
  BY <1>1, <1>2, <1>3
<1>5. T \in SUBSET LiveIn(cs)
  OBVIOUS
<1> HIDE DEF T
<1>6. T \in Closed(cs)
  BY <1>4, <1>5 DEF Closed
<1> QED
  BY <1>6 DEF T

\* What c is linked to is the smallest closed set around it.
LEMMA LinkedFacts ==
  ASSUME NEW cs, NEW c \in LiveIn(cs)
  PROVE  /\ Linked(cs, c) \subseteq LiveIn(cs) /\ c \in Linked(cs, c)
         /\ Linked(cs, c) \in Closed(cs)
         /\ \A S \in Closed(cs) : c \in S => Linked(cs, c) \subseteq S
<1>1. Linked(cs, c) \subseteq LiveIn(cs) /\ c \in Linked(cs, c)
  BY DEF Linked
<1>2. \A S \in Closed(cs) : c \in S => Linked(cs, c) \subseteq S
  BY DEF Linked
<1>3. ASSUME NEW a \in Linked(cs, c), NEW d \in LiveIn(cs) \ Linked(cs, c), Shares(cs, a, d) PROVE FALSE
  <2>1. PICK S \in Closed(cs) : c \in S /\ d \notin S
    BY <1>3 DEF Linked
  <2>2. a \in S
    BY <1>2, <1>3, <2>1
  <2> QED
    BY <1>3, <2>1, <2>2 DEF Closed
<1>4. Linked(cs, c) \in Closed(cs)
  BY <1>1, <1>3 DEF Closed
<1> QED
  BY <1>1, <1>2, <1>4

\* What c leads to leads back to c, and to the same cards.
LEMMA LinkedSame ==
  ASSUME NEW cs, NEW c \in LiveIn(cs), NEW d \in Linked(cs, c)
  PROVE  Linked(cs, d) = Linked(cs, c)
<1>0. d \in LiveIn(cs)
  BY LinkedFacts
<1>1. Linked(cs, d) \subseteq Linked(cs, c)
  <2>1. Linked(cs, c) \in Closed(cs)
    BY LinkedFacts
  <2> QED
    BY <1>0, <2>1, LinkedFacts
<1>2. c \in Linked(cs, d)
  <2> SUFFICES ASSUME c \notin Linked(cs, d) PROVE FALSE
    OBVIOUS
  <2>1. Linked(cs, d) \in Closed(cs) /\ d \in Linked(cs, d)
    BY <1>0, LinkedFacts
  <2>2. PICK S : S = LiveIn(cs) \ Linked(cs, d)
    OBVIOUS
  <2>3. S \in Closed(cs)
    BY <2>1, <2>2, ClosedComplement
  <2>4. c \in S
    BY <2>2
  <2>5. Linked(cs, c) \subseteq S
    BY <2>3, <2>4, LinkedFacts
  <2> QED
    BY <2>1, <2>2, <2>5
<1>3. Linked(cs, c) \subseteq Linked(cs, d)
  <2>1. Linked(cs, d) \in Closed(cs)
    BY <1>0, LinkedFacts
  <2> QED
    BY <1>2, <2>1, LinkedFacts
<1> QED
  BY <1>1, <1>3

\* The components part the live cards.
LEMMA ComponentsPart ==
  ASSUME NEW cs
  PROVE  Partition(Components(cs), LiveIn(cs))
<1>1. LiveIn(cs) \subseteq Cards
  BY DEF LiveIn
<1>2. \A g \in Components(cs) : g \subseteq Cards /\ g # {}
  BY <1>1, LinkedFacts DEF Components
<1>3. \A c : c \in LiveIn(cs) <=> \E g \in Components(cs) : c \in g
  BY LinkedFacts DEF Components
<1>4. ASSUME NEW g \in Components(cs), NEW h \in Components(cs), NEW c, c \in g, c \in h PROVE g = h
  <2>1. PICK a \in LiveIn(cs) : g = Linked(cs, a)
    BY DEF Components
  <2>2. PICK b \in LiveIn(cs) : h = Linked(cs, b)
    BY DEF Components
  <2>3. Linked(cs, c) = g
    BY <1>4, <2>1, LinkedSame
  <2>4. Linked(cs, c) = h
    BY <1>4, <2>2, LinkedSame
  <2> QED
    BY <2>3, <2>4
<1> QED
  BY <1>2, <1>3, <1>4 DEF Partition

-------------------------------------------------------------------------------
(* The people index: ids and aliases *)

\* What holds of every index.
Indexed(p) ==
  /\ p.people \in [Cards -> Nat] /\ p.nextId \in Nat \ {0}
  /\ \A c \in Cards : p.people[c] # 0 => p.people[c] < p.nextId /\ p.people[c] \notin DOMAIN p.aliases
  /\ \A i \in DOMAIN p.aliases :
       /\ i \in Nat /\ i < p.nextId /\ p.aliases[i] \in Nat
       /\ p.aliases[i] < p.nextId /\ p.aliases[i] \notin DOMAIN p.aliases

\* A group has a first card.
LEMMA FirstOf ==
  ASSUME NEW G, NEW L, Partition(G, L), NEW g \in G
  PROVE  Min(g) \in g /\ Min(g) \in Nat
<1>1. g \in SUBSET Nat /\ g # {}
  BY DEF Partition, Cards
<1> QED
  BY <1>1, LeastOf

\* A card is the first of one group.
LEMMA FirstOnce ==
  ASSUME NEW G, NEW L, Partition(G, L), NEW g \in G, NEW h \in G, Min(g) = Min(h)
  PROVE  g = h
<1>1. Min(g) \in g /\ Min(h) \in h
  BY FirstOf
<1> QED
  BY <1>1 DEF Partition

\* The counter of a sound index is ahead of its ids.
LEMMA FirstNewIs ==
  ASSUME NEW prev, Indexed(prev)
  PROVE  FirstNew(prev) = prev.nextId
<1> DEFINE S == {prev.nextId} \cup {prev.people[c] + 1 : c \in Cards}
<1>1. prev.nextId \in Nat /\ \A c \in Cards : prev.people[c] \in Nat /\ prev.people[c] + 1 <= prev.nextId
  BY DEF Indexed
<1>2. S \in SUBSET (0..prev.nextId) /\ S # {} /\ prev.nextId \in S
  BY <1>1
<1>3. FirstNew(prev) = Max(S)
  BY DEF FirstNew
<1> HIDE DEF S
<1>4. Max(S) \in S /\ \A y \in S : y <= Max(S)
  BY <1>1, <1>2, GreatestOf
<1>5. prev.nextId <= Max(S) /\ Max(S) \in 0..prev.nextId
  BY <1>2, <1>4
<1> QED
  BY <1>1, <1>3, <1>5

\* A kept id is one a card of the group had, minted and not retired.
LEMMA KeptFacts ==
  ASSUME NEW G, NEW L, Partition(G, L), NEW prev, Indexed(prev), NEW g \in G,
         NEW i \in Kept(G, prev, g)
  PROVE  /\ i \in Nat /\ i # 0 /\ i < prev.nextId /\ i \notin DOMAIN prev.aliases
         /\ \E c \in g : prev.people[c] = i
<1>1. PICK c \in g : prev.people[c] = i /\ i # 0
  BY DEF Kept, Prior
<1>2. c \in Cards
  BY DEF Partition
<1> QED
  BY <1>1, <1>2 DEF Indexed

\* An id is kept by one group only.
LEMMA KeptOnce ==
  ASSUME NEW G, NEW L, Partition(G, L), NEW prev, NEW g \in G, NEW h \in G, NEW i,
         i \in Kept(G, prev, g), i \in Kept(G, prev, h)
  PROVE  g = h
<1>1. Min(g) <= Min(h) /\ Min(h) <= Min(g)
  BY DEF Kept
<1>2. Min(g) \in Nat /\ Min(h) \in Nat
  BY FirstOf
<1>3. Min(g) = Min(h)
  BY <1>1, <1>2
<1> QED
  BY <1>3, FirstOnce

\* New ids are counted off in the order of the groups.
Before(G, prev, g) == {h \in Minted(G, prev) : Min(h) < Min(g)}

\* There are only so many new people.
LEMMA MintedFinite ==
  ASSUME NEW G, NEW L, Partition(G, L), NEW prev, NEW S, S \subseteq Minted(G, prev)
  PROVE  IsFiniteSet(S) /\ Cardinality(S) \in Nat
<1>1. IsFiniteSet(SUBSET Cards)
  <2>1. IsFiniteSet(Cards)
    BY FS_Interval, PeopleIndexAssumption DEF Cards
  <2> QED
    BY <2>1, FS_SUBSET
<1>2. S \subseteq SUBSET Cards
  BY DEF Partition, Minted
<1> QED
  BY <1>1, <1>2, FS_Subset, FS_CardinalityType

\* No two new people get one number.
LEMMA CountedOff ==
  ASSUME NEW G, NEW L, Partition(G, L), NEW prev, NEW g \in Minted(G, prev)
  PROVE  /\ Cardinality(Before(G, prev, g)) \in Nat
         /\ Cardinality(Before(G, prev, g)) < Cardinality(Minted(G, prev))
         /\ \A h \in Minted(G, prev) :
              Cardinality(Before(G, prev, g)) = Cardinality(Before(G, prev, h)) => g = h
<1>0. \A h \in Minted(G, prev) : h \in G /\ Min(h) \in Nat
  BY FirstOf DEF Minted
<1>1. \A h : Before(G, prev, h) \subseteq Minted(G, prev)
  BY DEF Before
<1>2. /\ IsFiniteSet(Minted(G, prev)) /\ Cardinality(Minted(G, prev)) \in Nat
      /\ \A h : IsFiniteSet(Before(G, prev, h)) /\ Cardinality(Before(G, prev, h)) \in Nat
  BY <1>1, MintedFinite
<1>3. g \notin Before(G, prev, g)
  BY <1>0 DEF Before
<1>4. Cardinality(Before(G, prev, g)) < Cardinality(Minted(G, prev))
  <2>1. Cardinality(Before(G, prev, g)) <= Cardinality(Minted(G, prev))
    BY <1>1, <1>2, FS_Subset
  <2>2. Cardinality(Before(G, prev, g)) # Cardinality(Minted(G, prev))
    BY <1>1, <1>2, <1>3, FS_Subset
  <2> QED
    BY <1>2, <2>1, <2>2
<1>5. ASSUME NEW a \in Minted(G, prev), NEW b \in Minted(G, prev), Min(a) < Min(b)
      PROVE  Cardinality(Before(G, prev, a)) # Cardinality(Before(G, prev, b))
  <2>1. Before(G, prev, a) \subseteq Before(G, prev, b)
    <3> SUFFICES ASSUME NEW x \in Before(G, prev, a) PROVE x \in Before(G, prev, b)
      OBVIOUS
    <3>1. x \in Minted(G, prev) /\ Min(x) < Min(a)
      BY DEF Before
    <3>2. Min(x) < Min(b)
      BY <1>0, <1>5, <3>1
    <3> QED
      BY <3>1, <3>2 DEF Before
  <2>2. a \in Before(G, prev, b) /\ a \notin Before(G, prev, a)
    BY <1>0, <1>5 DEF Before
  <2>3. Before(G, prev, a) # Before(G, prev, b)
    BY <2>2
  <2> QED
    BY <1>2, <2>1, <2>3, FS_Subset
<1>6. ASSUME NEW h \in Minted(G, prev), Cardinality(Before(G, prev, g)) = Cardinality(Before(G, prev, h))
      PROVE  g = h
  <2>1. ~(Min(g) < Min(h)) /\ ~(Min(h) < Min(g))
    BY <1>5, <1>6
  <2>2. Min(g) = Min(h)
    BY <1>0, <2>1
  <2> QED
    BY <1>0, <2>2, FirstOnce
<1> QED
  BY <1>2, <1>4, <1>6

\* The id of a group: one it keeps, or one no index has had.
LEMMA IdFacts ==
  ASSUME NEW G, NEW L, Partition(G, L), NEW prev, Indexed(prev), NEW g \in G
  PROVE  /\ IdOf(G, prev, g) \in Nat /\ IdOf(G, prev, g) # 0
         /\ IdOf(G, prev, g) < prev.nextId + Cardinality(Minted(G, prev))
         /\ Kept(G, prev, g) # {} => IdOf(G, prev, g) \in Kept(G, prev, g)
         /\ Kept(G, prev, g) = {} => /\ IdOf(G, prev, g) = prev.nextId + Cardinality(Before(G, prev, g))
                                     /\ IdOf(G, prev, g) >= prev.nextId
<1>0. prev.nextId \in Nat /\ prev.nextId # 0 /\ Cardinality(Minted(G, prev)) \in Nat
  BY MintedFinite DEF Indexed
<1>1. CASE Kept(G, prev, g) # {}
  <2>1. Kept(G, prev, g) \in SUBSET Nat
    BY KeptFacts
  <2>2. IdOf(G, prev, g) = Min(Kept(G, prev, g))
    BY <1>1 DEF IdOf
  <2>3. IdOf(G, prev, g) \in Kept(G, prev, g)
    BY <1>1, <2>1, <2>2, LeastOf
  <2>4. IdOf(G, prev, g) \in Nat /\ IdOf(G, prev, g) # 0 /\ IdOf(G, prev, g) < prev.nextId
    BY <2>3, KeptFacts
  <2> QED
    BY <1>0, <1>1, <2>3, <2>4
<1>2. CASE Kept(G, prev, g) = {}
  <2>1. IdOf(G, prev, g) = prev.nextId + Cardinality(Before(G, prev, g))
    BY <1>2, FirstNewIs DEF IdOf, Before
  <2>2. g \in Minted(G, prev)
    BY <1>2 DEF Minted
  <2>3. /\ Cardinality(Before(G, prev, g)) \in Nat
        /\ Cardinality(Before(G, prev, g)) < Cardinality(Minted(G, prev))
    BY <2>2, CountedOff
  <2> QED
    BY <1>0, <1>2, <2>1, <2>3
<1> QED
  BY <1>1, <1>2

\* No two groups have one id.
LEMMA IdOnce ==
  ASSUME NEW G, NEW L, Partition(G, L), NEW prev, Indexed(prev), NEW g \in G, NEW h \in G,
         IdOf(G, prev, g) = IdOf(G, prev, h)
  PROVE  g = h
<1>0. prev.nextId \in Nat
  BY DEF Indexed
<1>1. CASE Kept(G, prev, g) # {} /\ Kept(G, prev, h) # {}
  <2>1. IdOf(G, prev, g) \in Kept(G, prev, g) /\ IdOf(G, prev, g) \in Kept(G, prev, h)
    BY <1>1, IdFacts
  <2> QED
    BY <2>1, KeptOnce
<1>2. ASSUME NEW a \in G, NEW b \in G, Kept(G, prev, a) # {}, Kept(G, prev, b) = {}
      PROVE  IdOf(G, prev, a) # IdOf(G, prev, b)
  <2>1. IdOf(G, prev, a) \in Kept(G, prev, a)
    BY <1>2, IdFacts
  <2>2. IdOf(G, prev, a) \in Nat /\ IdOf(G, prev, a) < prev.nextId
    BY <2>1, KeptFacts
  <2>3. IdOf(G, prev, b) \in Nat /\ IdOf(G, prev, b) >= prev.nextId
    BY <1>2, IdFacts
  <2> QED
    BY <1>0, <2>2, <2>3
<1>3. CASE Kept(G, prev, g) = {} /\ Kept(G, prev, h) = {}
  <2>1. g \in Minted(G, prev) /\ h \in Minted(G, prev)
    BY <1>3 DEF Minted
  <2>2. /\ IdOf(G, prev, g) = prev.nextId + Cardinality(Before(G, prev, g))
        /\ IdOf(G, prev, h) = prev.nextId + Cardinality(Before(G, prev, h))
    BY <1>3, IdFacts
  <2>3. Cardinality(Before(G, prev, g)) \in Nat /\ Cardinality(Before(G, prev, h)) \in Nat
    BY <2>1, CountedOff
  <2>4. Cardinality(Before(G, prev, g)) = Cardinality(Before(G, prev, h))
    <3>1. PICK n \in Nat, a \in Nat, b \in Nat :
            n = prev.nextId /\ a = Cardinality(Before(G, prev, g)) /\ b = Cardinality(Before(G, prev, h))
      BY <1>0, <2>3
    <3>2. n + a = n + b
      BY <2>2, <3>1
    <3> QED
      BY <3>1, <3>2
  <2> QED
    BY <2>1, <2>4, CountedOff
<1> QED
  BY <1>1, <1>2, <1>3

\* A card carries the id of its group.
LEMMA PersonFacts ==
  ASSUME NEW G, NEW L, Partition(G, L), NEW prev, NEW g \in G, NEW c \in g
  PROVE  PersonOf(G, prev, c) = IdOf(G, prev, g)
<1>1. (CHOOSE h \in G : c \in h) = g
  BY DEF Partition
<1> QED
  BY <1>1 DEF PersonOf

\* Cards grouped by their person.
Grouped(v) == {{d \in Cards : v[d] = v[c]} : c \in {d \in Cards : v[d] # 0}}

\* The index rebuilt from some cards lists the groups of those cards.
LEMMA RebuiltGroups ==
  ASSUME NEW cs, NEW prev, Indexed(prev)
  PROVE  /\ Rebuilt(cs, prev).people \in [Cards -> Nat]
         /\ Grouped(Rebuilt(cs, prev).people) = Components(cs)
<1>1. PICK G, L, v : G = Components(cs) /\ L = LiveIn(cs) /\ v = Rebuilt(cs, prev).people
  OBVIOUS
<1>2. Partition(G, L) /\ L \subseteq Cards
  BY <1>1, ComponentsPart DEF LiveIn
<1>3. v = [c \in Cards |-> IF c \in L THEN PersonOf(G, prev, c) ELSE 0]
  BY <1>1 DEF Rebuilt
<1>4. \A g \in G : \A c \in g : c \in Cards /\ c \in L
  BY <1>2 DEF Partition
<1>5. \A g \in G : \A c \in g : v[c] = IdOf(G, prev, g) /\ v[c] \in Nat /\ v[c] # 0
  BY <1>2, <1>3, <1>4, PersonFacts, IdFacts
<1>6. \A c \in Cards : v[c] # 0 => \E g \in G : c \in g
  BY <1>2, <1>3 DEF Partition
<1>7. v \in [Cards -> Nat]
  <2>1. \A c \in Cards : v[c] \in Nat
    BY <1>5, <1>6
  <2> QED
    BY <1>3, <2>1
<1>8. ASSUME NEW g \in G, NEW c \in g PROVE {d \in Cards : v[d] = v[c]} = g
  <2>1. ASSUME NEW d \in Cards, v[d] = v[c] PROVE d \in g
    <3>1. v[d] # 0
      BY <1>5, <1>8, <2>1
    <3>2. PICK h \in G : d \in h
      BY <1>6, <3>1
    <3>3. IdOf(G, prev, h) = IdOf(G, prev, g)
      BY <1>5, <1>8, <2>1, <3>2
    <3> QED
      BY <1>2, <3>2, <3>3, IdOnce
  <2>2. \A d \in g : d \in Cards /\ v[d] = v[c]
    BY <1>4, <1>5, <1>8
  <2> QED
    BY <2>1, <2>2
<1>9. Grouped(v) \subseteq G
  <2> SUFFICES ASSUME NEW c \in Cards, v[c] # 0 PROVE {d \in Cards : v[d] = v[c]} \in G
    BY DEF Grouped
  <2>1. PICK g \in G : c \in g
    BY <1>6
  <2>2. {d \in Cards : v[d] = v[c]} = g
    BY <1>8, <2>1
  <2> QED
    BY <2>2
<1>10. G \subseteq Grouped(v)
  <2> SUFFICES ASSUME NEW g \in G PROVE g \in Grouped(v)
    OBVIOUS
  <2>1. PICK c : c \in g
    BY <1>2 DEF Partition
  <2>2. c \in Cards /\ v[c] # 0 /\ g = {d \in Cards : v[d] = v[c]}
    BY <1>4, <1>5, <1>8, <2>1
  <2> QED
    BY <2>2 DEF Grouped
<1> QED
  BY <1>1, <1>7, <1>9, <1>10

\* A retired id was kept by a group that has an older one.
LEMMA RetiredFacts ==
  ASSUME NEW G, NEW L, Partition(G, L), NEW prev, Indexed(prev), NEW i \in Retired(G, prev)
  PROVE  /\ i \in Nat /\ i < prev.nextId
         /\ \E g \in G : i \in Kept(G, prev, g) /\ i # IdOf(G, prev, g)
<1>1. PICK g \in G : i \in Kept(G, prev, g) /\ i # IdOf(G, prev, g)
  BY DEF Retired
<1> QED
  BY <1>1, KeptFacts

\* The id of a group is no alias.
LEMMA IdInUse ==
  ASSUME NEW G, NEW L, Partition(G, L), NEW prev, Indexed(prev), NEW g \in G
  PROVE  IdOf(G, prev, g) \notin Retired(G, prev) /\ IdOf(G, prev, g) \notin DOMAIN prev.aliases
<1>0. prev.nextId \in Nat
  BY DEF Indexed
<1>1. CASE Kept(G, prev, g) # {}
  <2>1. IdOf(G, prev, g) \in Kept(G, prev, g)
    BY <1>1, IdFacts
  <2>2. IdOf(G, prev, g) \notin DOMAIN prev.aliases
    BY <2>1, KeptFacts
  <2>3. ASSUME IdOf(G, prev, g) \in Retired(G, prev) PROVE FALSE
    <3>1. PICK h \in G : IdOf(G, prev, g) \in Kept(G, prev, h) /\ IdOf(G, prev, g) # IdOf(G, prev, h)
      BY <2>3, RetiredFacts
    <3>2. g = h
      BY <2>1, <3>1, KeptOnce
    <3> QED
      BY <3>1, <3>2
  <2> QED
    BY <2>2, <2>3
<1>2. CASE Kept(G, prev, g) = {}
  <2>1. IdOf(G, prev, g) \in Nat /\ IdOf(G, prev, g) >= prev.nextId
    BY <1>2, IdFacts
  <2>2. \A i \in DOMAIN prev.aliases : i \in Nat /\ i < prev.nextId
    BY DEF Indexed
  <2>3. \A i \in Retired(G, prev) : i \in Nat /\ i < prev.nextId
    BY RetiredFacts
  <2> QED
    BY <1>0, <2>1, <2>2, <2>3
<1> QED
  BY <1>1, <1>2

\* Where a retired id goes: to the group that gave it up.
LEMMA MovedFacts ==
  ASSUME NEW G, NEW L, Partition(G, L), NEW prev, Indexed(prev), NEW m, m = Moved(G, prev)
  PROVE  /\ \A i : i \in DOMAIN m <=> (i \in Retired(G, prev) \/ i \in DOMAIN prev.aliases)
         /\ \A i \in Retired(G, prev) : \E g \in G : m[i] = IdOf(G, prev, g)
         /\ \A i \in DOMAIN prev.aliases : i \notin Retired(G, prev) => m[i] = prev.aliases[i]
<1>1. \A i : i \in DOMAIN m <=> (i \in Retired(G, prev) \/ i \in DOMAIN prev.aliases)
  BY DEF Moved
<1>2. ASSUME NEW i \in Retired(G, prev) PROVE \E g \in G : m[i] = IdOf(G, prev, g)
  <2>1. m[i] = IdOf(G, prev, CHOOSE g \in G : i \in Kept(G, prev, g))
    BY DEF Moved
  <2>2. \E g \in G : i \in Kept(G, prev, g)
    BY RetiredFacts
  <2>3. (CHOOSE g \in G : i \in Kept(G, prev, g)) \in G
    BY <2>2
  <2> QED
    BY <2>1, <2>3
<1>3. \A i \in DOMAIN prev.aliases : i \notin Retired(G, prev) => m[i] = prev.aliases[i]
  BY DEF Moved
<1> QED
  BY <1>1, <1>2, <1>3

\* An alias leads to the id of a group, or to where it led before and nothing moved.
LEMMA FlattenedFacts ==
  ASSUME NEW G, NEW L, Partition(G, L), NEW prev, Indexed(prev),
         NEW m, m = Moved(G, prev), NEW f, f = Flattened(m), NEW i \in DOMAIN f
  PROVE  \/ \E g \in G : f[i] = IdOf(G, prev, g)
         \/ i \in DOMAIN prev.aliases /\ f[i] = prev.aliases[i] /\ f[i] \notin DOMAIN f
<1>0. DOMAIN f = DOMAIN m /\ f[i] = IF m[i] \in DOMAIN m THEN m[m[i]] ELSE m[i]
  BY DEF Flattened
<1>1. /\ \A j : j \in DOMAIN m <=> (j \in Retired(G, prev) \/ j \in DOMAIN prev.aliases)
      /\ \A j \in Retired(G, prev) : \E g \in G : m[j] = IdOf(G, prev, g)
      /\ \A j \in DOMAIN prev.aliases : j \notin Retired(G, prev) => m[j] = prev.aliases[j]
  BY MovedFacts
<1>2. \A g \in G : IdOf(G, prev, g) \notin DOMAIN m
  BY <1>1, IdInUse
<1>3. CASE i \in Retired(G, prev)
  BY <1>0, <1>1, <1>2, <1>3
<1>4. CASE i \notin Retired(G, prev)
  <2>1. i \in DOMAIN prev.aliases /\ m[i] = prev.aliases[i]
    BY <1>0, <1>1, <1>4
  <2>2. prev.aliases[i] \notin DOMAIN prev.aliases
    BY <2>1 DEF Indexed
  <2>3. CASE m[i] \in DOMAIN m
    <3>1. m[i] \in Retired(G, prev)
      BY <1>1, <2>1, <2>2, <2>3
    <3> QED
      BY <1>0, <1>1, <2>3, <3>1
  <2>4. CASE m[i] \notin DOMAIN m
    BY <1>0, <2>1, <2>4
  <2> QED
    BY <2>3, <2>4
<1> QED
  BY <1>3, <1>4

\* An index rebuilt from a sound one is sound.
LEMMA RebuiltIndexed ==
  ASSUME NEW cs, NEW prev, Indexed(prev)
  PROVE  Indexed(Rebuilt(cs, prev))
<1>1. PICK G, L, m, p :
        G = Components(cs) /\ L = LiveIn(cs) /\ m = Moved(G, prev) /\ p = Rebuilt(cs, prev)
  OBVIOUS
<1>2. Partition(G, L)
  BY <1>1, ComponentsPart
<1>3. p.aliases = Flattened(m) /\ p.nextId = FirstNew(prev) + Cardinality(Minted(G, prev))
  BY <1>1 DEF Rebuilt
<1>4. /\ prev.nextId \in Nat /\ prev.nextId # 0 /\ Cardinality(Minted(G, prev)) \in Nat
      /\ FirstNew(prev) = prev.nextId
  BY <1>2, MintedFinite, FirstNewIs DEF Indexed
<1>5. p.nextId \in Nat \ {0} /\ p.nextId >= prev.nextId /\ p.nextId = prev.nextId + Cardinality(Minted(G, prev))
  BY <1>3, <1>4
<1>6. p.people \in [Cards -> Nat]
  BY <1>1, RebuiltGroups
<1>7. \A i : i \in DOMAIN p.aliases <=> (i \in Retired(G, prev) \/ i \in DOMAIN prev.aliases)
  <2>1. DOMAIN p.aliases = DOMAIN m
    BY <1>3 DEF Flattened
  <2> QED
    BY <1>1, <1>2, <2>1, MovedFacts
<1>8. \A g \in G : /\ IdOf(G, prev, g) \in Nat /\ IdOf(G, prev, g) < p.nextId
                   /\ IdOf(G, prev, g) \notin DOMAIN p.aliases
  BY <1>2, <1>5, <1>7, IdFacts, IdInUse
<1>9. ASSUME NEW c \in Cards, p.people[c] # 0
      PROVE  p.people[c] < p.nextId /\ p.people[c] \notin DOMAIN p.aliases
  <2>1. p.people = [d \in Cards |-> IF d \in L THEN PersonOf(G, prev, d) ELSE 0]
    BY <1>1 DEF Rebuilt
  <2>2. c \in L /\ p.people[c] = PersonOf(G, prev, c)
    BY <1>9, <2>1
  <2>3. PICK g \in G : c \in g
    BY <1>2, <2>2 DEF Partition
  <2>4. p.people[c] = IdOf(G, prev, g)
    BY <1>2, <2>2, <2>3, PersonFacts
  <2> QED
    BY <1>8, <2>4
<1>10. ASSUME NEW i \in DOMAIN p.aliases
       PROVE  /\ i \in Nat /\ i < p.nextId /\ p.aliases[i] \in Nat
              /\ p.aliases[i] < p.nextId /\ p.aliases[i] \notin DOMAIN p.aliases
  <2>1. i \in Nat /\ i < prev.nextId
    <3>1. CASE i \in Retired(G, prev)
      BY <1>2, <3>1, RetiredFacts
    <3>2. CASE i \in DOMAIN prev.aliases
      BY <3>2 DEF Indexed
    <3> QED
      BY <1>7, <3>1, <3>2
  <2>2. PICK f : f = p.aliases
    OBVIOUS
  <2>3. \/ \E g \in G : f[i] = IdOf(G, prev, g)
        \/ i \in DOMAIN prev.aliases /\ f[i] = prev.aliases[i] /\ f[i] \notin DOMAIN f
    BY <1>1, <1>2, <1>3, <1>10, <2>2, FlattenedFacts
  <2>4. CASE \E g \in G : f[i] = IdOf(G, prev, g)
    BY <1>4, <1>5, <1>8, <2>1, <2>2, <2>4
  <2>5. CASE i \in DOMAIN prev.aliases /\ f[i] = prev.aliases[i] /\ f[i] \notin DOMAIN f
    <3>1. prev.aliases[i] \in Nat /\ prev.aliases[i] < prev.nextId
      BY <2>5 DEF Indexed
    <3> QED
      BY <1>4, <1>5, <2>1, <2>2, <2>5, <3>1
  <2> QED
    BY <2>3, <2>4, <2>5
<1>11. Indexed(p)
  BY <1>5, <1>6, <1>9, <1>10 DEF Indexed
<1> QED
  BY <1>1, <1>11

-------------------------------------------------------------------------------
(* The people index: rebuilds that overtake one another *)

Index == [people |-> people, aliases |-> aliases, nextId |-> nextId]

RebuildFields == {"stage", "retries", "generation", "cards", "previous"}

\* What a rebuild under way has read.
ReadSound(r) ==
  /\ DOMAIN r = RebuildFields
  /\ r.stage \in {"idle", "sources", "people", "replace"}
  /\ r.stage \in {"people", "replace"} =>
       r.generation \in Nat /\ r.generation <= generation /\ (r.generation = generation => r.cards = cards)
  /\ r.stage = "replace" => Indexed(r.previous)

\* The index is of the cards as they are, or somebody will see to it or should have.
Answered ==
  \/ owed \/ \E w \in Rebuilders : rebuild[w].stage # "idle"
  \/ Grouped(people) = Components(cards)

PeopleInv ==
  /\ generation \in Nat /\ DOMAIN rebuild = Rebuilders
  /\ Indexed(Index)
  /\ \A w \in Rebuilders : ReadSound(rebuild[w])
  /\ Answered

\* The index stays sound while nobody writes it.
LEMMA IndexSame ==
  ASSUME PeopleInv, UNCHANGED <<people, aliases, nextId>>
  PROVE  Indexed(Index)'
BY DEF PeopleInv, Indexed, Index, Cards

\* The rebuilds that do not step have read what they have read.
LEMMA OtherRebuilds ==
  ASSUME PeopleInv, NEW r, ReadSound(r),
         \/ UNCHANGED <<cards, generation>>
         \/ generation' = generation + 1
  PROVE  ReadSound(r)'
<1>1. generation \in Nat
  BY DEF PeopleInv
<1>2. ASSUME r.stage \in {"people", "replace"}
      PROVE  r.generation \in Nat /\ r.generation <= generation' /\ (r.generation = generation' => r.cards = cards')
  BY <1>1, <1>2 DEF ReadSound
<1> QED
  BY <1>2 DEF ReadSound, Indexed, RebuildFields, Cards

\* A rebuild that begins, or ends, has read nothing.
LEMMA StartsSound ==
  /\ ReadSound(NoRebuild)' /\ ReadSound(Starting)'
  /\ Starting.stage # "idle" /\ NoRebuild.stage = "idle"
  /\ \A n : ReadSound([Starting EXCEPT !.retries = n])' /\ [Starting EXCEPT !.retries = n].stage # "idle"
BY DEF ReadSound, NoRebuild, Starting, RebuildFields

\* One rebuild steps.
LEMMA OneSteps ==
  ASSUME PeopleInv, NEW w \in Rebuilders, NEW r, rebuild' = [rebuild EXCEPT ![w] = r],
         ReadSound(r)',
         \/ UNCHANGED <<cards, generation>>
         \/ generation' = generation + 1
  PROVE  /\ generation' \in Nat /\ DOMAIN rebuild' = Rebuilders
         /\ \A x \in Rebuilders : ReadSound(rebuild[x])'
         /\ rebuild'[w] = r
<1>1. generation' \in Nat /\ DOMAIN rebuild' = Rebuilders /\ rebuild'[w] = r
  BY DEF PeopleInv
<1>2. ASSUME NEW x \in Rebuilders, x # w PROVE ReadSound(rebuild[x])'
  <2>1. PICK q : q = rebuild[x]
    OBVIOUS
  <2>2. rebuild'[x] = q
    BY <1>2, <2>1 DEF PeopleInv
  <2>3. ReadSound(q)'
    BY <2>1, OtherRebuilds DEF PeopleInv
  <2> QED
    BY <2>2, <2>3 DEF ReadSound, Indexed, Cards
<1>3. ReadSound(rebuild[w])'
  BY <1>1 DEF ReadSound, Indexed, Cards
<1> QED
  BY <1>1, <1>2, <1>3

\* A pass or a write changes cards, or contacts are forgotten: its rebuild is to come.
LEMMA CardsChange ==
  ASSUME PeopleInv, NEW w \in Rebuilders, ApplyCards(w) \/ ForgetContacts(w)
  PROVE  PeopleInv'
<1>1. /\ generation' = generation + 1 /\ rebuild' = [rebuild EXCEPT ![w] = Starting]
      /\ UNCHANGED <<people, aliases, nextId, owed>>
  BY DEF ApplyCards, ForgetContacts
<1>2. /\ generation' \in Nat /\ DOMAIN rebuild' = Rebuilders
      /\ \A x \in Rebuilders : ReadSound(rebuild[x])'
      /\ rebuild'[w] = Starting
  BY <1>1, StartsSound, OneSteps
<1>3. Answered'
  BY <1>2, StartsSound DEF Answered
<1> QED
  BY <1>1, <1>2, <1>3, IndexSame DEF PeopleInv

\* An account is forgotten with the index: a rebuild is owed.
LEMMA PeopleForgotten ==
  ASSUME PeopleInv, ForgetPeople
  PROVE  PeopleInv'
<1>1. /\ generation' = generation + 1 /\ people' = NoPeople /\ aliases' = NoAliases /\ owed' = TRUE
      /\ UNCHANGED <<nextId, rebuild>>
  BY DEF ForgetPeople
<1>2. generation' \in Nat /\ DOMAIN rebuild' = Rebuilders
  BY <1>1 DEF PeopleInv
<1>3. \A x \in Rebuilders : ReadSound(rebuild[x])'
  <2> SUFFICES ASSUME NEW x \in Rebuilders PROVE ReadSound(rebuild[x])'
    OBVIOUS
  <2>1. PICK q : q = rebuild[x]
    OBVIOUS
  <2>2. rebuild'[x] = q
    BY <1>1, <2>1
  <2>3. ReadSound(q)'
    BY <1>1, <2>1, OtherRebuilds DEF PeopleInv
  <2> QED
    BY <2>2, <2>3 DEF ReadSound, Indexed, Cards
<1>4. Indexed(Index)'
  <2>1. nextId' \in Nat \ {0}
    BY <1>1 DEF PeopleInv, Indexed, Index
  <2>2. people' \in [Cards -> Nat] /\ \A c \in Cards : people'[c] = 0
    BY <1>1 DEF NoPeople
  <2>3. DOMAIN aliases' = {}
    BY <1>1 DEF NoAliases
  <2> QED
    BY <2>1, <2>2, <2>3 DEF Indexed, Index, Cards
<1>5. Answered'
  BY <1>1 DEF Answered
<1> QED
  BY <1>2, <1>3, <1>4, <1>5 DEF PeopleInv

\* A rebuild reads the cards with their generation, then the index.
LEMMA Reads ==
  ASSUME PeopleInv, NEW w \in Rebuilders, ReadSources(w) \/ ReadPeople(w)
  PROVE  PeopleInv'
<1>0. UNCHANGED <<cards, generation, people, aliases, nextId, owed>>
  BY DEF ReadSources, ReadPeople
<1>1. ReadSound(rebuild[w]) /\ DOMAIN rebuild[w] = RebuildFields /\ generation \in Nat
  BY DEF PeopleInv, ReadSound
<1>2. CASE ReadSources(w)
  <2>1. PICK r : r = [rebuild[w] EXCEPT !.stage = "people", !.generation = generation, !.cards = cards]
    OBVIOUS
  <2>2. rebuild' = [rebuild EXCEPT ![w] = r]
    BY <1>2, <2>1 DEF ReadSources
  <2>3. DOMAIN r = RebuildFields /\ r.stage = "people" /\ r.generation = generation /\ r.cards = cards
    BY <1>1, <2>1 DEF RebuildFields
  <2>4. ReadSound(r)'
    BY <1>0, <1>1, <2>3 DEF ReadSound, RebuildFields
  <2>5. /\ generation' \in Nat /\ DOMAIN rebuild' = Rebuilders
        /\ \A x \in Rebuilders : ReadSound(rebuild[x])'
        /\ rebuild'[w] = r
    BY <1>0, <2>2, <2>4, OneSteps
  <2>6. Answered'
    BY <2>3, <2>5 DEF Answered
  <2> QED
    BY <1>0, <2>5, <2>6, IndexSame DEF PeopleInv
<1>3. CASE ReadPeople(w)
  <2>1. PICK r : r = [rebuild[w] EXCEPT !.stage = "replace", !.previous = Index]
    OBVIOUS
  <2>2. rebuild' = [rebuild EXCEPT ![w] = r] /\ rebuild[w].stage = "people"
    BY <1>3, <2>1 DEF ReadPeople, Index
  <2>3. /\ DOMAIN r = RebuildFields /\ r.stage = "replace" /\ r.previous = Index
        /\ r.generation = rebuild[w].generation /\ r.cards = rebuild[w].cards
    BY <1>1, <2>1 DEF RebuildFields
  <2>4. Indexed(r.previous)
    BY <2>3 DEF PeopleInv
  <2>5. ReadSound(r)
    BY <1>1, <2>2, <2>3, <2>4 DEF ReadSound
  <2>6. ReadSound(r)'
    BY <1>0, <2>5, OtherRebuilds
  <2>7. /\ generation' \in Nat /\ DOMAIN rebuild' = Rebuilders
        /\ \A x \in Rebuilders : ReadSound(rebuild[x])'
        /\ rebuild'[w] = r
    BY <1>0, <2>2, <2>6, OneSteps
  <2>8. Answered'
    BY <2>3, <2>7 DEF Answered
  <2> QED
    BY <1>0, <2>7, <2>8, IndexSame DEF PeopleInv
<1> QED
  BY <1>2, <1>3

\* A rebuild replaces the index, begins again, or gives up.
LEMMA Replaces ==
  ASSUME PeopleInv, NEW w \in Rebuilders, ReplacePeople(w)
  PROVE  PeopleInv'
<1>1. rebuild[w].stage = "replace" /\ UNCHANGED <<cards, generation>>
  BY DEF ReplacePeople
<1>2. ReadSound(rebuild[w]) /\ Indexed(rebuild[w].previous)
  BY <1>1 DEF PeopleInv, ReadSound
<1>3. CASE Unmoved(rebuild[w])
  <2>1. PICK new : new = Rebuilt(rebuild[w].cards, rebuild[w].previous)
    OBVIOUS
  <2>2. /\ people' = new.people /\ aliases' = new.aliases /\ nextId' = new.nextId
        /\ rebuild' = [rebuild EXCEPT ![w] = NoRebuild] /\ owed' = FALSE
    BY <1>3, <2>1 DEF ReplacePeople
  <2>3. rebuild[w].cards = cards
    BY <1>1, <1>2, <1>3 DEF ReadSound, Unmoved
  <2>4. Indexed(new)
    BY <1>2, <2>1, RebuiltIndexed
  <2>5. Grouped(new.people) = Components(cards)
    BY <1>2, <2>1, <2>3, RebuiltGroups
  <2>6. Indexed(Index)'
    BY <2>2, <2>4 DEF Indexed, Index, Cards
  <2>7. Answered'
    <3>1. Components(cards)' = Components(cards)
      BY <1>1 DEF Components, Linked, Closed, Shares, LiveIn, Cards
    <3>2. Grouped(people)' = Grouped(new.people)
      BY <2>2 DEF Grouped, Cards
    <3> QED
      BY <2>5, <3>1, <3>2 DEF Answered
  <2>8. /\ generation' \in Nat /\ DOMAIN rebuild' = Rebuilders
        /\ \A x \in Rebuilders : ReadSound(rebuild[x])'
    BY <1>1, <2>2, StartsSound, OneSteps
  <2> QED
    BY <2>6, <2>7, <2>8 DEF PeopleInv
<1>4. CASE ~Unmoved(rebuild[w])
  <2>1. UNCHANGED <<people, aliases, nextId>>
    BY <1>4 DEF ReplacePeople
  <2>2. CASE rebuild[w].retries < MaxRebuilds
    <3>1. PICK r : r = [Starting EXCEPT !.retries = rebuild[w].retries + 1]
      OBVIOUS
    <3>2. rebuild' = [rebuild EXCEPT ![w] = r]
      BY <1>4, <2>2, <3>1 DEF ReplacePeople
    <3>3. ReadSound(r)' /\ r.stage # "idle"
      BY <3>1 DEF ReadSound, NoRebuild, Starting, RebuildFields
    <3>4. /\ generation' \in Nat /\ DOMAIN rebuild' = Rebuilders
          /\ \A x \in Rebuilders : ReadSound(rebuild[x])'
          /\ rebuild'[w] = r
      BY <1>1, <3>2, <3>3, OneSteps
    <3>5. Answered'
      BY <3>3, <3>4 DEF Answered
    <3> QED
      BY <2>1, <3>4, <3>5, IndexSame DEF PeopleInv
  <2>3. CASE ~(rebuild[w].retries < MaxRebuilds)
    <3>1. rebuild' = [rebuild EXCEPT ![w] = NoRebuild] /\ owed' = TRUE
      BY <1>4, <2>3 DEF ReplacePeople
    <3>2. /\ generation' \in Nat /\ DOMAIN rebuild' = Rebuilders
          /\ \A x \in Rebuilders : ReadSound(rebuild[x])'
      BY <1>1, <3>1, StartsSound, OneSteps
    <3>3. Answered'
      BY <3>1 DEF Answered
    <3> QED
      BY <2>1, <3>2, <3>3, IndexSame DEF PeopleInv
  <2> QED
    BY <2>2, <2>3
<1> QED
  BY <1>3, <1>4

\* A rebuild dies: one is owed.
LEMMA Dies ==
  ASSUME PeopleInv, NEW w \in Rebuilders, RebuildDies(w)
  PROVE  PeopleInv'
<1>1. /\ rebuild' = [rebuild EXCEPT ![w] = NoRebuild] /\ owed' = TRUE
      /\ UNCHANGED <<cards, generation, people, aliases, nextId>>
  BY DEF RebuildDies
<1>2. /\ generation' \in Nat /\ DOMAIN rebuild' = Rebuilders
      /\ \A x \in Rebuilders : ReadSound(rebuild[x])'
  BY <1>1, StartsSound, OneSteps
<1>3. Answered'
  BY <1>1 DEF Answered
<1> QED
  BY <1>1, <1>2, <1>3, IndexSame DEF PeopleInv

\* There are no cards at first, and nobody in the index.
LEMMA PeopleInitHolds == PeopleInit => PeopleInv
<1> SUFFICES ASSUME PeopleInit PROVE PeopleInv
  OBVIOUS
<1>1. /\ cards = [c \in Cards |-> {}] /\ generation = 0 /\ people = NoPeople /\ aliases = NoAliases
      /\ nextId = 1 /\ rebuild = [w \in Rebuilders |-> NoRebuild] /\ owed = FALSE
  BY DEF PeopleInit
<1>2. Indexed(Index)
  <2>1. nextId \in Nat \ {0}
    BY <1>1
  <2>2. people \in [Cards -> Nat] /\ \A c \in Cards : people[c] = 0
    BY <1>1 DEF NoPeople
  <2>3. DOMAIN aliases = {}
    BY <1>1 DEF NoAliases
  <2> QED
    BY <2>1, <2>2, <2>3 DEF Indexed, Index
<1>3. \A w \in Rebuilders : ReadSound(rebuild[w])
  BY <1>1 DEF ReadSound, NoRebuild, RebuildFields
<1>4. Grouped(people) = Components(cards)
  <2>1. LiveIn(cards) = {}
    BY <1>1 DEF LiveIn
  <2>2. Components(cards) = {}
    BY <2>1 DEF Components
  <2>3. Grouped(people) = {}
    BY <1>1 DEF Grouped, NoPeople
  <2> QED
    BY <2>2, <2>3
<1> QED
  BY <1>1, <1>2, <1>3, <1>4 DEF PeopleInv, Answered

\* The invariant is inductive.
LEMMA PeopleStep == PeopleInv /\ [PeopleNext]_peopleVars => PeopleInv'
<1> SUFFICES ASSUME PeopleInv, [PeopleNext]_peopleVars PROVE PeopleInv'
  OBVIOUS
<1>1. CASE UNCHANGED peopleVars
  <2>1. UNCHANGED <<cards, generation, people, aliases, nextId, rebuild, owed>>
    BY <1>1 DEF peopleVars
  <2>2. \A x \in Rebuilders : ReadSound(rebuild[x])'
    BY <2>1 DEF PeopleInv, ReadSound, Indexed, RebuildFields, Cards
  <2>3. Components(cards)' = Components(cards) /\ Grouped(people)' = Grouped(people)
    BY <2>1 DEF Components, Linked, Closed, Shares, LiveIn, Cards, Grouped
  <2>4. Answered'
    BY <2>1, <2>3 DEF PeopleInv, Answered
  <2> QED
    BY <2>1, <2>2, <2>4, IndexSame DEF PeopleInv
<1>2. CASE ForgetPeople
  BY <1>2, PeopleForgotten
<1>3. ASSUME NEW w \in Rebuilders,
             \/ ApplyCards(w) \/ ForgetContacts(w)
             \/ ReadSources(w) \/ ReadPeople(w) \/ ReplacePeople(w) \/ RebuildDies(w)
      PROVE  PeopleInv'
  BY <1>3, CardsChange, Reads, Replaces, Dies
<1> QED
  BY <1>1, <1>2, <1>3 DEF PeopleNext

\* However rebuilds overtake one another, fail and die, for any cards, emails and number
\* of rebuilders: once all have come through the index lists the live cards grouped as
\* they are, no retired or unminted id is a person's, and every alias leads straight to
\* an id in use or gone (rebuild_people, flatten_aliases and the compare of replace_people).
THEOREM PeopleIndexCurrent == PeopleSpec => []PeopleCurrent
<1>1. PeopleInv => PeopleCurrent
  <2> SUFFICES ASSUME PeopleInv PROVE PeopleCurrent
    OBVIOUS
  <2>1. Indexed(Index) /\ Answered
    BY DEF PeopleInv
  <2>2. {Listed(people[c]) : c \in {d \in Cards : people[d] # 0}} = Grouped(people)
    BY DEF Listed, Grouped
  <2>3. /\ \A c \in Cards : people[c] # 0 => people[c] < nextId /\ people[c] \notin DOMAIN aliases
        /\ \A i \in DOMAIN aliases : aliases[i] < nextId /\ aliases[i] \notin DOMAIN aliases
    BY <2>1 DEF Indexed, Index
  <2> QED
    BY <2>1, <2>2, <2>3 DEF PeopleCurrent, Answered
<1> QED
  BY <1>1, PeopleInitHolds, PeopleStep, PTL DEF PeopleSpec

-------------------------------------------------------------------------------
(***************************************************************************)
(* Queued keyword edits.  The row shows the store's word of the server     *)
(* with the unsettled edits on top, so what has to be carried through a    *)
(* step is that this word is right.  A pass writes a set it read earlier   *)
(* with the edits accepted since on top: that is right because edits of    *)
(* one keyword are accepted in the order queued, the last one is what the  *)
(* server shows, and where none was accepted the set read is still right.  *)
(***************************************************************************)

\* No keyword set, or one.
Sets == {NoSet} \cup {SomeSet(x) : x \in SUBSET Keywords}

EditTypeOK ==
  /\ mailbox \in [keywords : SUBSET Keywords, version : Nat]
  /\ row \in [there : BOOLEAN, keywords : SUBSET Keywords]
  /\ serverSet \in Sets /\ edits \in Seq(Edit)
  /\ reading \in [stage : {"idle", "claimed", "read"}, since : Nat, saw : Sets, version : Nat]
  /\ synced \in [version : Nat, since : Nat]
  /\ second \in Nat /\ mishaps \in Nat /\ alien \subseteq Keywords

\* An edit of k is on the server and not settled.
Landing(es, k) ==
  \E i \in DOMAIN es : es[i].state = "InFlight" /\ es[i].landed /\ k \in KeywordsOf(es[i])

\* The edits of k accepted after an instant, and whether one was at it.
Accepted(es, since, k) == Naming(es, AcceptedSince(es, since), k)

Excused(es, since, k) ==
  \E i \in DOMAIN es : /\ k \in KeywordsOf(es[i]) /\ es[i].state = "Succeeded"
                       /\ es[i].settledAt = since

\* What the store takes for the server's word.
Base(some, shown) == IF some = NoSet THEN shown ELSE The(some)

\* Instants and versions on record lie in the past, a pass's start after the last
\* pass's.
TimesSound ==
  /\ synced.since <= second
  /\ reading.stage # "idle" => synced.since <= reading.since /\ reading.since <= second
  /\ \A i \in DOMAIN edits : edits[i].state = "Succeeded" => edits[i].settledAt <= second
  /\ synced.version <= mailbox.version
  /\ reading.stage = "read" => reading.version <= mailbox.version

\* Ops on one message run one at a time.
OneFlies ==
  \A i, j \in DOMAIN edits : (edits[i].state = "InFlight" /\ edits[j].state = "InFlight") => i = j

\* server_keywords is kept exactly while a stored message has an unsettled edit.
Pinned == serverSet # NoSet <=> (row.there /\ Unsettled(edits) # {})

\* The row is the server's word with the unsettled edits on top.
RowShown ==
  row.there => row.keywords = Shown(Base(serverSet, row.keywords), edits, Unsettled(edits))

\* An edit the server has taken, not yet settled, is what the server shows.
LandedSeen ==
  \A k \in Keywords \ alien : \A i \in DOMAIN edits :
    (edits[i].state = "InFlight" /\ edits[i].landed /\ k \in KeywordsOf(edits[i])) =>
      (k \in mailbox.keywords <=> k \in edits[i].add)

\* Edits of a keyword are accepted in the order queued, and before any unsettled one.
InOrder ==
  \A k \in Keywords \ alien : \A i \in Accepted(edits, synced.since, k) :
    /\ \A j \in Unsettled(edits) : k \in KeywordsOf(edits[j]) => i < j
    /\ \A j \in Accepted(edits, synced.since, k) : i <= j => edits[i].settledAt <= edits[j].settledAt

\* The last one accepted since the last pass began is what the server shows.
LastAccepted ==
  \A k \in Keywords \ alien : \A i \in Accepted(edits, synced.since, k) :
    (~Landing(edits, k) /\ \A j \in Accepted(edits, synced.since, k) : j <= i) =>
      (k \in mailbox.keywords <=> k \in edits[i].add)

\* The cases in which the store's word of a keyword is the server's: no edit of it was
\* accepted in the second the last pass began, or nothing changed since that pass, or the
\* pass under way found that nothing had.
Sure(k) ==
  \/ ~Excused(edits, synced.since, k)
  \/ mailbox.version = synced.version
  \/ reading.stage = "read" /\ reading.saw = NoSet

\* In those cases the store's word is right, but for an edit taken and not settled.
BaseRight ==
  row.there =>
    \A k \in Keywords \ alien :
      (Sure(k) /\ ~Landing(edits, k)) =>
        (k \in Base(serverSet, row.keywords) <=> k \in mailbox.keywords)

\* No edit of k was accepted at an instant or after it.
NoneSince(es, since, k) ==
  \A i \in DOMAIN es : (k \in KeywordsOf(es[i]) /\ es[i].state = "Succeeded") => es[i].settledAt < since

\* What a pass has read is still right, if the server has not changed or no edit has been
\* accepted since it began.
ReadRight ==
  (reading.stage = "read" /\ reading.saw # NoSet) =>
    /\ reading.version = mailbox.version => The(reading.saw) = mailbox.keywords
    /\ \A k \in Keywords \ alien :
         (~Landing(edits, k) /\ NoneSince(edits, reading.since, k)) =>
           (k \in The(reading.saw) <=> k \in mailbox.keywords)

\* The inductive invariant.
EditInv ==
  /\ EditTypeOK /\ TimesSound /\ OneFlies /\ Pinned /\ RowShown /\ LandedSeen /\ InOrder
  /\ LastAccepted /\ BaseRight /\ ReadRight

-------------------------------------------------------------------------------

\* A set wrapped and unwrapped.
LEMMA SomeSetFacts ==
  ASSUME NEW s \in Sets
  PROVE  /\ s # NoSet => The(s) \in SUBSET Keywords
         /\ \A x : SomeSet(x) # NoSet /\ The(SomeSet(x)) = x
BY DEF Sets, SomeSet, NoSet, The

\* The positions of the queue.
LEMMA EditDomain ==
  ASSUME NEW es \in Seq(Edit)
  PROVE  /\ DOMAIN es = 1..Len(es) /\ Len(es) \in Nat
         /\ \A i \in DOMAIN es : i \in Nat /\ es[i] \in Edit
OBVIOUS

\* The fields of an edit.
LEMMA EditFields ==
  ASSUME NEW e \in Edit
  PROVE  /\ e.add \in SUBSET Keywords /\ e.remove \in SUBSET Keywords
         /\ e.state \in {"Pending", "InFlight", "Succeeded", "Failed", "Cancelled"}
         /\ e.landed \in BOOLEAN /\ e.settledAt \in Nat
         /\ KeywordsOf(e) \in SUBSET Keywords
BY DEF Edit, KeywordsOf

\* A keyword no edit names is left as it was.
LEMMA ShownPlain ==
  ASSUME NEW es, NEW I, NEW base, NEW k \in Keywords, Naming(es, I, k) = {}
  PROVE  k \in Shown(base, es, I) <=> k \in base
BY DEF Shown

\* The last edit naming a keyword decides it, whatever lies below.
LEMMA LastNaming ==
  ASSUME NEW es \in Seq(Edit), NEW I \in SUBSET DOMAIN es, NEW k \in Keywords,
         Naming(es, I, k) # {}
  PROVE  /\ Max(Naming(es, I, k)) \in Naming(es, I, k)
         /\ \A j \in Naming(es, I, k) : j <= Max(Naming(es, I, k))
         /\ \A base : k \in Shown(base, es, I) <=> k \in es[Max(Naming(es, I, k))].add
<1>1. DOMAIN es = 1..Len(es) /\ Len(es) \in Nat
  BY EditDomain
<1>2. PICK n \in Nat : n = Len(es)
  BY <1>1
<1>3. Naming(es, I, k) \in SUBSET (0..n)
  BY <1>1, <1>2 DEF Naming
<1>4. /\ Max(Naming(es, I, k)) \in Naming(es, I, k)
      /\ \A j \in Naming(es, I, k) : j <= Max(Naming(es, I, k))
  BY <1>3, GreatestOf
<1> QED
  BY <1>4 DEF Shown

\* What lies below matters only for a keyword no edit names.
LEMMA ShownSame ==
  ASSUME NEW es, NEW I, NEW a, NEW b, NEW k \in Keywords,
         Naming(es, I, k) = {} => (k \in a <=> k \in b)
  PROVE  k \in Shown(a, es, I) <=> k \in Shown(b, es, I)
BY DEF Shown

\* No edits on top.
LEMMA ShownNone ==
  ASSUME NEW es, NEW base \in SUBSET Keywords
  PROVE  Shown(base, es, {}) = base
<1>1. \A k \in Keywords : Naming(es, {}, k) = {}
  BY DEF Naming
<1> QED
  BY <1>1 DEF Shown

\* Only keywords are shown.
LEMMA ShownTyped ==
  ASSUME NEW es, NEW I, NEW base
  PROVE  Shown(base, es, I) \in SUBSET Keywords
BY DEF Shown

\* One edit changed its state, not what it asks.
Steps(es, fs, i) ==
  /\ fs \in Seq(Edit) /\ DOMAIN fs = DOMAIN es
  /\ \A j \in DOMAIN es : j # i => fs[j] = es[j]
  /\ \A j \in DOMAIN es : fs[j].add = es[j].add /\ KeywordsOf(fs[j]) = KeywordsOf(es[j])

\* What is shown depends on what the edits ask, not on how they stand.
LEMMA ShownKept ==
  ASSUME NEW es, NEW fs, NEW i, Steps(es, fs, i), NEW I \in SUBSET DOMAIN es, NEW base,
         es \in Seq(Edit)
  PROVE  /\ \A k : Naming(fs, I, k) = Naming(es, I, k)
         /\ Shown(base, fs, I) = Shown(base, es, I)
<1>1. \A k : Naming(fs, I, k) = Naming(es, I, k)
  BY DEF Naming, Steps
<1>2. ASSUME NEW k \in Keywords PROVE k \in Shown(base, fs, I) <=> k \in Shown(base, es, I)
  <2>1. CASE Naming(es, I, k) = {}
    BY <1>1, <2>1, ShownPlain
  <2>2. CASE Naming(es, I, k) # {}
    <3>1. Max(Naming(es, I, k)) \in DOMAIN es
      BY <2>2, LastNaming DEF Naming
    <3> QED
      BY <1>1, <2>2, <3>1 DEF Shown, Steps
  <2> QED
    BY <2>1, <2>2
<1>3. Shown(base, fs, I) \in SUBSET Keywords /\ Shown(base, es, I) \in SUBSET Keywords
  BY ShownTyped
<1>4. Shown(base, fs, I) = Shown(base, es, I)
  BY <1>2, <1>3
<1> QED
  BY <1>1, <1>4

\* Replacing one edit by one that asks the same.
LEMMA EditStepped ==
  ASSUME NEW es \in Seq(Edit), NEW i \in DOMAIN es, NEW f, NEW fs,
         fs = [es EXCEPT ![i] = f], f \in Edit, f.add = es[i].add, f.remove = es[i].remove
  PROVE  Steps(es, fs, i) /\ fs[i] = f
<1>1. \A j \in DOMAIN es : j # i => fs[j] = es[j]
  OBVIOUS
<1>2. fs[i] = f
  OBVIOUS
<1>3. fs \in Seq(Edit) /\ DOMAIN fs = DOMAIN es
  BY EditDomain
<1> QED
  BY <1>1, <1>2, <1>3 DEF Steps, KeywordsOf

\* The accepted edits are the same ones.
SameAccepted(es, fs) ==
  /\ \A j \in DOMAIN es : es[j].state = "Succeeded" => j \in DOMAIN fs /\ fs[j] = es[j]
  /\ \A j \in DOMAIN fs : fs[j].state = "Succeeded" => j \in DOMAIN es /\ fs[j] = es[j]

\* Membership of Accepted, spelled out.
LEMMA AcceptedFacts ==
  ASSUME NEW es, NEW since, NEW k, NEW j
  PROVE  j \in Accepted(es, since, k) <=>
           /\ j \in DOMAIN es /\ es[j].state = "Succeeded"
           /\ es[j].settledAt > since /\ k \in KeywordsOf(es[j])
BY DEF Accepted, Naming, AcceptedSince

\* With the same accepted edits, whatever is said of them stays said.
LEMMA AcceptedKept ==
  ASSUME NEW es, NEW fs, SameAccepted(es, fs)
  PROVE  /\ \A since, k : Accepted(fs, since, k) = Accepted(es, since, k)
         /\ \A since, k : Excused(fs, since, k) <=> Excused(es, since, k)
         /\ \A since, k : NoneSince(fs, since, k) <=> NoneSince(es, since, k)
         /\ \A since, k : \A j \in Accepted(es, since, k) : fs[j] = es[j]
<1>1. \A since, k, j : j \in Accepted(fs, since, k) <=> j \in Accepted(es, since, k)
  BY AcceptedFacts DEF SameAccepted
<1>2. \A since, k : Accepted(fs, since, k) = Accepted(es, since, k)
  BY <1>1
<1>3. \A since, k : Excused(fs, since, k) <=> Excused(es, since, k)
  BY DEF Excused, SameAccepted
<1>4. \A since, k : NoneSince(fs, since, k) <=> NoneSince(es, since, k)
  BY DEF NoneSince, SameAccepted
<1>5. \A since, k : \A j \in Accepted(es, since, k) : fs[j] = es[j]
  BY AcceptedFacts DEF SameAccepted
<1> QED
  BY <1>2, <1>3, <1>4, <1>5

\* A step that accepts nothing and reads nothing.
Undecided ==
  /\ SameAccepted(edits, edits')
  /\ \A j \in Unsettled(edits') :
       \/ \A i \in DOMAIN edits : i < j
       \/ j \in Unsettled(edits) /\ KeywordsOf(edits'[j]) = KeywordsOf(edits[j])
  /\ row'.there => row.there /\ Base(serverSet', row'.keywords) = Base(serverSet, row.keywords)
  /\ UNCHANGED <<reading, synced>>
  /\ second <= second'
  /\ alien \subseteq alien'
  /\ \A k \in Keywords \ alien' :
       Landing(edits', k) \/ (~Landing(edits, k) /\ (k \in mailbox'.keywords <=> k \in mailbox.keywords))
  /\ mailbox.version <= mailbox'.version
  /\ mailbox'.version = mailbox.version => mailbox' = mailbox

\* Such a step keeps every part of the invariant about accepted edits and the server.
LEMMA UndecidedStep ==
  ASSUME EditInv, EditTypeOK', Undecided
  PROVE  TimesSound' /\ InOrder' /\ LastAccepted' /\ BaseRight' /\ ReadRight'
<1>0. SameAccepted(edits, edits') /\ UNCHANGED <<reading, synced>> /\ alien \subseteq alien'
  BY DEF Undecided
<1>1. /\ \A k : Accepted(edits', synced.since, k) = Accepted(edits, synced.since, k)
      /\ \A since, k : Excused(edits', since, k) <=> Excused(edits, since, k)
      /\ \A since, k : NoneSince(edits', since, k) <=> NoneSince(edits, since, k)
      /\ \A k : \A j \in Accepted(edits, synced.since, k) : edits'[j] = edits[j]
  BY <1>0, AcceptedKept
<1>2. \A k \in Keywords \ alien' :
        ~Landing(edits', k) => ~Landing(edits, k) /\ (k \in mailbox'.keywords <=> k \in mailbox.keywords)
  BY DEF Undecided
<1>3. \A k \in Keywords \ alien' : k \in Keywords \ alien
  BY <1>0
<1>4. TimesSound'
  <2>1. second \in Nat /\ second' \in Nat /\ synced.since \in Nat /\ reading.since \in Nat
    BY DEF EditInv, EditTypeOK
  <2>2. mailbox.version \in Nat /\ mailbox'.version \in Nat /\ synced.version \in Nat /\ reading.version \in Nat
    BY DEF EditInv, EditTypeOK
  <2>3. second <= second' /\ mailbox.version <= mailbox'.version
    BY DEF Undecided
  <2>4. \A i \in DOMAIN edits' : edits'[i].state = "Succeeded" => edits'[i].settledAt <= second'
    <3> SUFFICES ASSUME NEW i \in DOMAIN edits', edits'[i].state = "Succeeded"
                 PROVE  edits'[i].settledAt <= second'
      OBVIOUS
    <3>1. i \in DOMAIN edits /\ edits'[i] = edits[i]
      BY <1>0 DEF SameAccepted
    <3>2. edits[i].settledAt <= second
      BY <3>1 DEF EditInv, TimesSound
    <3>3. edits[i].settledAt \in Nat
      BY <3>1, EditDomain, EditFields DEF EditInv, EditTypeOK
    <3> QED
      BY <3>1, <3>2, <3>3, <2>1, <2>3
  <2>5. synced.since <= second /\ synced.version <= mailbox.version
        /\ (reading.stage # "idle" => synced.since <= reading.since /\ reading.since <= second)
        /\ (reading.stage = "read" => reading.version <= mailbox.version)
    BY DEF EditInv, TimesSound
  <2>6. /\ synced.since <= second' /\ synced.version <= mailbox'.version
        /\ (reading.stage # "idle" => synced.since <= reading.since /\ reading.since <= second')
        /\ (reading.stage = "read" => reading.version <= mailbox'.version)
    BY <2>1, <2>2, <2>3, <2>5
  <2> QED
    BY <2>4, <2>6, <1>0 DEF TimesSound
<1>5. InOrder'
  <2> SUFFICES ASSUME NEW k \in Keywords \ alien', NEW i \in Accepted(edits', synced'.since, k)
               PROVE  /\ \A j \in Unsettled(edits') : k \in KeywordsOf(edits'[j]) => i < j
                      /\ \A j \in Accepted(edits', synced'.since, k) :
                           i <= j => edits'[i].settledAt <= edits'[j].settledAt
    BY DEF InOrder
  <2>1. synced' = synced /\ k \in Keywords \ alien
    BY <1>0, <1>3
  <2>2. i \in Accepted(edits, synced.since, k)
    BY <1>1, <2>1
  <2>3. /\ \A j \in Unsettled(edits) : k \in KeywordsOf(edits[j]) => i < j
        /\ \A j \in Accepted(edits, synced.since, k) : i <= j => edits[i].settledAt <= edits[j].settledAt
    BY <2>1, <2>2 DEF EditInv, InOrder
  <2>4. i \in DOMAIN edits
    BY <2>2, AcceptedFacts
  <2>5. \A j \in Unsettled(edits') : k \in KeywordsOf(edits'[j]) => i < j
    BY <2>3, <2>4 DEF Undecided
  <2>6. \A j \in Accepted(edits', synced'.since, k) : i <= j => edits'[i].settledAt <= edits'[j].settledAt
    BY <2>1, <2>2, <2>3, <1>1
  <2> QED
    BY <2>5, <2>6
<1>6. LastAccepted'
  <2> SUFFICES ASSUME NEW k \in Keywords \ alien', NEW i \in Accepted(edits', synced'.since, k),
                      ~Landing(edits', k), \A j \in Accepted(edits', synced'.since, k) : j <= i
               PROVE  k \in mailbox'.keywords <=> k \in edits'[i].add
    BY DEF LastAccepted
  <2>1. synced' = synced /\ k \in Keywords \ alien
    BY <1>0, <1>3
  <2>2. i \in Accepted(edits, synced.since, k) /\ edits'[i] = edits[i]
        /\ \A j \in Accepted(edits, synced.since, k) : j <= i
    BY <1>1, <2>1
  <2>3. ~Landing(edits, k) /\ (k \in mailbox'.keywords <=> k \in mailbox.keywords)
    BY <1>2
  <2>4. k \in mailbox.keywords <=> k \in edits[i].add
    BY <2>1, <2>2, <2>3 DEF EditInv, LastAccepted
  <2> QED
    BY <2>2, <2>3, <2>4
<1>7. mailbox'.version = synced.version => mailbox.version = synced.version
  <2>1. mailbox.version \in Nat /\ mailbox'.version \in Nat /\ synced.version \in Nat
    BY DEF EditInv, EditTypeOK
  <2>2. mailbox.version <= mailbox'.version /\ synced.version <= mailbox.version
    BY DEF Undecided, EditInv, TimesSound
  <2> QED
    BY <2>1, <2>2
<1>8. BaseRight'
  <2> SUFFICES ASSUME row'.there, NEW k \in Keywords \ alien', Sure(k)', ~Landing(edits', k)
               PROVE  k \in Base(serverSet', row'.keywords) <=> k \in mailbox'.keywords
    BY DEF BaseRight
  <2>1. k \in Keywords \ alien /\ synced' = synced /\ reading' = reading
    BY <1>0, <1>3
  <2>2. ~Landing(edits, k) /\ (k \in mailbox'.keywords <=> k \in mailbox.keywords)
    BY <1>2
  <2>3. row.there /\ Base(serverSet', row'.keywords) = Base(serverSet, row.keywords)
    BY DEF Undecided
  <2>4. Sure(k)
    BY <1>1, <1>7, <2>1 DEF Sure
  <2>5. k \in Base(serverSet, row.keywords) <=> k \in mailbox.keywords
    BY <2>1, <2>2, <2>3, <2>4 DEF EditInv, BaseRight
  <2> QED
    BY <2>2, <2>3, <2>5
<1>9. ReadRight'
  <2> SUFFICES ASSUME reading'.stage = "read", reading'.saw # NoSet
               PROVE  /\ reading'.version = mailbox'.version => The(reading'.saw) = mailbox'.keywords
                      /\ \A k \in Keywords \ alien' :
                           (~Landing(edits', k) /\ NoneSince(edits', reading'.since, k)) =>
                             (k \in The(reading'.saw) <=> k \in mailbox'.keywords)
    BY DEF ReadRight
  <2>1. reading' = reading /\ reading.stage = "read" /\ reading.saw # NoSet
    BY <1>0
  <2>2. /\ reading.version = mailbox.version => The(reading.saw) = mailbox.keywords
        /\ \A k \in Keywords \ alien :
             (~Landing(edits, k) /\ NoneSince(edits, reading.since, k)) =>
               (k \in The(reading.saw) <=> k \in mailbox.keywords)
    BY <2>1 DEF EditInv, ReadRight
  <2>3. ASSUME reading.version = mailbox'.version PROVE The(reading.saw) = mailbox'.keywords
    <3>1. mailbox.version \in Nat /\ mailbox'.version \in Nat /\ reading.version \in Nat
      BY DEF EditInv, EditTypeOK
    <3>2. mailbox.version <= mailbox'.version /\ reading.version <= mailbox.version
      BY <2>1 DEF Undecided, EditInv, TimesSound
    <3>3. mailbox.version = mailbox'.version
      BY <2>3, <3>1, <3>2
    <3> QED
      BY <2>2, <2>3, <3>3 DEF Undecided
  <2>4. \A k \in Keywords \ alien' :
          (~Landing(edits', k) /\ NoneSince(edits', reading.since, k)) =>
            (k \in The(reading.saw) <=> k \in mailbox'.keywords)
    BY <1>1, <1>2, <1>3, <2>2
  <2> QED
    BY <2>1, <2>3, <2>4
<1> QED
  BY <1>4, <1>5, <1>6, <1>8, <1>9

\* The states of an edit.
EditStates == {"Pending", "InFlight", "Succeeded", "Failed", "Cancelled"}

\* What an edit becomes when its state, and when it was settled or landed, changes.
Became(e, s, l, t) == [e EXCEPT !.state = s, !.landed = l, !.settledAt = t]

\* The fields of the edit so changed.
LEMMA EditBecomes ==
  ASSUME NEW e \in Edit, NEW s \in EditStates,
         NEW l \in BOOLEAN, NEW t \in Nat
  PROVE  /\ Became(e, s, l, t) \in Edit
         /\ Became(e, s, l, t).add = e.add /\ Became(e, s, l, t).remove = e.remove
         /\ Became(e, s, l, t).state = s /\ Became(e, s, l, t).landed = l
         /\ Became(e, s, l, t).settledAt = t
BY DEF Edit, Became, EditStates

\* The queue with its i-th edit so changed.
Turned(es, i, s, l, t) == [es EXCEPT ![i] = Became(es[i], s, l, t)]

\* Turning an edit is a step of it.
LEMMA TurnedEdit ==
  ASSUME NEW es \in Seq(Edit), NEW i \in DOMAIN es,
         NEW s \in EditStates,
         NEW l \in BOOLEAN, NEW t \in Nat
  PROVE  /\ Steps(es, Turned(es, i, s, l, t), i)
         /\ Turned(es, i, s, l, t)[i].state = s /\ Turned(es, i, s, l, t)[i].landed = l
         /\ Turned(es, i, s, l, t)[i].settledAt = t
<1>1. PICK f : f = Became(es[i], s, l, t)
  OBVIOUS
<1>2. es[i] \in Edit
  BY EditDomain
<1>3. /\ f \in Edit /\ f.add = es[i].add /\ f.remove = es[i].remove
      /\ f.state = s /\ f.landed = l /\ f.settledAt = t
  <2>1. PICK e \in Edit : e = es[i]
    BY <1>2
  <2>2. f = Became(e, s, l, t)
    BY <1>1, <2>1
  <2>3. f \in Edit /\ f.add = e.add /\ f.remove = e.remove /\ f.state = s /\ f.settledAt = t
    BY <2>2, EditBecomes
  <2>4. f.landed = l
    BY <2>2, EditBecomes, Zenon
  <2> QED
    BY <2>1, <2>3, <2>4, Zenon
<1>4. PICK fs : fs = Turned(es, i, s, l, t)
  OBVIOUS
<1>5. fs = [es EXCEPT ![i] = f]
  BY <1>1, <1>4 DEF Turned
<1>6. Steps(es, fs, i) /\ fs[i] = f
  BY <1>3, <1>5, EditStepped
<1> QED
  BY <1>3, <1>4, <1>6

\* The queue after an attempt starts.
LEMMA AttemptEdits ==
  ASSUME NEW i \in DOMAIN edits, edits \in Seq(Edit), Attempt(i)
  PROVE  /\ Steps(edits, edits', i)
         /\ edits'[i].state = "InFlight" /\ edits'[i].landed = FALSE
<1>1. edits[i] \in Edit
  BY EditDomain
<1>2. PICK t \in Nat : t = edits[i].settledAt
  BY <1>1, EditFields
<1>3. PICK s \in EditStates : s = "InFlight"
  BY DEF EditStates
<1>4. PICK l \in BOOLEAN : l = FALSE
  OBVIOUS
<1>5. edits' = Turned(edits, i, s, l, t)
  BY <1>1, <1>2, <1>3, <1>4 DEF Attempt, Edit, Became, Turned
<1> QED
  BY <1>3, <1>4, <1>5, TurnedEdit

\* The queue after an attempt reaches the server.
LEMMA LandsEdits ==
  ASSUME NEW i \in DOMAIN edits, edits \in Seq(Edit), Lands(i)
  PROVE  /\ Steps(edits, edits', i)
         /\ edits'[i].state = "InFlight" /\ edits'[i].landed = TRUE
<1>1. edits[i] \in Edit
  BY EditDomain
<1>2. PICK t \in Nat : t = edits[i].settledAt
  BY <1>1, EditFields
<1>3. PICK s \in EditStates : s = "InFlight"
  BY DEF EditStates
<1>4. PICK l \in BOOLEAN : l = TRUE
  OBVIOUS
<1>5. edits' = Turned(edits, i, s, l, t)
  BY <1>1, <1>2, <1>3, <1>4 DEF Lands, Edit, Became, Turned
<1>6. Steps(edits, edits', i) /\ edits'[i].state = s /\ edits'[i].landed = l
  BY <1>5, TurnedEdit
<1> QED
  BY <1>3, <1>4, <1>6, Zenon

\* The queue after an attempt is parked.
LEMMA ParkedEdits ==
  ASSUME NEW i \in DOMAIN edits, edits \in Seq(Edit), Parked(i)
  PROVE  Steps(edits, edits', i) /\ edits'[i].state = "Pending"
<1>1. edits[i] \in Edit
  BY EditDomain
<1>2. PICK t \in Nat : t = edits[i].settledAt
  BY <1>1, EditFields
<1>3. PICK s \in EditStates : s = "Pending"
  BY DEF EditStates
<1>4. PICK l \in BOOLEAN : l = edits[i].landed
  BY <1>1, EditFields
<1>5. edits' = Turned(edits, i, s, l, t)
  BY <1>1, <1>2, <1>3, <1>4 DEF Parked, Edit, Became, Turned
<1> QED
  BY <1>3, <1>4, <1>5, TurnedEdit

\* The queue after an edit is settled.
LEMMA SettleEdits ==
  ASSUME NEW i \in DOMAIN edits, edits \in Seq(Edit), second \in Nat,
         NEW state \in {"Succeeded", "Failed", "Cancelled"}, Settle(i, state)
  PROVE  /\ Steps(edits, edits', i)
         /\ edits'[i].state = state /\ edits'[i].settledAt = second
<1>1. edits[i] \in Edit
  BY EditDomain
<1>2. PICK t \in Nat : t = second
  OBVIOUS
<1>4. PICK l \in BOOLEAN : l = edits[i].landed
  BY <1>1, EditFields
<1>5. edits' = Turned(edits, i, state, l, t)
  BY <1>1, <1>2, <1>4 DEF Settle, Edit, Became, Turned
<1>7. state \in EditStates
  BY DEF EditStates
<1> QED
  BY <1>2, <1>4, <1>5, <1>7, TurnedEdit

\* The queue after an edit is added.
LEMMA QueueEdits ==
  ASSUME NEW add \in SUBSET Keywords, NEW remove \in SUBSET Keywords, edits \in Seq(Edit),
         Queue(add, remove)
  PROVE  /\ edits' \in Seq(Edit) /\ DOMAIN edits' = 1..(Len(edits) + 1)
         /\ \A j \in DOMAIN edits : edits'[j] = edits[j]
         /\ edits'[Len(edits) + 1].state = "Pending"
<1>1. PICK e : e = [add |-> add, remove |-> remove, state |-> "Pending", landed |-> FALSE, settledAt |-> 0]
  OBVIOUS
<1>2. e \in Edit /\ e.state = "Pending"
  BY <1>1 DEF Edit
<1>3. edits' = Append(edits, e)
  BY <1>1 DEF Queue
<1> QED
  BY <1>2, <1>3

\* The unsettled states.
Open == {"Pending", "InFlight"}

\* Membership of Unsettled, spelled out.
LEMMA UnsettledFacts ==
  ASSUME NEW es, NEW j
  PROVE  j \in Unsettled(es) <=> j \in DOMAIN es /\ es[j].state \in Open
BY DEF Unsettled, Open

\* An edit that stays unsettled.
LEMMA StaysOpen ==
  ASSUME EditInv, NEW i \in DOMAIN edits, Steps(edits, edits', i),
         edits[i].state \in Open, edits'[i].state \in Open, UNCHANGED <<row, serverSet>>
  PROVE  /\ SameAccepted(edits, edits')
         /\ Unsettled(edits') = Unsettled(edits)
         /\ \A j \in Unsettled(edits') : KeywordsOf(edits'[j]) = KeywordsOf(edits[j])
         /\ Pinned' /\ RowShown'
<1>1. SameAccepted(edits, edits')
  BY DEF SameAccepted, Steps, Open
<1>2. \A j : j \in Unsettled(edits') <=> j \in Unsettled(edits)
  BY UnsettledFacts DEF Steps
<1>3. Unsettled(edits') = Unsettled(edits)
  BY <1>2
<1>4. \A j \in Unsettled(edits') : KeywordsOf(edits'[j]) = KeywordsOf(edits[j])
  BY <1>3, UnsettledFacts DEF Steps
<1>5. Pinned'
  BY <1>3 DEF EditInv, Pinned
<1>6. RowShown'
  <2>1. Unsettled(edits) \in SUBSET DOMAIN edits /\ edits \in Seq(Edit)
    BY DEF Unsettled, EditInv, EditTypeOK
  <2>2. PICK base : base = Base(serverSet, row.keywords)
    OBVIOUS
  <2>3. Shown(base, edits', Unsettled(edits)) = Shown(base, edits, Unsettled(edits))
    BY <2>1, ShownKept
  <2> QED
    BY <1>3, <2>2, <2>3 DEF EditInv, RowShown
<1> QED
  BY <1>1, <1>3, <1>4, <1>5, <1>6

\* Attempt: nothing is on the server yet.
LEMMA AttemptKeeps ==
  ASSUME EditInv, NEW i \in DOMAIN edits, Attempt(i)
  PROVE  EditInv'
<1>1. edits \in Seq(Edit)
  BY DEF EditInv, EditTypeOK
<1>2. Steps(edits, edits', i) /\ edits'[i].state = "InFlight" /\ edits'[i].landed = FALSE
  BY <1>1, AttemptEdits
<1>3. edits[i].state = "Pending" /\ \A j \in DOMAIN edits : edits[j].state # "InFlight"
  BY DEF Attempt
<1>4. UNCHANGED <<mailbox, row, serverSet, reading, synced, second, mishaps, alien>>
  BY DEF Attempt
<1>5. EditTypeOK'
  BY <1>2, <1>4 DEF EditInv, EditTypeOK, Steps
<1>6. /\ SameAccepted(edits, edits') /\ Unsettled(edits') = Unsettled(edits)
      /\ \A j \in Unsettled(edits') : KeywordsOf(edits'[j]) = KeywordsOf(edits[j])
      /\ Pinned' /\ RowShown'
  <2>1. edits[i].state \in Open /\ edits'[i].state \in Open /\ UNCHANGED <<row, serverSet>>
    BY <1>2, <1>3, <1>4 DEF Open
  <2> QED
    BY <1>2, <2>1, StaysOpen
<1>7. \A k : ~Landing(edits, k)
  BY <1>3 DEF Landing
<1>8. Undecided
  BY <1>1, <1>4, <1>5, <1>6, <1>7 DEF Undecided, EditTypeOK
<1>9. OneFlies'
  BY <1>2, <1>3 DEF OneFlies, Steps
<1>10. LandedSeen'
  BY <1>2, <1>3 DEF LandedSeen, Steps
<1>11. TimesSound' /\ InOrder' /\ LastAccepted' /\ BaseRight' /\ ReadRight'
  BY <1>5, <1>8, UndecidedStep
<1> QED
  BY <1>5, <1>6, <1>9, <1>10, <1>11 DEF EditInv

\* Lands: the keywords it changes are those of an edit taken and not settled.
LEMMA LandsKeeps ==
  ASSUME EditInv, NEW i \in DOMAIN edits, Lands(i)
  PROVE  EditInv'
<1>1. edits \in Seq(Edit)
  BY DEF EditInv, EditTypeOK
<1>2. Steps(edits, edits', i) /\ edits'[i].state = "InFlight" /\ edits'[i].landed = TRUE
  BY <1>1, LandsEdits
<1>3. edits[i].state = "InFlight" /\ ~edits[i].landed
  BY DEF Lands
<1>4. UNCHANGED <<row, serverSet, reading, synced, second, mishaps, alien>>
  BY DEF Lands
<1>5. PICK set : set = ApplyTo(mailbox.keywords, edits[i])
  OBVIOUS
<1>6. /\ mailbox' \in [keywords : SUBSET Keywords, version : Nat]
      /\ mailbox'.keywords = set
      /\ mailbox.version <= mailbox'.version
      /\ mailbox'.version = mailbox.version => mailbox' = mailbox
  <2>1. mailbox \in [keywords : SUBSET Keywords, version : Nat]
    BY DEF EditInv, EditTypeOK
  <2>2. set \in SUBSET Keywords
    BY <1>1, <1>5, <2>1, EditDomain, EditFields DEF ApplyTo
  <2>3. mailbox' = [keywords |-> set, version |-> mailbox.version + IF set = mailbox.keywords THEN 0 ELSE 1]
    BY <1>5 DEF Lands, ServerSets
  <2> QED
    BY <2>1, <2>2, <2>3
<1>7. EditTypeOK'
  BY <1>2, <1>4, <1>6 DEF EditInv, EditTypeOK, Steps
<1>8. /\ SameAccepted(edits, edits') /\ Unsettled(edits') = Unsettled(edits)
      /\ \A j \in Unsettled(edits') : KeywordsOf(edits'[j]) = KeywordsOf(edits[j])
      /\ Pinned' /\ RowShown'
  <2>1. edits[i].state \in Open /\ edits'[i].state \in Open /\ UNCHANGED <<row, serverSet>>
    BY <1>2, <1>3, <1>4 DEF Open
  <2> QED
    BY <1>2, <2>1, StaysOpen
<1>9. \A j \in DOMAIN edits : edits[j].state = "InFlight" => j = i
  BY <1>3 DEF EditInv, OneFlies
<1>10. \A k : ~Landing(edits, k)
  BY <1>3, <1>9 DEF Landing
<1>11. \A k : k \in KeywordsOf(edits[i]) => Landing(edits', k)
  BY <1>2 DEF Landing, Steps
<1>12. \A k : k \notin KeywordsOf(edits[i]) => (k \in mailbox'.keywords <=> k \in mailbox.keywords)
  BY <1>5, <1>6 DEF ApplyTo, KeywordsOf
<1>13. Undecided
  BY <1>4, <1>6, <1>7, <1>8, <1>10, <1>11, <1>12 DEF Undecided, EditTypeOK
<1>14. OneFlies'
  BY <1>2, <1>3, <1>9 DEF OneFlies, Steps
<1>15. LandedSeen'
  <2> SUFFICES ASSUME NEW k \in Keywords \ alien', NEW j \in DOMAIN edits',
                      edits'[j].state = "InFlight", k \in KeywordsOf(edits'[j])
               PROVE  k \in mailbox'.keywords <=> k \in edits'[j].add
    BY DEF LandedSeen
  <2>1. j = i
    BY <1>2, <1>9 DEF Steps
  <2>2. k \in KeywordsOf(edits[i]) /\ edits'[i].add = edits[i].add
    BY <1>2, <2>1 DEF Steps
  <2> QED
    BY <1>5, <1>6, <2>1, <2>2 DEF ApplyTo, KeywordsOf
<1>16. TimesSound' /\ InOrder' /\ LastAccepted' /\ BaseRight' /\ ReadRight'
  BY <1>7, <1>13, UndecidedStep
<1> QED
  BY <1>7, <1>8, <1>14, <1>15, <1>16 DEF EditInv

\* Parked: an answer lost after the server took the edit leaves its keywords in doubt.
LEMMA ParkedKeeps ==
  ASSUME EditInv, NEW i \in DOMAIN edits, Parked(i)
  PROVE  EditInv'
<1>1. edits \in Seq(Edit)
  BY DEF EditInv, EditTypeOK
<1>2. Steps(edits, edits', i) /\ edits'[i].state = "Pending"
  BY <1>1, ParkedEdits
<1>3. edits[i].state = "InFlight"
  BY DEF Parked
<1>4. UNCHANGED <<mailbox, row, serverSet, reading, synced, second>>
  BY DEF Parked
<1>5. /\ alien \subseteq alien' /\ alien' \subseteq Keywords
      /\ edits[i].landed => \A k \in KeywordsOf(edits[i]) : k \in alien'
  <2>1. alien' = IF edits[i].landed THEN alien \cup KeywordsOf(edits[i]) ELSE alien
    BY DEF Parked
  <2>2. KeywordsOf(edits[i]) \in SUBSET Keywords /\ alien \subseteq Keywords
    BY <1>1, EditDomain, EditFields DEF EditInv, EditTypeOK
  <2> QED
    BY <2>1, <2>2
<1>6. EditTypeOK'
  <2>1. mishaps' \in Nat
    BY DEF Parked, Mishap, EditInv, EditTypeOK
  <2> QED
    BY <1>2, <1>4, <1>5, <2>1 DEF EditInv, EditTypeOK, Steps
<1>7. /\ SameAccepted(edits, edits') /\ Unsettled(edits') = Unsettled(edits)
      /\ \A j \in Unsettled(edits') : KeywordsOf(edits'[j]) = KeywordsOf(edits[j])
      /\ Pinned' /\ RowShown'
  <2>1. edits[i].state \in Open /\ edits'[i].state \in Open /\ UNCHANGED <<row, serverSet>>
    BY <1>2, <1>3, <1>4 DEF Open
  <2> QED
    BY <1>2, <2>1, StaysOpen
<1>8. \A k \in Keywords \ alien' : ~Landing(edits, k)
  BY <1>3, <1>5 DEF Landing, EditInv, OneFlies
<1>9. Undecided
  BY <1>4, <1>5, <1>6, <1>7, <1>8 DEF Undecided, EditTypeOK
<1>10. \A j \in DOMAIN edits' : edits'[j].state # "InFlight"
  BY <1>2, <1>3 DEF EditInv, OneFlies, Steps
<1>11. OneFlies' /\ LandedSeen'
  BY <1>10 DEF OneFlies, LandedSeen
<1>12. TimesSound' /\ InOrder' /\ LastAccepted' /\ BaseRight' /\ ReadRight'
  BY <1>6, <1>9, UndecidedStep
<1> QED
  BY <1>6, <1>7, <1>11, <1>12 DEF EditInv

\* Queue: the new edit is the last, and goes on top of the same word of the server.
LEMMA QueueKeeps ==
  ASSUME EditInv, NEW add \in SUBSET Keywords, NEW remove \in SUBSET Keywords, Queue(add, remove)
  PROVE  EditInv'
<1>1. edits \in Seq(Edit)
  BY DEF EditInv, EditTypeOK
<1>2. /\ edits' \in Seq(Edit) /\ DOMAIN edits' = 1..(Len(edits) + 1)
      /\ \A j \in DOMAIN edits : edits'[j] = edits[j]
      /\ edits'[Len(edits) + 1].state = "Pending"
  BY <1>1, QueueEdits
<1>3. DOMAIN edits = 1..Len(edits) /\ Len(edits) \in Nat
  BY <1>1, EditDomain
<1>4. PICK n \in Nat : n = Len(edits)
  BY <1>3
<1>5. /\ \A j \in DOMAIN edits : j \in DOMAIN edits' /\ j < n + 1
      /\ \A j \in DOMAIN edits' : j \in DOMAIN edits \/ j = n + 1
      /\ n + 1 \in DOMAIN edits'
  BY <1>2, <1>3, <1>4
<1>6. UNCHANGED <<mailbox, reading, synced, second, mishaps, alien>>
  BY DEF Queue
<1>7. PICK server : server = Base(serverSet, row.keywords)
  OBVIOUS
<1>8. server \in SUBSET Keywords
  BY <1>7, SomeSetFacts DEF Base, EditInv, EditTypeOK
<1>9. n + 1 \in Unsettled(edits') /\ edits'[n + 1].state = "Pending"
  BY <1>2, <1>4, <1>5, UnsettledFacts DEF Open
<1>10. /\ row' \in [there : BOOLEAN, keywords : SUBSET Keywords] /\ serverSet' \in Sets
       /\ row'.there => row.there /\ Base(serverSet', row'.keywords) = Base(serverSet, row.keywords)
       /\ Pinned' /\ RowShown'
  <2>1. CASE row.there
    <3>1. /\ serverSet' = SomeSet(server)
          /\ row' = [row EXCEPT !.keywords = Shown(server, edits', Unsettled(edits'))]
      BY <1>7, <2>1 DEF Queue, Show, Base
    <3>2. PICK shown : shown = Shown(server, edits', Unsettled(edits'))
      OBVIOUS
    <3>3. shown \in SUBSET Keywords
      BY <3>2, ShownTyped
    <3>4. row' \in [there : BOOLEAN, keywords : SUBSET Keywords] /\ row'.there /\ row'.keywords = shown
      BY <2>1, <3>1, <3>2, <3>3 DEF EditInv, EditTypeOK
    <3>5. serverSet' # NoSet /\ The(serverSet') = server /\ serverSet' \in Sets
      BY <1>8, <3>1, SomeSetFacts DEF Sets, EditInv, EditTypeOK
    <3>6. Base(serverSet', row'.keywords) = server
      BY <3>5 DEF Base
    <3> QED
      BY <1>7, <1>9, <2>1, <3>2, <3>4, <3>5, <3>6 DEF Pinned, RowShown
  <2>2. CASE ~row.there
    <3>1. row' = row /\ serverSet' = serverSet
      BY <2>2 DEF Queue
    <3>2. serverSet = NoSet
      BY <2>2 DEF EditInv, Pinned
    <3> QED
      BY <2>2, <3>1, <3>2 DEF EditInv, EditTypeOK, Pinned, RowShown
  <2> QED
    BY <2>1, <2>2
<1>11. EditTypeOK'
  BY <1>2, <1>6, <1>10 DEF EditInv, EditTypeOK
<1>12. SameAccepted(edits, edits')
  BY <1>2, <1>5, <1>9 DEF SameAccepted
<1>13. \A k : Landing(edits', k) <=> Landing(edits, k)
  BY <1>2, <1>5, <1>9 DEF Landing
<1>14. \A j \in Unsettled(edits') :
         \/ \A i \in DOMAIN edits : i < j
         \/ j \in Unsettled(edits) /\ KeywordsOf(edits'[j]) = KeywordsOf(edits[j])
  BY <1>2, <1>5, UnsettledFacts
<1>15. Undecided
  BY <1>6, <1>10, <1>11, <1>12, <1>13, <1>14 DEF Undecided, EditTypeOK
<1>16. OneFlies'
  BY <1>2, <1>5, <1>9 DEF EditInv, OneFlies
<1>17. LandedSeen'
  BY <1>2, <1>5, <1>6, <1>9 DEF EditInv, LandedSeen
<1>18. TimesSound' /\ InOrder' /\ LastAccepted' /\ BaseRight' /\ ReadRight'
  BY <1>11, <1>15, UndecidedStep
<1> QED
  BY <1>10, <1>11, <1>16, <1>17, <1>18 DEF EditInv

\* OtherClient: what it changes is not for the edits to decide.
LEMMA OtherClientKeeps ==
  ASSUME EditInv, NEW keywords \in SUBSET Keywords, OtherClient(keywords)
  PROVE  EditInv'
<1>1. UNCHANGED <<row, serverSet, edits, reading, synced, second>>
  BY DEF OtherClient
<1>2. /\ mailbox' \in [keywords : SUBSET Keywords, version : Nat] /\ mailbox'.keywords = keywords
      /\ mailbox.version <= mailbox'.version /\ mailbox'.version # mailbox.version
  <2>1. mailbox \in [keywords : SUBSET Keywords, version : Nat] /\ keywords # mailbox.keywords
    BY DEF EditInv, EditTypeOK, OtherClient
  <2>2. mailbox' = [keywords |-> keywords, version |-> mailbox.version + 1]
    BY <2>1 DEF OtherClient, ServerSets
  <2> QED
    BY <2>1, <2>2
<1>3. alien \subseteq alien' /\ alien' \subseteq Keywords
      /\ \A k : k \notin alien' => (k \in mailbox'.keywords <=> k \in mailbox.keywords)
  BY <1>2 DEF OtherClient, EditInv, EditTypeOK
<1>4. EditTypeOK'
  <2>1. mishaps' \in Nat
    BY DEF OtherClient, Mishap, EditInv, EditTypeOK
  <2> QED
    BY <1>1, <1>2, <1>3, <2>1 DEF EditInv, EditTypeOK
<1>5. SameAccepted(edits, edits') /\ Unsettled(edits') = Unsettled(edits)
  BY <1>1 DEF SameAccepted
<1>6. Undecided
  <2>1. second <= second'
    BY <1>1 DEF EditInv, EditTypeOK
  <2> QED
    BY <1>1, <1>2, <1>3, <1>5, <2>1 DEF Undecided
<1>7. OneFlies' /\ Pinned' /\ RowShown'
  BY <1>1 DEF EditInv, OneFlies, Pinned, RowShown
<1>8. LandedSeen'
  BY <1>1, <1>3 DEF EditInv, LandedSeen
<1>9. TimesSound' /\ InOrder' /\ LastAccepted' /\ BaseRight' /\ ReadRight'
  BY <1>4, <1>6, UndecidedStep
<1> QED
  BY <1>4, <1>7, <1>8, <1>9 DEF EditInv

\* Tick.
LEMMA TickKeeps ==
  ASSUME EditInv, Tick
  PROVE  EditInv'
<1>1. UNCHANGED <<mailbox, row, serverSet, edits, reading, synced, mishaps, alien>>
      /\ second' = second + 1 /\ second \in Nat
  BY DEF Tick, EditInv, EditTypeOK
<1>2. EditTypeOK'
  BY <1>1 DEF EditInv, EditTypeOK
<1>3. SameAccepted(edits, edits') /\ Unsettled(edits') = Unsettled(edits)
  BY <1>1 DEF SameAccepted
<1>4. Undecided
  <2>1. second <= second' /\ mailbox.version <= mailbox'.version
    BY <1>1 DEF EditInv, EditTypeOK
  <2> QED
    BY <1>1, <1>3, <2>1 DEF Undecided
<1>5. OneFlies' /\ Pinned' /\ RowShown' /\ LandedSeen'
  BY <1>1 DEF EditInv, OneFlies, Pinned, RowShown, LandedSeen
<1>6. TimesSound' /\ InOrder' /\ LastAccepted' /\ BaseRight' /\ ReadRight'
  BY <1>2, <1>4, UndecidedStep
<1> QED
  BY <1>2, <1>5, <1>6 DEF EditInv

\* The pass, before it is written.
LEMMA ClaimReadKeeps ==
  ASSUME EditInv, ClaimRead
  PROVE  EditInv'
<1>1. UNCHANGED <<mailbox, row, serverSet, edits, synced, second, mishaps, alien>>
  BY DEF ClaimRead
<1>2. /\ reading'.stage = "claimed" /\ reading'.since = second
      /\ reading' \in [stage : {"idle", "claimed", "read"}, since : Nat, saw : Sets, version : Nat]
  BY DEF ClaimRead, NotReading, Sets, EditInv, EditTypeOK
<1>3. EditTypeOK'
  BY <1>1, <1>2 DEF EditInv, EditTypeOK
<1>4. TimesSound'
  BY <1>1, <1>2 DEF EditInv, EditTypeOK, TimesSound
<1>5. OneFlies' /\ Pinned' /\ RowShown' /\ LandedSeen' /\ InOrder' /\ LastAccepted'
  BY <1>1 DEF EditInv, OneFlies, Pinned, RowShown, LandedSeen, InOrder, LastAccepted
<1>6. \A k : Sure(k)' => Sure(k)
  BY <1>1, <1>2 DEF Sure
<1>7. BaseRight' /\ ReadRight'
  BY <1>1, <1>2, <1>6 DEF EditInv, BaseRight, ReadRight
<1> QED
  BY <1>3, <1>4, <1>5, <1>7 DEF EditInv

\* PassFails: what was read is dropped.
LEMMA PassFailsKeeps ==
  ASSUME EditInv, PassFails
  PROVE  EditInv'
<1>1. UNCHANGED <<mailbox, row, serverSet, edits, synced, second, alien>>
  BY DEF PassFails
<1>2. /\ reading'.stage = "idle" /\ mishaps' \in Nat
      /\ reading' \in [stage : {"idle", "claimed", "read"}, since : Nat, saw : Sets, version : Nat]
  BY DEF PassFails, Mishap, NotReading, Sets, EditInv, EditTypeOK
<1>3. EditTypeOK'
  BY <1>1, <1>2 DEF EditInv, EditTypeOK
<1>4. TimesSound'
  BY <1>1, <1>2 DEF EditInv, EditTypeOK, TimesSound
<1>5. OneFlies' /\ Pinned' /\ RowShown' /\ LandedSeen' /\ InOrder' /\ LastAccepted'
  BY <1>1 DEF EditInv, OneFlies, Pinned, RowShown, LandedSeen, InOrder, LastAccepted
<1>6. \A k : Sure(k)' => Sure(k)
  BY <1>1, <1>2 DEF Sure
<1>7. BaseRight' /\ ReadRight'
  BY <1>1, <1>2, <1>6 DEF EditInv, BaseRight, ReadRight
<1> QED
  BY <1>3, <1>4, <1>5, <1>7 DEF EditInv

\* ReadServer: what is read is right, and the message is left out only if it has not
\* changed since the last pass.
LEMMA ReadServerKeeps ==
  ASSUME EditInv, ReadServer
  PROVE  EditInv'
<1>1. UNCHANGED <<mailbox, row, serverSet, edits, synced, second, mishaps, alien>>
  BY DEF ReadServer
<1>2. PICK saw \in {SomeSet(mailbox.keywords)} \cup
                   IF row.there /\ mailbox.version = synced.version THEN {NoSet} ELSE {} :
        reading' = [reading EXCEPT !.stage = "read", !.saw = saw, !.version = mailbox.version]
  BY DEF ReadServer
<1>3. saw \in Sets /\ saw # NoSet => The(saw) = mailbox.keywords
  BY <1>2, SomeSetFacts DEF Sets, SomeSet, EditInv, EditTypeOK
<1>4. saw = NoSet => mailbox.version = synced.version
  BY <1>2 DEF SomeSet, NoSet
<1>5. saw \in Sets
  BY <1>2 DEF Sets, EditInv, EditTypeOK
<1>6. /\ reading'.stage = "read" /\ reading'.since = reading.since /\ reading'.saw = saw
      /\ reading'.version = mailbox.version
      /\ reading' \in [stage : {"idle", "claimed", "read"}, since : Nat, saw : Sets, version : Nat]
  BY <1>2, <1>5 DEF EditInv, EditTypeOK
<1>7. EditTypeOK'
  BY <1>1, <1>6 DEF EditInv, EditTypeOK
<1>8. TimesSound'
  <2>1. reading.stage # "idle"
    BY DEF ReadServer
  <2> QED
    BY <1>1, <1>6, <2>1 DEF EditInv, EditTypeOK, TimesSound
<1>9. OneFlies' /\ Pinned' /\ RowShown' /\ LandedSeen' /\ InOrder' /\ LastAccepted'
  BY <1>1 DEF EditInv, OneFlies, Pinned, RowShown, LandedSeen, InOrder, LastAccepted
<1>10. \A k : Sure(k)' => Sure(k)
  BY <1>1, <1>4, <1>6 DEF Sure
<1>11. BaseRight'
  BY <1>1, <1>10 DEF EditInv, BaseRight
<1>12. ReadRight'
  BY <1>1, <1>3, <1>5, <1>6 DEF ReadRight
<1> QED
  BY <1>7, <1>8, <1>9, <1>11, <1>12 DEF EditInv

\* What a settled edit leaves of the server's word.
JoinedBy(base, state, e) == IF state = "Succeeded" THEN ApplyTo(base, e) ELSE base

\* What settling an edit does to the row and to the server's word.
LEMMA SettleRow ==
  ASSUME EditInv, NEW i \in DOMAIN edits, edits[i].state \in Open,
         NEW state \in {"Succeeded", "Failed", "Cancelled"}, Settle(i, state)
  PROVE  /\ row' \in [there : BOOLEAN, keywords : SUBSET Keywords] /\ serverSet' \in Sets
         /\ row'.there => /\ row.there
                          /\ Base(serverSet', row'.keywords) =
                               JoinedBy(Base(serverSet, row.keywords), state, edits[i])
         /\ Pinned' /\ RowShown'
<1>1. i \in Unsettled(edits)
  BY UnsettledFacts
<1>2. edits \in Seq(Edit) /\ serverSet \in Sets /\ row \in [there : BOOLEAN, keywords : SUBSET Keywords]
  BY DEF EditInv, EditTypeOK
<1>3. PICK fs : fs = edits'
  OBVIOUS
<1>4. fs = [edits EXCEPT ![i].state = state, ![i].settledAt = second]
  BY <1>3 DEF Settle
<1>5. CASE serverSet = NoSet
  <2>1. ~row.there
    BY <1>1, <1>5 DEF EditInv, Pinned
  <2>2. row' = row /\ serverSet' = serverSet
    BY <1>5 DEF Settle
  <2> QED
    BY <1>2, <1>5, <2>1, <2>2 DEF Pinned, RowShown
<1>6. CASE serverSet # NoSet
  <2>1. row.there
    BY <1>6 DEF EditInv, Pinned
  <2>2. PICK server : server = JoinedBy(The(serverSet), state, edits[i])
    OBVIOUS
  <2>3. server \in SUBSET Keywords
    <3>1. The(serverSet) \in SUBSET Keywords
      BY <1>2, <1>6, SomeSetFacts
    <3>2. edits[i].add \in SUBSET Keywords
      BY <1>2, EditDomain, EditFields
    <3> QED
      BY <2>2, <3>1, <3>2 DEF JoinedBy, ApplyTo
  <2>4. PICK left : left = Unsettled(fs)
    OBVIOUS
  <2>5. PICK shown : shown = Shown(server, fs, left)
    OBVIOUS
  <2>6. /\ serverSet' = IF left = {} THEN NoSet ELSE SomeSet(server)
        /\ row' = [row EXCEPT !.keywords = shown]
    BY <1>4, <1>6, <2>2, <2>4, <2>5 DEF Settle, Show, JoinedBy
  <2>7. shown \in SUBSET Keywords
    BY <2>5, ShownTyped
  <2>8. row' \in [there : BOOLEAN, keywords : SUBSET Keywords] /\ row'.there /\ row'.keywords = shown
    BY <1>2, <2>1, <2>6, <2>7
  <2>9. Base(serverSet, row.keywords) = The(serverSet)
    BY <1>6 DEF Base
  <2>10. CASE left = {}
    <3>1. serverSet' = NoSet /\ shown = server
      BY <2>3, <2>5, <2>6, <2>10, ShownNone
    <3>2. Shown(server, fs, left) = server
      BY <2>5, <3>1
    <3> QED
      BY <1>2, <1>3, <2>1, <2>2, <2>4, <2>8, <2>9, <2>10, <3>1, <3>2 DEF Base, Pinned, RowShown, Sets
  <2>11. CASE left # {}
    <3>1. serverSet' = SomeSet(server)
      BY <2>6, <2>11
    <3>2. serverSet' # NoSet /\ The(serverSet') = server /\ serverSet' \in Sets
      BY <1>2, <2>3, <3>1, SomeSetFacts DEF Sets
    <3>3. Base(serverSet', row'.keywords) = server
      BY <3>2 DEF Base
    <3> QED
      BY <1>3, <2>1, <2>2, <2>4, <2>5, <2>8, <2>9, <2>11, <3>2, <3>3 DEF Pinned, RowShown
  <2> QED
    BY <2>10, <2>11
<1> QED
  BY <1>5, <1>6

\* A refusal, an abandonment, a withdrawal.
LEMMA DroppedKeeps ==
  ASSUME EditInv, NEW i \in DOMAIN edits, edits[i].state \in Open,
         NEW state \in {"Failed", "Cancelled"}, Settle(i, state),
         UNCHANGED <<mailbox, reading, synced, second, mishaps>>
  PROVE  EditInv'
<1>1. edits \in Seq(Edit) /\ second \in Nat /\ alien \subseteq Keywords
  BY DEF EditInv, EditTypeOK
<1>2. state \in {"Succeeded", "Failed", "Cancelled"} /\ state # "Succeeded"
  OBVIOUS
<1>3. Steps(edits, edits', i) /\ edits'[i].state = state
  BY <1>1, <1>2, SettleEdits
<1>4. /\ row' \in [there : BOOLEAN, keywords : SUBSET Keywords] /\ serverSet' \in Sets
      /\ row'.there => row.there /\ Base(serverSet', row'.keywords) = Base(serverSet, row.keywords)
      /\ Pinned' /\ RowShown'
  <2>1. \A base : JoinedBy(base, state, edits[i]) = base
    BY <1>2 DEF JoinedBy
  <2> QED
    BY <1>2, <2>1, SettleRow
<1>5. /\ alien \subseteq alien' /\ alien' \subseteq Keywords
      /\ edits[i].landed => \A k \in KeywordsOf(edits[i]) : k \in alien'
  <2>1. alien' = alien \cup IF edits[i].landed THEN KeywordsOf(edits[i]) ELSE {}
    BY <1>2 DEF Settle
  <2>2. KeywordsOf(edits[i]) \in SUBSET Keywords
    BY <1>1, EditDomain, EditFields
  <2> QED
    BY <1>1, <2>1, <2>2
<1>6. EditTypeOK'
  BY <1>3, <1>4, <1>5 DEF EditInv, EditTypeOK, Steps
<1>7. SameAccepted(edits, edits')
  BY <1>2, <1>3 DEF SameAccepted, Steps, Open
<1>8. \A j \in Unsettled(edits') : j \in Unsettled(edits) /\ KeywordsOf(edits'[j]) = KeywordsOf(edits[j])
  BY <1>2, <1>3, UnsettledFacts DEF Steps
<1>9. \A k \in Keywords \ alien' : Landing(edits, k) => Landing(edits', k)
  BY <1>3, <1>5 DEF Landing, Steps
<1>10. Undecided
  <2>1. second <= second' /\ mailbox.version <= mailbox'.version
    BY DEF EditInv, EditTypeOK
  <2> QED
    BY <1>4, <1>5, <1>7, <1>8, <1>9, <2>1 DEF Undecided
<1>11. OneFlies'
  BY <1>2, <1>3 DEF EditInv, OneFlies, Steps
<1>12. LandedSeen'
  BY <1>2, <1>3, <1>5 DEF EditInv, LandedSeen, Steps
<1>13. TimesSound' /\ InOrder' /\ LastAccepted' /\ BaseRight' /\ ReadRight'
  BY <1>6, <1>10, UndecidedStep
<1> QED
  BY <1>4, <1>6, <1>11, <1>12, <1>13 DEF EditInv

\* An accepted edit: it joins the server's word.
LEMMA AcceptedKeeps ==
  ASSUME EditInv, NEW i \in DOMAIN edits, edits[i].state = "InFlight", edits[i].landed,
         Settle(i, "Succeeded"), UNCHANGED <<mailbox, reading, synced, second, mishaps>>
  PROVE  EditInv'
<1>1. edits \in Seq(Edit) /\ second \in Nat /\ alien \subseteq Keywords /\ synced.since \in Nat
  BY DEF EditInv, EditTypeOK
<1>2. PICK state \in {"Succeeded", "Failed", "Cancelled"} : state = "Succeeded"
  OBVIOUS
<1>3. Steps(edits, edits', i) /\ edits'[i].state = "Succeeded" /\ edits'[i].settledAt = second
  BY <1>1, <1>2, SettleEdits
<1>4. edits[i].state \in Open
  BY DEF Open
<1>5. /\ row' \in [there : BOOLEAN, keywords : SUBSET Keywords] /\ serverSet' \in Sets
      /\ row'.there => /\ row.there
                       /\ Base(serverSet', row'.keywords) = ApplyTo(Base(serverSet, row.keywords), edits[i])
      /\ Pinned' /\ RowShown'
  <2>1. \A base : JoinedBy(base, state, edits[i]) = ApplyTo(base, edits[i])
    BY <1>2 DEF JoinedBy
  <2> QED
    BY <1>2, <1>4, <2>1, SettleRow
<1>6. /\ alien \subseteq alien' /\ alien' \subseteq Keywords
      /\ \A k \in KeywordsOf(edits[i]) : k \notin alien' =>
           \A j \in Unsettled(edits) : k \in KeywordsOf(edits[j]) => i <= j
  <2>1. alien' = alien \cup {k \in KeywordsOf(edits[i]) : Overtakes(i, k)}
    BY DEF Settle
  <2>2. KeywordsOf(edits[i]) \in SUBSET Keywords
    BY <1>1, EditDomain, EditFields
  <2>3. \A j \in Unsettled(edits) : j \in Nat /\ j >= 1 /\ edits[j].state \in {"Pending", "InFlight"}
    <3>1. \A j \in DOMAIN edits : j \in Nat /\ j >= 1
      BY <1>1, EditDomain
    <3> QED
      BY <3>1, UnsettledFacts DEF Open
  <2>4. i \in Nat
    BY <1>1, EditDomain
  <2>5. \A j \in Unsettled(edits) : i <= j \/ j \in 1..(i - 1)
    BY <2>3, <2>4
  <2>6. \A k \in KeywordsOf(edits[i]) : k \notin alien' =>
           \A j \in Unsettled(edits) : k \in KeywordsOf(edits[j]) => i <= j
    BY <2>1, <2>3, <2>5 DEF Overtakes
  <2> QED
    BY <1>1, <2>1, <2>2, <2>6
<1>7. EditTypeOK'
  BY <1>3, <1>5, <1>6 DEF EditInv, EditTypeOK, Steps
<1>8. \A j \in DOMAIN edits : j # i => edits'[j] = edits[j]
  BY <1>3 DEF Steps
<1>9. DOMAIN edits' = DOMAIN edits /\ KeywordsOf(edits'[i]) = KeywordsOf(edits[i])
      /\ edits'[i].add = edits[i].add
  BY <1>3 DEF Steps
<1>10. \A j \in DOMAIN edits : edits[j].state = "InFlight" => j = i
  BY DEF EditInv, OneFlies
<1>11. \A j \in DOMAIN edits' : edits'[j].state # "InFlight"
  BY <1>3, <1>8, <1>9, <1>10
<1>12. OneFlies' /\ LandedSeen' /\ \A k : ~Landing(edits', k)
  BY <1>11 DEF OneFlies, LandedSeen, Landing
<1>13. \A k \in Keywords : Landing(edits, k) <=> k \in KeywordsOf(edits[i])
  BY <1>10 DEF Landing
<1>14. TimesSound'
  <2>1. \A j \in DOMAIN edits' : edits'[j].state = "Succeeded" => edits'[j].settledAt <= second
    BY <1>1, <1>3, <1>8, <1>9 DEF EditInv, TimesSound
  <2> QED
    BY <2>1 DEF EditInv, TimesSound
\* A keyword the edit does not name is as it was.
<1>15. \A k, j : k \notin KeywordsOf(edits[i]) =>
          (j \in Accepted(edits', synced.since, k) <=> j \in Accepted(edits, synced.since, k))
  BY <1>8, <1>9, AcceptedFacts
<1>16. \A k : k \notin KeywordsOf(edits[i]) => Accepted(edits', synced.since, k) = Accepted(edits, synced.since, k)
  BY <1>15
<1>17. \A k, j : j \in Accepted(edits', synced.since, k) => j \in Accepted(edits, synced.since, k) \/ j = i
  BY <1>8, <1>9, AcceptedFacts
<1>18. \A k, j : j \in Accepted(edits, synced.since, k) =>
          /\ j # i /\ edits'[j] = edits[j] /\ j \in DOMAIN edits
          /\ j \in Nat /\ edits[j].settledAt \in Nat /\ edits[j].settledAt <= second
          /\ synced.since < edits[j].settledAt
  <2> SUFFICES ASSUME NEW k, NEW j \in Accepted(edits, synced.since, k)
               PROVE  /\ j # i /\ edits'[j] = edits[j] /\ j \in DOMAIN edits
                      /\ j \in Nat /\ edits[j].settledAt \in Nat /\ edits[j].settledAt <= second
                      /\ synced.since < edits[j].settledAt
    OBVIOUS
  <2>1. j \in DOMAIN edits /\ edits[j].state = "Succeeded" /\ edits[j].settledAt > synced.since
    BY AcceptedFacts
  <2>2. j \in Nat /\ edits[j].settledAt \in Nat
    BY <1>1, <2>1, EditDomain, EditFields
  <2> QED
    BY <1>1, <1>8, <2>1, <2>2 DEF EditInv, TimesSound
<1>19. \A k \in Keywords \ alien' : k \in KeywordsOf(edits[i]) =>
          \A j \in Accepted(edits, synced.since, k) : j < i
  <2>1. i \in Unsettled(edits)
    BY <1>4, UnsettledFacts
  <2> QED
    BY <1>6, <2>1 DEF EditInv, InOrder
<1>20. i \in Nat
  BY <1>1, EditDomain
<1>21. \A j \in Unsettled(edits') : j \in Unsettled(edits) /\ j # i /\ edits'[j] = edits[j]
  BY <1>3, <1>8, <1>9, UnsettledFacts DEF Open
<1>22. \A j \in Unsettled(edits) : j \in Nat
  BY <1>1, EditDomain, UnsettledFacts
<1>23. InOrder'
  <2> SUFFICES ASSUME NEW k \in Keywords \ alien', NEW a \in Accepted(edits', synced.since, k)
               PROVE  /\ \A j \in Unsettled(edits') : k \in KeywordsOf(edits'[j]) => a < j
                      /\ \A j \in Accepted(edits', synced.since, k) :
                           a <= j => edits'[a].settledAt <= edits'[j].settledAt
    BY DEF InOrder
  <2>1. k \in Keywords \ alien
    BY <1>6
  <2>2. \A b \in Accepted(edits, synced.since, k) :
          /\ \A j \in Unsettled(edits) : k \in KeywordsOf(edits[j]) => b < j
          /\ \A j \in Accepted(edits, synced.since, k) : b <= j => edits[b].settledAt <= edits[j].settledAt
    BY <2>1 DEF EditInv, InOrder
  <2>3. CASE a = i
    <3>1. k \in KeywordsOf(edits[i])
      BY <1>9, <2>3, AcceptedFacts
    <3>2. \A j \in Unsettled(edits') : k \in KeywordsOf(edits'[j]) => i < j
      BY <1>6, <1>20, <1>21, <1>22, <3>1
    <3>3. \A j \in Accepted(edits', synced.since, k) : i <= j => j = i
      BY <1>17, <1>18, <1>19, <1>20, <3>1
    <3> QED
      BY <1>1, <1>3, <2>3, <3>2, <3>3
  <2>4. CASE a # i
    <3>1. a \in Accepted(edits, synced.since, k)
      BY <1>17, <2>4
    <3>2. \A j \in Unsettled(edits') : k \in KeywordsOf(edits'[j]) => a < j
      BY <1>21, <2>2, <3>1
    <3>3. \A j \in Accepted(edits', synced.since, k) : a <= j => edits'[a].settledAt <= edits'[j].settledAt
      BY <1>3, <1>17, <1>18, <2>2, <3>1
    <3> QED
      BY <3>2, <3>3
  <2> QED
    BY <2>3, <2>4
<1>24. \A k \in Keywords \ alien' : k \in KeywordsOf(edits[i]) =>
          (k \in mailbox.keywords <=> k \in edits[i].add)
  BY <1>6 DEF EditInv, LandedSeen
<1>25. LastAccepted'
  <2> SUFFICES ASSUME NEW k \in Keywords \ alien', NEW a \in Accepted(edits', synced.since, k),
                      \A j \in Accepted(edits', synced.since, k) : j <= a
               PROVE  k \in mailbox.keywords <=> k \in edits'[a].add
    BY DEF LastAccepted
  <2>1. CASE k \in KeywordsOf(edits[i])
    <3>1. CASE synced.since < second
      <4>1. i \in Accepted(edits', synced.since, k)
        BY <1>1, <1>3, <1>9, <2>1, <3>1, AcceptedFacts
      <4>2. a = i
        BY <1>17, <1>18, <1>19, <1>20, <2>1, <4>1
      <4> QED
        BY <1>9, <1>24, <2>1, <4>2
    <3>2. CASE ~(synced.since < second)
      <4>1. a # i
        BY <1>1, <1>3, <3>2, AcceptedFacts
      <4>2. a \in Accepted(edits, synced.since, k)
        BY <1>17, <4>1
      <4> QED
        BY <1>1, <1>18, <3>2, <4>2
    <3> QED
      BY <3>1, <3>2
  <2>2. CASE k \notin KeywordsOf(edits[i])
    <3>1. a \in Accepted(edits, synced.since, k) /\ \A j \in Accepted(edits, synced.since, k) : j <= a
      BY <1>16, <2>2
    <3>2. ~Landing(edits, k) /\ k \in Keywords \ alien
      BY <1>6, <1>13, <2>2
    <3>3. k \in mailbox.keywords <=> k \in edits[a].add
      BY <3>1, <3>2 DEF EditInv, LastAccepted
    <3> QED
      BY <1>18, <3>1, <3>3
  <2> QED
    BY <2>1, <2>2
<1>26. BaseRight'
  <2> SUFFICES ASSUME row'.there, NEW k \in Keywords \ alien', Sure(k)'
               PROVE  k \in Base(serverSet', row'.keywords) <=> k \in mailbox.keywords
    BY DEF BaseRight
  <2>1. row.there /\ Base(serverSet', row'.keywords) = ApplyTo(Base(serverSet, row.keywords), edits[i])
    BY <1>5
  <2>2. CASE k \in KeywordsOf(edits[i])
    BY <1>24, <2>1, <2>2 DEF ApplyTo, KeywordsOf
  <2>3. CASE k \notin KeywordsOf(edits[i])
    <3>1. Excused(edits, synced.since, k) => Excused(edits', synced.since, k)
      BY <1>8, <1>9, <2>3 DEF Excused
    <3>2. Sure(k)
      BY <3>1 DEF Sure
    <3>3. ~Landing(edits, k) /\ k \in Keywords \ alien
      BY <1>6, <1>13, <2>3
    <3>4. k \in Base(serverSet, row.keywords) <=> k \in mailbox.keywords
      BY <2>1, <3>2, <3>3 DEF EditInv, BaseRight
    <3> QED
      BY <2>1, <2>3, <3>4 DEF ApplyTo, KeywordsOf
  <2> QED
    BY <2>2, <2>3
<1>27. ReadRight'
  <2> SUFFICES ASSUME reading.stage = "read", reading.saw # NoSet
               PROVE  /\ reading.version = mailbox.version => The(reading.saw) = mailbox.keywords
                      /\ \A k \in Keywords \ alien' :
                           NoneSince(edits', reading.since, k) =>
                             (k \in The(reading.saw) <=> k \in mailbox.keywords)
    BY <1>12 DEF ReadRight
  <2>1. /\ reading.version = mailbox.version => The(reading.saw) = mailbox.keywords
        /\ \A k \in Keywords \ alien :
             (~Landing(edits, k) /\ NoneSince(edits, reading.since, k)) =>
               (k \in The(reading.saw) <=> k \in mailbox.keywords)
    BY DEF EditInv, ReadRight
  <2>2. ASSUME NEW k \in Keywords \ alien', NoneSince(edits', reading.since, k)
        PROVE  k \in The(reading.saw) <=> k \in mailbox.keywords
    <3>1. reading.since <= second /\ reading.since \in Nat
      BY DEF EditInv, EditTypeOK, TimesSound
    <3>2. k \notin KeywordsOf(edits[i])
      BY <1>1, <1>3, <1>9, <2>2, <3>1 DEF NoneSince
    <3>3. NoneSince(edits, reading.since, k)
      BY <1>8, <1>9, <2>2, <3>2 DEF NoneSince
    <3>4. ~Landing(edits, k) /\ k \in Keywords \ alien
      BY <1>6, <1>13, <3>2
    <3> QED
      BY <2>1, <3>3, <3>4
  <2> QED
    BY <2>1, <2>2
<1> QED
  BY <1>5, <1>7, <1>12, <1>14, <1>23, <1>25, <1>26, <1>27 DEF EditInv

\* The instant the accepted edits are counted from moves on: the last one of a
\* keyword's is still the last.
LEMMA LaterInstant ==
  ASSUME EditInv, NEW since \in Nat, synced.since <= since, NEW k \in Keywords \ alien
  PROVE  /\ Accepted(edits, since, k) \in SUBSET Accepted(edits, synced.since, k)
         /\ \A i \in Accepted(edits, since, k) :
              (\A j \in Accepted(edits, since, k) : j <= i) =>
                \A j \in Accepted(edits, synced.since, k) : j <= i
<1>1. edits \in Seq(Edit) /\ synced.since \in Nat
  BY DEF EditInv, EditTypeOK
<1>2. \A j \in DOMAIN edits : j \in Nat /\ edits[j].settledAt \in Nat
  BY <1>1, EditDomain, EditFields
<1>3. Accepted(edits, since, k) \in SUBSET Accepted(edits, synced.since, k)
  BY <1>1, <1>2, AcceptedFacts
<1>4. ASSUME NEW i \in Accepted(edits, since, k), \A j \in Accepted(edits, since, k) : j <= i,
             NEW j \in Accepted(edits, synced.since, k)
      PROVE  j <= i
  <2>1. i \in Accepted(edits, synced.since, k) /\ i \in Nat /\ j \in Nat
    BY <1>2, <1>3, <1>4, AcceptedFacts
  <2>2. SUFFICES ASSUME i < j PROVE FALSE
    BY <2>1
  <2>3. edits[i].settledAt <= edits[j].settledAt
    BY <2>1, <2>2 DEF EditInv, InOrder
  <2>4. j \in DOMAIN edits /\ i \in DOMAIN edits /\ edits[i].settledAt > since
    BY <1>4, AcceptedFacts
  <2>5. edits[j].settledAt > since
    BY <1>2, <2>3, <2>4
  <2>6. j \in Accepted(edits, since, k)
    BY <1>4, <2>5, AcceptedFacts
  <2> QED
    BY <1>4, <2>1, <2>2, <2>6
<1> QED
  BY <1>3, <1>4

\* ApplyPass: accepted edits go back on top of a set read before they were accepted, and
\* the last of them is what the server shows.
LEMMA ApplyPassKeeps ==
  ASSUME EditInv, ApplyPass
  PROVE  EditInv'
<1>1. UNCHANGED <<mailbox, edits, second, mishaps>> /\ reading.stage = "read"
  BY DEF ApplyPass
<1>2. /\ reading'.stage = "idle"
      /\ reading' \in [stage : {"idle", "claimed", "read"}, since : Nat, saw : Sets, version : Nat]
  BY DEF ApplyPass, NotReading, Sets
<1>3. PICK since \in Nat : since = reading.since
  BY DEF EditInv, EditTypeOK
<1>4. synced' \in [version : Nat, since : Nat] /\ synced'.since = since /\ synced'.version = reading.version
  BY <1>3 DEF ApplyPass, EditInv, EditTypeOK
<1>5. /\ edits \in Seq(Edit) /\ row \in [there : BOOLEAN, keywords : SUBSET Keywords]
      /\ serverSet \in Sets /\ reading.saw \in Sets /\ alien \subseteq Keywords
  BY DEF EditInv, EditTypeOK
<1>6. synced.since <= since /\ since <= second /\ reading.version <= mailbox.version
  BY <1>1, <1>3 DEF EditInv, TimesSound
<1>7. TimesSound'
  BY <1>1, <1>2, <1>4, <1>6 DEF EditInv, TimesSound
\* The pass settles what other clients did only when it saw the server as it is.
<1>8. \/ alien' = alien
      \/ /\ alien' = {} /\ reading.saw # NoSet /\ reading.version = mailbox.version
         /\ AcceptedSince(edits, since) = {}
         /\ \A i \in DOMAIN edits : ~(edits[i].state = "InFlight" /\ edits[i].landed)
  BY <1>3 DEF ApplyPass
<1>9. \A k : k \in alien /\ k \notin alien' => Accepted(edits, since, k) = {} /\ ~Landing(edits, k)
  BY <1>8 DEF Accepted, Naming, Landing
<1>10. OneFlies' /\ LandedSeen'
  <2>1. OneFlies'
    BY <1>1 DEF EditInv, OneFlies
  <2>2. LandedSeen'
    BY <1>1, <1>8 DEF EditInv, LandedSeen
  <2> QED
    BY <2>1, <2>2
<1>11. InOrder'
  <2> SUFFICES ASSUME NEW k \in Keywords \ alien', NEW i \in Accepted(edits, since, k)
               PROVE  /\ \A j \in Unsettled(edits) : k \in KeywordsOf(edits[j]) => i < j
                      /\ \A j \in Accepted(edits, since, k) :
                           i <= j => edits[i].settledAt <= edits[j].settledAt
    BY <1>1, <1>4 DEF InOrder
  <2>1. k \in Keywords \ alien
    BY <1>9
  <2>2. Accepted(edits, since, k) \in SUBSET Accepted(edits, synced.since, k)
    BY <1>6, <2>1, LaterInstant
  <2> QED
    BY <2>1, <2>2 DEF EditInv, InOrder
<1>12. \A k \in Keywords \ alien' : \A i \in Accepted(edits, since, k) :
         (~Landing(edits, k) /\ \A j \in Accepted(edits, since, k) : j <= i) =>
           (k \in mailbox.keywords <=> k \in edits[i].add)
  <2> SUFFICES ASSUME NEW k \in Keywords \ alien', NEW i \in Accepted(edits, since, k),
                      ~Landing(edits, k), \A j \in Accepted(edits, since, k) : j <= i
               PROVE  k \in mailbox.keywords <=> k \in edits[i].add
    OBVIOUS
  <2>1. k \in Keywords \ alien
    BY <1>9
  <2>2. /\ i \in Accepted(edits, synced.since, k)
        /\ \A j \in Accepted(edits, synced.since, k) : j <= i
    BY <1>6, <2>1, LaterInstant
  <2> QED
    BY <2>1, <2>2 DEF EditInv, LastAccepted
<1>13. LastAccepted'
  BY <1>1, <1>4, <1>12 DEF LastAccepted
<1>14. ReadRight'
  BY <1>2 DEF ReadRight
<1>15. CASE reading.saw = NoSet
  <2>1. row' = row /\ serverSet' = serverSet /\ alien' = alien
    BY <1>15 DEF ApplyPass
  <2>2. EditTypeOK'
    BY <1>1, <1>2, <1>4, <2>1 DEF EditInv, EditTypeOK
  <2>3. Pinned' /\ RowShown'
    BY <1>1, <2>1 DEF EditInv, Pinned, RowShown
  <2>4. \A k : Sure(k)
    BY <1>1, <1>15 DEF Sure
  <2>5. BaseRight'
    BY <1>1, <2>1, <2>4 DEF EditInv, BaseRight
  <2> QED
    BY <1>7, <1>10, <1>11, <1>13, <1>14, <2>2, <2>3, <2>5 DEF EditInv
<1>16. CASE reading.saw # NoSet
  <2>1. PICK read : read = The(reading.saw)
    OBVIOUS
  <2>2. PICK accepted : accepted = AcceptedSince(edits, since)
    OBVIOUS
  <2>3. PICK server : server = Shown(read, edits, accepted)
    OBVIOUS
  <2>4. PICK left : left = Unsettled(edits)
    OBVIOUS
  <2>5. PICK shown : shown = Shown(server, edits, left)
    OBVIOUS
  <2>6. server \in SUBSET Keywords /\ shown \in SUBSET Keywords
    BY <2>3, <2>5, ShownTyped
  <2>7. /\ serverSet' = IF left = {} THEN serverSet ELSE SomeSet(server)
        /\ row' = [there |-> TRUE, keywords |-> shown]
    BY <1>3, <1>16, <2>1, <2>2, <2>3, <2>4, <2>5 DEF ApplyPass, Synced
  <2>8. row' \in [there : BOOLEAN, keywords : SUBSET Keywords] /\ row'.there /\ row'.keywords = shown
    BY <2>6, <2>7
  <2>9. serverSet' \in Sets /\ Base(serverSet', row'.keywords) = server /\ (serverSet' # NoSet <=> left # {})
    <3>1. CASE left = {}
      <4>1. serverSet = NoSet /\ serverSet' = NoSet
        BY <2>4, <2>7, <3>1 DEF EditInv, Pinned
      <4>2. shown = server
        BY <2>5, <2>6, <3>1, ShownNone
      <4> QED
        BY <1>5, <2>8, <3>1, <4>1, <4>2 DEF Base
    <3>2. CASE left # {}
      <4>1. serverSet' = SomeSet(server)
        BY <2>7, <3>2
      <4>2. serverSet' # NoSet /\ The(serverSet') = server /\ serverSet' \in Sets
        BY <1>5, <2>6, <4>1, SomeSetFacts DEF Sets
      <4> QED
        BY <3>2, <4>2 DEF Base
    <3> QED
      BY <3>1, <3>2
  <2>10. Pinned' /\ RowShown'
    BY <1>1, <2>4, <2>5, <2>8, <2>9 DEF Pinned, RowShown
  <2>11. alien' \subseteq Keywords
    BY <1>5, <1>8
  <2>12. EditTypeOK'
    BY <1>1, <1>2, <1>4, <2>8, <2>9, <2>11 DEF EditInv, EditTypeOK
  <2>13. /\ reading.version = mailbox.version => read = mailbox.keywords
         /\ \A k \in Keywords \ alien :
              (~Landing(edits, k) /\ NoneSince(edits, since, k)) =>
                (k \in read <=> k \in mailbox.keywords)
    BY <1>1, <1>3, <1>16, <2>1 DEF EditInv, ReadRight
  <2>14. \A k : Naming(edits, accepted, k) = Accepted(edits, since, k)
    BY <2>2 DEF Accepted
  <2>15. ASSUME NEW k \in Keywords \ alien', Sure(k)', ~Landing(edits, k)
         PROVE  k \in server <=> k \in mailbox.keywords
    <3>1. ~Excused(edits, since, k) \/ mailbox.version = reading.version
      BY <1>1, <1>2, <1>4, <2>15 DEF Sure
    <3>2. CASE Accepted(edits, since, k) = {}
      <4>1. k \in server <=> k \in read
        BY <2>3, <2>14, <3>2, ShownPlain
      <4>2. CASE mailbox.version = reading.version
        BY <2>13, <4>1, <4>2
      <4>3. CASE mailbox.version # reading.version
        <5>1. k \in Keywords \ alien
          BY <1>8, <4>3
        <5>2. \A i \in DOMAIN edits : edits[i].settledAt \in Nat
          BY <1>5, EditDomain, EditFields
        <5>3. NoneSince(edits, since, k)
          <6> SUFFICES ASSUME NEW i \in DOMAIN edits, k \in KeywordsOf(edits[i]), edits[i].state = "Succeeded"
                       PROVE  edits[i].settledAt < since
            BY DEF NoneSince
          <6>1. edits[i].settledAt # since
            BY <3>1, <4>3 DEF Excused
          <6>2. ~(edits[i].settledAt > since)
            BY <3>2, AcceptedFacts
          <6> QED
            BY <5>2, <6>1, <6>2
        <5> QED
          BY <2>13, <2>15, <4>1, <5>1, <5>3
      <4> QED
        BY <4>2, <4>3
    <3>3. CASE Accepted(edits, since, k) # {}
      <4>1. accepted \in SUBSET DOMAIN edits
        BY <2>2 DEF AcceptedSince
      <4>2. PICK m : m = Max(Naming(edits, accepted, k))
        OBVIOUS
      <4>3. /\ m \in Naming(edits, accepted, k) /\ \A j \in Naming(edits, accepted, k) : j <= m
            /\ \A base : k \in Shown(base, edits, accepted) <=> k \in edits[m].add
        BY <1>5, <2>14, <3>3, <4>1, <4>2, LastNaming
      <4>4. m \in Accepted(edits, since, k) /\ \A j \in Accepted(edits, since, k) : j <= m
        BY <2>14, <4>3
      <4>5. k \in mailbox.keywords <=> k \in edits[m].add
        BY <1>12, <2>15, <4>4
      <4> QED
        BY <2>3, <4>3, <4>5
    <3> QED
      BY <3>2, <3>3
  <2>16. BaseRight'
    BY <1>1, <2>9, <2>15 DEF BaseRight
  <2> QED
    BY <1>7, <1>10, <1>11, <1>13, <1>14, <2>10, <2>12, <2>16 DEF EditInv
<1> QED
  BY <1>15, <1>16

\* Initially.
LEMMA EditInvInit ==
  KeywordInit => EditInv
<1> SUFFICES ASSUME KeywordInit PROVE EditInv
  OBVIOUS
<1>1. EditTypeOK
  BY DEF KeywordInit, EditTypeOK, NotReading, Sets
<1>2. edits = <<>> /\ DOMAIN edits = {}
  BY DEF KeywordInit
<1>3. TimesSound
  BY <1>2 DEF KeywordInit, TimesSound, NotReading
<1>4. OneFlies /\ LandedSeen
  BY <1>2 DEF OneFlies, LandedSeen
<1>5. Pinned /\ RowShown /\ BaseRight
  BY DEF KeywordInit, Pinned, RowShown, BaseRight, NoSet
<1>6. \A k : Accepted(edits, synced.since, k) = {}
  BY <1>2, AcceptedFacts
<1>7. InOrder /\ LastAccepted
  BY <1>6 DEF InOrder, LastAccepted
<1>8. ReadRight
  BY DEF KeywordInit, ReadRight, NotReading
<1> QED
  BY <1>1, <1>3, <1>4, <1>5, <1>7, <1>8 DEF EditInv

\* Every step keeps the invariant.
LEMMA EditInvStep ==
  EditInv /\ [KeywordNext]_editVars => EditInv'
<1> SUFFICES ASSUME EditInv, [KeywordNext]_editVars PROVE EditInv'
  OBVIOUS
<1>1. ASSUME NEW add \in SUBSET Keywords, NEW remove \in SUBSET Keywords, Queue(add, remove)
      PROVE  EditInv'
  BY <1>1, QueueKeeps
<1>2. ASSUME NEW i \in DOMAIN edits, Attempt(i) PROVE EditInv'
  BY <1>2, AttemptKeeps
<1>3. ASSUME NEW i \in DOMAIN edits, Lands(i) PROVE EditInv'
  BY <1>3, LandsKeeps
<1>4. ASSUME NEW i \in DOMAIN edits, Record(i) PROVE EditInv'
  <2>1. edits[i].state = "InFlight" /\ UNCHANGED <<mailbox, reading, synced, second, mishaps>>
    BY <1>4 DEF Record
  <2>2. CASE edits[i].landed /\ Settle(i, "Succeeded")
    BY <2>1, <2>2, AcceptedKeeps
  <2>3. CASE Settle(i, "Failed")
    <3>1. PICK state \in {"Failed", "Cancelled"} : state = "Failed"
      OBVIOUS
    <3>2. edits[i].state \in Open /\ Settle(i, state)
      BY <2>1, <2>3, <3>1 DEF Open
    <3> QED
      BY <2>1, <3>2, DroppedKeeps
  <2> QED
    BY <1>4, <2>2, <2>3 DEF Record
<1>5. ASSUME NEW i \in DOMAIN edits, Parked(i) PROVE EditInv'
  BY <1>5, ParkedKeeps
<1>6. ASSUME NEW i \in DOMAIN edits, Withdraw(i) PROVE EditInv'
  <2>1. PICK state \in {"Failed", "Cancelled"} : state = "Cancelled"
    OBVIOUS
  <2>2. /\ edits[i].state \in Open /\ Settle(i, state)
        /\ UNCHANGED <<mailbox, reading, synced, second, mishaps>>
    BY <1>6, <2>1 DEF Withdraw, Open
  <2> QED
    BY <2>2, DroppedKeeps
<1>7. CASE ClaimRead \/ ReadServer \/ ApplyPass \/ PassFails
  BY <1>7, ClaimReadKeeps, ReadServerKeeps, ApplyPassKeeps, PassFailsKeeps
<1>8. ASSUME NEW keywords \in SUBSET Keywords, OtherClient(keywords) PROVE EditInv'
  BY <1>8, OtherClientKeeps
<1>9. CASE Tick
  BY <1>9, TickKeeps
<1>10. CASE UNCHANGED editVars
  BY <1>10 DEF editVars, EditInv, EditTypeOK, TimesSound, OneFlies, Pinned, RowShown,
               LandedSeen, InOrder, LastAccepted, BaseRight, Sure, ReadRight
<1> QED
  BY <1>1, <1>2, <1>3, <1>4, <1>5, <1>6, <1>7, <1>8, <1>9, <1>10 DEF KeywordNext

\* The invariant gives the property: an unsettled edit is on top of the row, and without one
\* the row is the store's word of the server.
LEMMA EditInvShows ==
  EditInv => EditsStayShown
<1> SUFFICES ASSUME EditInv, row.there, NEW k \in Keywords \ alien,
                    ~Excused(edits, synced.since, k)
             PROVE  AsServed(k)
  BY DEF EditsStayShown, Excused
<1>1. PICK base : base = Base(serverSet, row.keywords)
  OBVIOUS
<1>2. PICK left : left = Unsettled(edits)
  OBVIOUS
<1>3. row.keywords = Shown(base, edits, left)
  BY <1>1, <1>2 DEF EditInv, RowShown
<1>4. Naming(edits, left, k) = {} => (k \in base <=> k \in mailbox.keywords)
  <2> SUFFICES ASSUME Naming(edits, left, k) = {} PROVE k \in base <=> k \in mailbox.keywords
    OBVIOUS
  <2>1. ~Landing(edits, k)
    BY <1>2 DEF Landing, Naming, Unsettled
  <2>2. Sure(k)
    BY DEF Sure
  <2> QED
    BY <1>1, <2>1, <2>2 DEF EditInv, BaseRight
<1>5. k \in Shown(base, edits, left) <=> k \in Shown(mailbox.keywords, edits, left)
  BY <1>4, ShownSame
<1> QED
  BY <1>2, <1>3, <1>5 DEF AsServed

\* EditsStayShown (settled, synced and queued of keyword_edits): whatever edits are queued,
\* sent, parked, settled and withdrawn while passes read and write, for any keywords and any
\* number of edits, passes and seconds, a stored message shows the server's keywords with its
\* unsettled edits on top, wherever those edits alone decide the keyword, unless one was
\* accepted in the very second the last pass began.
THEOREM EditsKeepShowing == KeywordSpec => []EditsStayShown
<1>1. KeywordSpec => []EditInv
  BY EditInvInit, EditInvStep, PTL DEF KeywordSpec
<1> QED
  BY <1>1, EditInvShows, PTL

===============================================================================
