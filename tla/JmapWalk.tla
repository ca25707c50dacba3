------------------------------- MODULE JmapWalk -------------------------------
(***************************************************************************)
(* The snapshot walk of the JMAP adapter, the listing that settles it, the *)
(* delta pages in between, and the server, which creates, updates and      *)
(* destroys objects while a pass pages through them.                       *)
(*                                                                         *)
(* The type's state is how many changes the server's log holds, and the    *)
(* version of an object the number of its last change.  The server goes on *)
(* changing between two requests and between the two calls of one, the     *)
(* query of a page and the get of its objects.  The tries of one page are  *)
(* one action: an id that is gone stays gone, so what counts is the server *)
(* at the last try.  A query of mail is in a fixed order, in which a       *)
(* message just stored may be listed last and sorted into place later with *)
(* nothing to show for it, and its pages are committed as they come; any   *)
(* other type is in the server's own order, in which an update may move an *)
(* object, and its pass is committed at its end.                           *)
(***************************************************************************)
EXTENDS Integers, Sequences, FiniteSets, FiniteSetsExt

CONSTANTS
  MaxObjects,     \* bound: how many objects the server ever holds
  FirstObjects,   \* how many it starts with
  MaxChanges,     \* bound: how many changes it logs
  Orders,         \* the query orders tried: a subset of {"Fixed", "Server"}
  WalkLimit,      \* ids a page of the walk asks for
  ListingPage,    \* ids a page of a listing asks for: LISTING_PAGE
  IdlePages,      \* IDLE_PAGES
  Listings,       \* LISTINGS
  Restarts,       \* RESTARTS
  MaxJmapFaults   \* bound: passes stopped and changes the server cannot compute

ASSUME JmapWalkAssumption ==
  /\ MaxObjects \in Nat /\ FirstObjects \in 0..MaxObjects /\ MaxChanges \in Nat
  /\ Orders \subseteq {"Fixed", "Server"}
  /\ WalkLimit \in Nat \ {0} /\ ListingPage \in Nat /\ IdlePages \in Nat
  /\ Listings \in Nat /\ Restarts \in Nat /\ MaxJmapFaults \in Nat

VARIABLES
  order,        \* what the query sorts on
  ranking,      \* the objects of the query, in its order
  late,         \* of those, the ones listed last until they are sorted into place
  changes,      \* every change since the server was made
  counts,       \* whether the server answers with the query's total
  jmapCursor,   \* the stored state, 0 for none
  held,         \* the version of each object stored, 0 for none
  slipped,      \* history: what slipped between the two calls of the stored snapshot's first page
  pass,         \* the pass
  jmapFaults

jmapVars == <<order, ranking, late, changes, counts, jmapCursor, held, slipped, pass, jmapFaults>>

Objects == 1..MaxObjects
LastFew == 4

-------------------------------------------------------------------------------
(* The server *)

There == {ranking[i] : i \in DOMAIN ranking}

ChangesOf(o) == {i \in DOMAIN changes : changes[i].obj = o}
Current(o) == IF o \in There THEN Max(ChangesOf(o)) ELSE 0
Made(state) == {o \in Objects : \E i \in ChangesOf(o) : changes[i].what = "created" /\ i <= state}

Place(o) == CHOOSE i \in DOMAIN ranking : ranking[i] = o
Without(o) == SubSeq(ranking, 1, Place(o) - 1) \o SubSeq(ranking, Place(o) + 1, Len(ranking))
Placed(o, others, at) == SubSeq(others, 1, at) \o <<o>> \o SubSeq(others, at + 1, Len(others))

Change(o, what) == changes' = Append(changes, [obj |-> o, what |-> what])

\* Objects are created, updated and destroyed.
ServerChanges ==
  /\ Len(changes) < MaxChanges
  /\ \/ LET o == Cardinality(Made(Len(changes))) + 1
        IN  /\ o \in Objects /\ Change(o, "created")
            /\ \/ UNCHANGED late /\ \E at \in 0..Len(ranking) : ranking' = Placed(o, ranking, at)
               \/ /\ order = "Fixed"
                  /\ late' = late \cup {o} /\ ranking' = Placed(o, ranking, Len(ranking))
     \/ \E o \in There :
          /\ Change(o, "updated") /\ UNCHANGED late
          /\ \/ UNCHANGED ranking
             \/ /\ order = "Server"
                /\ \E at \in 0..(Len(ranking) - 1) : ranking' = Placed(o, Without(o), at)
     \/ \E o \in There :
          Change(o, "destroyed") /\ ranking' = Without(o) /\ late' = late \ {o}
  /\ UNCHANGED <<order, counts, jmapCursor, held, slipped, pass, jmapFaults>>

\* A message listed last is sorted into place: no state says so.
ServerSorts ==
  /\ \E o \in late : \E at \in 0..(Place(o) - 1) :
       ranking' = Placed(o, Without(o), at) /\ late' = late \ {o}
  /\ UNCHANGED <<order, changes, counts, jmapCursor, held, slipped, pass, jmapFaults>>

-------------------------------------------------------------------------------
(* Walks *)

NewWalk == [trail |-> <<>>, seen |-> {}, queryState |-> <<>>, steady |-> TRUE, pages |-> 0,
            done |-> FALSE, idle |-> 0, reread |-> 0, restarts |-> 0, lost |-> FALSE]

\* anchors: how far back each id tried sits, nearest first.
Anchors(len) ==
  {back \in 0..(len - 1) :
     back < LastFew \/ back = len - 1 \/ \E k \in 0..len : back = 8 * 2 ^ k}

Anchor(w, back) == w.trail[Len(w.trail) - back]
Found(w) == {back \in Anchors(Len(w.trail)) : Anchor(w, back) \in There}

\* fetch_page: how many ids of the query come before the page; a walk that has lost
\* every anchor reads it again from the top.
Position(w) ==
  IF w.trail = <<>> \/ Found(w) = {} THEN 0
  ELSE Place(Anchor(w, Min(Found(w))))

Placeless(w) == w.trail # <<>> /\ Found(w) = {}

Reread(w, limit) ==
  CASE w.trail = <<>> -> 0
    [] Placeless(w) -> Len(w.trail) \div limit + 1
    [] OTHER -> Min(Found(w)) \div limit

PageIds(w, limit) == SubSeq(ranking, Position(w) + 1, Min({Position(w) + limit, Len(ranking)}))

\* next: the walk after a page of `limit` ids.
Paged(w, limit) ==
  LET ids == PageIds(w, limit)
      fresh == {ids[i] : i \in DOMAIN ids} \ w.seen
      done == ids = <<>> \/ IF counts THEN Position(w) + Len(ids) >= Len(ranking)
                                      ELSE Len(ids) < limit
      stuck == fresh = {} /\ ~done
      reread == w.reread + Reread(w, limit)
  IN  [trail |-> w.trail \o ids,
       seen |-> w.seen \cup fresh,
       queryState |-> IF w.pages = 0 THEN ranking ELSE w.queryState,
       steady |-> w.steady /\ (w.pages = 0 \/ w.queryState = ranking),
       pages |-> w.pages + 1,
       done |-> done,
       idle |-> IF stuck THEN w.idle + 1 ELSE 0,
       reread |-> IF stuck THEN reread ELSE 0,
       restarts |-> IF Placeless(w) THEN w.restarts + 1 ELSE w.restarts,
       lost |-> \/ Placeless(w) /\ w.restarts >= Restarts
                \/ stuck /\ w.idle + 1 > reread + IdlePages]

-------------------------------------------------------------------------------
(* The pass *)

Versions == [Objects -> Nat \cup {-1}]   \* -1: nothing said of the object
Unsaid == [o \in Objects |-> -1]

JmapIdle == [stage |-> "idle", since |-> 0, first |-> TRUE, cursor |-> 0, got |-> Unsaid,
             walk |-> NewWalk, asked |-> {}, queried |-> 0, slipped |-> {},
             listing |-> NewWalk, tries |-> 0]

JmapStages == {"idle", "delta", "walk", "page", "settle", "get"}

\* What `new` says over what `old` does.
Over(new, old) == [o \in Objects |-> IF new[o] = -1 THEN old[o] ELSE new[o]]

Fetch(S) == [o \in Objects |-> IF o \in S /\ o \in There THEN Current(o) ELSE -1]

\* A page of objects is committed now, or kept for the end of the pass; the last page of
\* a walk is handed on only once the walk has settled.
Hand(said, p) ==
  IF order = "Fixed" /\ p.stage # "settle" THEN held' = Over(said, held) /\ pass' = p
  ELSE UNCHANGED held /\ pass' = [p EXCEPT !.got = Over(said, p.got)]

\* The pass ends: what was kept is committed with the cursor.
End(said, cursor) ==
  /\ held' = Over(said, Over(pass.got, held))
  /\ jmapCursor' = cursor
  /\ pass' = JmapIdle

Resting == UNCHANGED <<order, ranking, late, changes, counts, jmapFaults>>

JmapFault == jmapFaults < MaxJmapFaults /\ jmapFaults' = jmapFaults + 1

StartJmap ==
  /\ pass.stage = "idle"
  /\ pass' = [JmapIdle EXCEPT !.stage = IF jmapCursor = 0 THEN "walk" ELSE "delta",
                              !.since = jmapCursor]
  /\ UNCHANGED <<jmapCursor, held, slipped>> /\ Resting

\* delta_page, paged_delta: created objects come whole; an updated one comes as state
\* for an object that is stored when the type is mail, whole otherwise.  The log was
\* `len` long when the changes were read, and may be longer when the objects are.
ChangesPage(len) ==
  LET since == pass.since
      upto == Min({since + WalkLimit, len})
      did(what) == {changes[i].obj : i \in {j \in (since + 1)..upto : changes[j].what = what}}
      patched == IF order = "Fixed" THEN {o \in did("updated") : held[o] > 0} ELSE did("updated")
      said == [o \in Objects |-> IF o \in did("destroyed") THEN 0
                                 ELSE Fetch(did("created") \cup patched)[o]]
  IN  /\ pass.stage = "delta"
      /\ IF upto = len THEN End(said, upto)
         ELSE Hand(said, [pass EXCEPT !.since = upto, !.first = FALSE]) /\ UNCHANGED jmapCursor
      /\ UNCHANGED slipped /\ Resting

\* cannotCalculateChanges: a snapshot, unless pages of mail have been passed on.
CannotCalculate ==
  /\ pass.stage = "delta" /\ JmapFault
  /\ IF order = "Fixed" /\ ~pass.first THEN End(Unsaid, pass.since)
     ELSE /\ pass' = [JmapIdle EXCEPT !.stage = "walk"]
          /\ UNCHANGED <<jmapCursor, held>>
  /\ UNCHANGED <<order, ranking, late, changes, counts, slipped>>

\* next, the query: the walk goes on by a page, whose new ids are asked for.
WalkQuery ==
  LET w == Paged(pass.walk, WalkLimit)
  IN  /\ pass.stage = "walk"
      /\ pass' = IF w.lost THEN JmapIdle
                 ELSE [pass EXCEPT !.stage = "page", !.walk = w,
                                   !.asked = w.seen \ pass.walk.seen, !.queried = Len(changes)]
      /\ UNCHANGED <<jmapCursor, held, slipped>> /\ Resting

\* Mutant of SnapshotState: the state read with the page at hand.
SnapshotStateLast(p) == Len(changes)

\* The state read with the objects of the first page.
SnapshotState(p) == IF p.walk.pages = 1 THEN Len(changes) ELSE p.cursor

\* What was made or destroyed after the first page's query and before its get: that
\* state covers it, and the query did not.
Slips(p) ==
  IF p.walk.pages # 1 THEN p.slipped
  ELSE {changes[i].obj : i \in {j \in (p.queried + 1)..Len(changes) : changes[j].what # "updated"}}

\* next, the get: an id destroyed since the query stays one the walk has seen.
WalkGet ==
  LET p == [pass EXCEPT !.stage = IF pass.walk.done THEN "settle" ELSE "walk",
                        !.cursor = SnapshotState(pass), !.slipped = Slips(pass),
                        !.asked = {}, !.queried = 0]
  IN  /\ pass.stage = "page"
      /\ Hand(Fetch(pass.asked), p)
      /\ UNCHANGED <<jmapCursor, slipped>> /\ Resting

\* Everything not in `present` is tombstoned with the cursor.
EndSnapshot(said, present, slips) ==
  /\ End([o \in Objects |-> IF o \in present THEN said[o] ELSE 0], pass.cursor)
  /\ slipped' = slips

\* The query of a walk of one page was answered at once: nothing is listed.
WalkAlone ==
  /\ pass.stage = "settle" /\ pass.walk.pages <= 1
  /\ EndSnapshot(Unsaid, pass.walk.seen, pass.slipped)
  /\ Resting

\* A listing in the server's order counts only when the query held still under it.
Holds(w) == order = "Fixed" \/ w.steady

\* settle: a page of a listing.  One that moved is listed again.
ListingPaged ==
  LET w == Paged(pass.listing, Max({ListingPage, WalkLimit}))
      again == [pass EXCEPT !.listing = NewWalk, !.tries = pass.tries + 1]
      moved == w.lost \/ (w.done /\ ~Holds(w))
  IN  /\ pass.stage = "settle" /\ pass.walk.pages > 1
      /\ pass' = IF moved
                    THEN IF order = "Fixed" \/ pass.tries + 1 >= Listings THEN JmapIdle ELSE again
                    ELSE [pass EXCEPT !.listing = w, !.stage = IF w.done THEN "get" ELSE @]
      /\ UNCHANGED <<jmapCursor, held, slipped>> /\ Resting

\* The objects the walk missed; one destroyed since it was listed is not present.  One
\* made between the calls of the first page is among them.
GetMissed ==
  LET missed == pass.listing.seen \ pass.walk.seen
  IN  /\ pass.stage = "get"
      /\ EndSnapshot(Fetch(missed), pass.walk.seen \cup (missed \cap There),
                     pass.slipped \cap pass.walk.seen)
      /\ Resting

\* A request fails or the process ends.
JmapStops ==
  /\ pass.stage # "idle" /\ JmapFault
  /\ pass' = JmapIdle
  /\ UNCHANGED <<order, ranking, late, changes, counts, jmapCursor, held, slipped>>

-------------------------------------------------------------------------------

JmapInit ==
  /\ order \in Orders /\ counts \in BOOLEAN
  /\ ranking = [i \in 1..FirstObjects |-> i]
  /\ changes = [i \in 1..FirstObjects |-> [obj |-> i, what |-> "created"]]
  /\ late = {} /\ slipped = {}
  /\ jmapCursor = 0 /\ held = [o \in Objects |-> 0]
  /\ pass = JmapIdle
  /\ jmapFaults = 0

JmapNext ==
  \/ ServerChanges \/ ServerSorts \/ StartJmap
  \/ \E len \in pass.since..Len(changes) : ChangesPage(len)
  \/ CannotCalculate \/ WalkQuery \/ WalkGet \/ WalkAlone
  \/ ListingPaged \/ GetMissed \/ JmapStops

JmapSpec == JmapInit /\ [][JmapNext]_jmapVars

-------------------------------------------------------------------------------

\* However objects move, come and go under a walk, once a state is recorded an object
\* is stored as that state has it unless it changed since, and one that was there at
\* that state and still is, is stored in some version: a delta would bring only what
\* changed of it.  Left out is what was made between the query and the get of the only
\* page of a walk, or destroyed between those of its first: the recorded state is the
\* get's, so neither the query nor a delta tells of it.
JmapCurrent ==
  jmapCursor > 0 =>
    \A o \in Objects \ slipped :
      /\ (\A i \in ChangesOf(o) : i <= jmapCursor) => held[o] = Current(o)
      /\ o \in Made(jmapCursor) \cap There => held[o] > 0
===============================================================================
