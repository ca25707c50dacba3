-------------------------------- MODULE MCFeeds --------------------------------
(* Small instances of a calendar's events, a JMAP type, a message's keywords,  *)
(* the people index and the blob area.  They share no state: a behaviour runs  *)
(* one of the five.                                                            *)
EXTENDS EventScope, JmapWalk, KeywordEdits, PeopleIndex, BlobSweep

VARIABLE running

feedVars == <<calVars, jmapVars, editVars, peopleVars, blobVars, running>>

TwoOfOne == <<"a", "a", "b">>

\* The four that do not run rest in one of their initial states.  Events are alike, so
\* it does not matter which is there first.
FeedInit ==
  /\ CalInit /\ JmapInit /\ KeywordInit /\ PeopleInit /\ BlobInit
  /\ running \in {"calendar", "jmap", "keywords", "people", "blobs"}
  /\ calendar.live = {"e"}
  /\ running # "jmap" => order = "Fixed" /\ counts

FeedNext ==
  \/ /\ running = "calendar" /\ CalNext
     /\ UNCHANGED <<jmapVars, editVars, peopleVars, blobVars, running>>
  \/ /\ running = "jmap" /\ JmapNext
     /\ UNCHANGED <<calVars, editVars, peopleVars, blobVars, running>>
  \/ /\ running = "keywords" /\ KeywordNext
     /\ UNCHANGED <<calVars, jmapVars, peopleVars, blobVars, running>>
  \/ /\ running = "people" /\ PeopleNext
     /\ UNCHANGED <<calVars, jmapVars, editVars, blobVars, running>>
  \/ /\ running = "blobs" /\ BlobNext
     /\ UNCHANGED <<calVars, jmapVars, editVars, peopleVars, running>>

FeedSpec == FeedInit /\ [][FeedNext]_feedVars

\* One worker syncs and reconciles writes, the other reconciles writes and moves the
\* horizon; only the first meets an event it cannot read, always the same, and not with the
\* calendar's last change.  That change meets no lost token, and neither it nor a calendar
\* without reports the wider window.
Roles ==
  /\ calPass["b"].stage \notin {"listed", "resolving", "seeding"}
  /\ calPass["a"].stage \notin {"widening", "expanded", "recording"}
  /\ calPass["a"].skipped \subseteq {"e"} /\ calPass["b"].skipped = {}
  /\ calPass["a"].seed # 2 /\ (calPass["a"].tag > 0 \/ calPass["a"] = CalIdle)
  /\ calendar.count = MaxCalChanges =>
       calendar.reports /\ calendar.oldest = 0 /\ calPass["a"].skipped = {}
  /\ calendar.count = MaxCalChanges \/ ~calendar.reports =>
       scope.window # 2 /\ \A w \in CalWorkers : calPass[w].window # 2

\* The last change of a JMAP type comes where nothing failed.
LastUndisturbed == Len(changes) = MaxChanges => jmapFaults = 0
===============================================================================
