------------------------------ MODULE MailFolder ------------------------------
(***************************************************************************)
(* One IMAP folder kept in step with its server: the sync scope of the     *)
(* store (the fencing token, the lease, the cursor and the stored mail),   *)
(* the streaming passes that work on it, the IMAP adapter that decides     *)
(* what each pass asks the server for, and the server itself.              *)
(*                                                                         *)
(* Every store call is one transaction and every fetch one command, so     *)
(* each is one action, and the server, other passes, the host and crashes  *)
(* come between any two of them.  A message is told apart by its version,  *)
(* the mod-sequence of its last change: a stored copy is as the server has *)
(* it when the two versions agree.  Version 0 stands for no message.       *)
(***************************************************************************)
EXTENDS Naturals, FiniteSets, Sequences, FiniteSetsExt

CONSTANTS
  Workers,      \* what may run a pass over the folder: polls, pushes, the user
  MaxUid,       \* bound: how many UIDs the server hands out
  InitialMail,  \* how many messages the folder starts with
  MaxModseq,    \* bound: how many changes the server makes
  MaxValidity,  \* bound: how many UID spaces the folder has
  Date,         \* the date of each message; 0 is the oldest
  Floors,       \* the date floors a pass may ask for; 0 is the full history
  Dialects,     \* what the server may speak: "qresync", "xym", "plain"
  FetchBatch,   \* fetch_batch: UIDs one fetch names
  ChunkSize,    \* chunk_size: messages one commit carries
  MaxReclaims,  \* MAX_STALE_RECLAIMS
  MaxClears,    \* bound: how often the host clears or forgets the folder
  MaxFaults     \* bound: failed fetches, deaths, stalls

Uids == 1..MaxUid
Validities == 1..MaxValidity

\* Whose token the scope has when no pass's is current.
Nobody == "nobody"

ASSUME MailFolderAssumption ==
  /\ Nobody \notin Workers
  /\ MaxUid \in Nat /\ MaxModseq \in Nat /\ MaxValidity \in Nat \ {0}
  /\ InitialMail \in 0..MaxUid /\ InitialMail < MaxModseq
  /\ Date \in [Uids -> Nat]
  /\ Floors \subseteq Nat /\ 0 \in Floors
  /\ Dialects \subseteq {"qresync", "xym", "plain"}
  /\ FetchBatch \in Nat \ {0} /\ ChunkSize \in Nat \ {0}
  /\ MaxReclaims \in Nat /\ MaxClears \in Nat /\ MaxFaults \in Nat

VARIABLES
  server,  \* the folder on the server
  speaks,  \* the dialect its sessions negotiate; "upgraded" is QRESYNC from now on
  holder,  \* whose fencing token is the scope's: a worker's, or nobody's
  lease,   \* "none", "live" or "lapsed"
  cursor,  \* the stored cursor, NoCursor for none
  rows,    \* the stored mail, by UID space and UID
  epoch,   \* how often the host has asked for everything afresh
  depth,   \* the date floor the host keeps mail from
  pass,    \* what each worker is doing
  faults   \* how many of MaxFaults have happened

vars == <<server, speaks, holder, lease, cursor, rows, epoch, depth, pass, faults>>

-------------------------------------------------------------------------------
(* The cursor *)

\* `modseq` and `low` are 0 for none.  A `low` is the watermark of a backfill
\* still descending; `floor` is the date floor the cursor was fetched under.
Cursor == [validity : Nat, uidNext : Nat, modseq : Nat, low : Nat,
           reconciled : BOOLEAN, floor : Nat]

NoCursor == [validity |-> 0, uidNext |-> 0, modseq |-> 0, low |-> 0,
             reconciled |-> FALSE, floor |-> 0]

\* Mutant of Resume: the floor the cursor was fetched under is not looked at.
ResumeAnyFloor(stored, window) == stored

\* A cursor fetched under a later floor than is asked for is no cursor.
Resume(stored, window) == IF window >= stored.floor THEN stored ELSE NoCursor

-------------------------------------------------------------------------------
(* Passes *)

Nothing == [u \in Uids |-> 0]

Stages == {"idle",
           "claimed",   \* holds a lease; nothing asked of the server yet
           "backfill",  \* descending the UID groups in `todo`
           "changes",   \* QRESYNC delta: state changes, then "arrivals"
           "arrivals",
           "flags",     \* delta without QRESYNC: held flags, then "fresh"
           "fresh",
           "page",      \* paging a whole snapshot, newest first
           "end",       \* the stream is over
           "fenced"}    \* a commit was refused as stale

\* One EmailChunk.  `advance` is NoCursor when the chunk holds the cursor, and a
\* reconciling chunk that advances it is the last, the one that tombstones.
Chunk == [mode : {"Additive", "Reconcile"}, whole : [Uids -> 0..MaxModseq],
          patched : [Uids -> 0..MaxModseq], removed : SUBSET Uids, advance : Cursor]

\* What SELECT reports, and the dialect the connection negotiated.
Selected == [validity : Nat, uidNext : Nat, modseq : Nat,
             dialect : {"none", "qresync", "xym", "plain"}]

NotSelected == [validity |-> 0, uidNext |-> 0, modseq |-> 0, dialect |-> "none"]

Pass == [stage : Stages, window : Nat, left : Cursor, prior : Cursor,
         sel : Selected, todo : Seq(SUBSET Uids), present : SUBSET Uids,
         below : Nat, patched : [Uids -> 0..MaxModseq], removed : SUBSET Uids,
         chunks : Seq(Chunk), reclaims : 0..MaxReclaims]

Idle == [stage |-> "idle", window |-> 0, left |-> NoCursor, prior |-> NoCursor,
         sel |-> NotSelected, todo |-> <<>>, present |-> {}, below |-> 0,
         patched |-> Nothing, removed |-> {}, chunks |-> <<>>, reclaims |-> 0]

Running(w) == pass[w].stage \notin {"idle", "fenced"}

\* A pass that has just claimed the scope, and what it starts from.
Started(window, reclaims) ==
  [Idle EXCEPT !.stage = "claimed", !.window = window, !.left = cursor,
               !.prior = Resume(cursor, window), !.reclaims = reclaims]

Fault == faults < MaxFaults /\ faults' = faults + 1

-------------------------------------------------------------------------------
(* What the adapter asks for *)

InWindow(window) == {u \in Uids : Date[u] >= window}

OnServer == {u \in Uids : server.mail[u] > 0}

\* The messages of S as the server has them now.
Read(S) == [u \in Uids |-> IF u \in S THEN server.mail[u] ELSE 0]

\* The UIDs of S, newest first, n to a batch; the last batch may be short.
Batches(S, n) ==
  LET rank(u) == Cardinality({v \in S : v > u})
      count == (Cardinality(S) + n - 1) \div n
  IN  [i \in 1..count |-> {u \in S : rank(u) \div n = i - 1}]

\* The UIDs of S as the fetches name them.
Groups(S) == Batches(S, FetchBatch)

Fresh(p) == p.prior = NoCursor

\* A first sync, or one resuming below the watermark of the same UID space.
IsBackfill(p, sel) ==
  Fresh(p) \/ (p.prior.validity = sel.validity /\ p.prior.low > 0)

BackfillHigh(p, sel) == IF Fresh(p) THEN sel.uidNext - 1 ELSE p.prior.low - 1

\* The UIDs a backfill descends: the whole range, or what SEARCH SINCE finds.
BackfillUids(p, sel) ==
  LET range == {u \in Uids : u <= BackfillHigh(p, sel)}
  IN  IF p.window = 0 THEN range ELSE range \cap OnServer \cap InWindow(p.window)

\* Mutant of Frontier: a resumed backfill records the UIDNEXT it resumed with.
FrontierOfResume(p, sel) ==
  [validity |-> sel.validity, uidNext |-> sel.uidNext,
   modseq |-> IF p.prior.modseq > 0 THEN p.prior.modseq ELSE sel.modseq,
   low |-> 0, reconciled |-> Fresh(p), floor |-> p.window]

\* Mutant of Frontier: a resumed backfill records the mod-sequence it resumed with.
FrontierModseqOfResume(p, sel) ==
  [validity |-> sel.validity,
   uidNext |-> IF Fresh(p) THEN sel.uidNext ELSE p.prior.uidNext,
   modseq |-> sel.modseq,
   low |-> 0, reconciled |-> Fresh(p), floor |-> p.window]

\* The frontier of the SELECT the backfill first started with, kept across resumes.
Frontier(p, sel) ==
  [validity |-> sel.validity,
   uidNext |-> IF Fresh(p) THEN sel.uidNext ELSE p.prior.uidNext,
   modseq |-> IF p.prior.modseq > 0 THEN p.prior.modseq ELSE sel.modseq,
   low |-> 0, reconciled |-> Fresh(p), floor |-> p.window]

\* The cursor a delta or a snapshot ends with.
NextCursor(p, sel) ==
  [validity |-> sel.validity, uidNext |-> sel.uidNext, modseq |-> sel.modseq,
   low |-> 0, reconciled |-> TRUE, floor |-> p.window]

\* A cursor with no mod-sequence cannot base a QRESYNC delta: the folder is
\* read whole once.
NeedsBaseline(p, sel) == sel.dialect = "qresync" /\ p.prior.modseq = 0

IsDelta(p, sel) == p.prior.validity = sel.validity /\ ~NeedsBaseline(p, sel)

\* Mutant of Unchanged: a cursor that reconciled nothing lets the folder be skipped.
UnchangedSinceAnyPass(p, sel) ==
  sel.dialect = "xym" /\ p.prior.modseq = sel.modseq /\ p.prior.uidNext = sel.uidNext

\* Whether the folder is as a reconciled cursor left it, so nothing is read.
Unchanged(p, sel) ==
  /\ sel.dialect = "xym" /\ p.prior.reconciled
  /\ p.prior.modseq = sel.modseq /\ p.prior.uidNext = sel.uidNext

Additive(whole, advance) ==
  [mode |-> "Additive", whole |-> whole, patched |-> Nothing, removed |-> {},
   advance |-> advance]

ReconcileLast(whole, advance) ==
  [mode |-> "Reconcile", whole |-> whole, patched |-> Nothing, removed |-> {},
   advance |-> advance]

\* The messages of `whole` as the commits carry them.
Cuts(whole) ==
  LET batches == Batches({u \in Uids : whole[u] > 0}, ChunkSize)
  IN  [i \in 1..Len(batches) |->
         [u \in Uids |-> IF u \in batches[i] THEN whole[u] ELSE 0]]

\* One group of a backfill: full cuts go out holding the cursor, and what is
\* left goes out with the group's checkpoint.
GroupChunks(whole, last) ==
  LET cuts == Cuts(whole)
      full == Cardinality({u \in Uids : whole[u] > 0}) \div ChunkSize
      rest == IF full = Len(cuts) THEN Nothing ELSE cuts[Len(cuts)]
  IN  Append([i \in 1..full |-> Additive(cuts[i], NoCursor)],
             [last EXCEPT !.whole = rest])

\* One fetched page: what it carries besides messages rides the first chunk.
SplitPage(mode, whole, patched, removed) ==
  LET cuts == Cuts(whole)
      empty == cuts = <<>> /\ patched = Nothing /\ removed = {}
      n == IF cuts = <<>> /\ ~empty THEN 1 ELSE Len(cuts)
  IN  [i \in 1..n |->
         [mode |-> mode,
          whole |-> IF cuts = <<>> THEN Nothing ELSE cuts[i],
          patched |-> IF i = 1 THEN patched ELSE Nothing,
          removed |-> IF i = 1 THEN removed ELSE {},
          advance |-> NoCursor]]

-------------------------------------------------------------------------------
(* The server: another client, a delivery, an administrator *)

Untouched == UNCHANGED <<speaks, holder, lease, cursor, rows, epoch, pass, faults, depth>>

Arrive ==
  /\ server.uidNext <= MaxUid /\ server.modseq < MaxModseq
  /\ server' = [server EXCEPT !.uidNext = @ + 1, !.modseq = @ + 1,
                              !.mail[server.uidNext] = server.modseq + 1]
  /\ Untouched

Change(u) ==
  /\ u \in OnServer /\ server.modseq < MaxModseq
  /\ server' = [server EXCEPT !.modseq = @ + 1, !.mail[u] = server.modseq + 1]
  /\ Untouched

Expunge(u) ==
  /\ u \in OnServer /\ server.modseq < MaxModseq
  /\ server' = [server EXCEPT !.modseq = @ + 1, !.mail[u] = 0,
                              !.gone[u] = server.modseq + 1]
  /\ Untouched

\* UIDVALIDITY moves: the surviving messages are numbered afresh from 1.
Renumber ==
  /\ server.validity < MaxValidity /\ server.modseq < MaxModseq
  /\ LET n == Cardinality(OnServer)
     IN  server' = [validity |-> server.validity + 1, uidNext |-> n + 1,
                    modseq |-> server.modseq + 1, gone |-> Nothing,
                    mail |-> [u \in Uids |-> IF u <= n THEN server.modseq + 1 ELSE 0]]
  /\ Untouched

\* The server starts to offer QRESYNC.
Upgrade ==
  /\ speaks = "plain" /\ "qresync" \in Dialects
  /\ speaks' = "upgraded"
  /\ UNCHANGED <<server, holder, lease, cursor, rows, epoch, pass, faults, depth>>

-------------------------------------------------------------------------------
(* The scope: claim, renew, release, and what the host does to it *)

\* `claim_sync_scope`: refused while a lease is live, and fences off any other.
Claim(w, window) ==
  /\ pass[w].stage = "idle" /\ lease # "live"
  /\ holder' = w /\ lease' = "live"
  /\ pass' = [pass EXCEPT ![w] = Started(window, 0)]
  /\ UNCHANGED <<server, speaks, cursor, rows, epoch, faults, depth>>

\* A pass whose commit was refused claims again: a scope already held, or whose
\* cursor moved meanwhile, is left to the next pass.
Reclaim(w) ==
  /\ pass[w].stage = "fenced"
  /\ \/ /\ lease = "live"
        /\ pass' = [pass EXCEPT ![w] = Idle]
        /\ UNCHANGED <<holder, lease>>
     \/ /\ lease # "live" /\ cursor # pass[w].left
        /\ holder' = w /\ lease' = "live"
        /\ pass' = [pass EXCEPT ![w] = [Idle EXCEPT !.stage = "end"]]
     \/ /\ lease # "live" /\ cursor = pass[w].left
        /\ holder' = w /\ lease' = "live"
        /\ pass' = [pass EXCEPT ![w] = Started(pass[w].window, pass[w].reclaims)]
  /\ UNCHANGED <<server, speaks, cursor, rows, epoch, faults, depth>>

\* `release_sync_scope`: only the current token clears the lease.
Released(w) == IF holder = w THEN "none" ELSE lease

\* The stream has ended and everything in it is committed.
Finish(w) ==
  /\ pass[w].stage = "end" /\ pass[w].chunks = <<>>
  /\ lease' = Released(w)
  /\ pass' = [pass EXCEPT ![w] = Idle]
  /\ UNCHANGED <<server, speaks, holder, cursor, rows, epoch, faults, depth>>

\* A fetch or a store call fails: the pass gives the scope back and ends.  A
\* session whose folder was renumbered under it does not survive.
ProviderFails(w) ==
  /\ Running(w)
  /\ \/ Fault
     \/ pass[w].sel.validity \notin {0, server.validity} /\ UNCHANGED faults
  /\ lease' = Released(w)
  /\ pass' = [pass EXCEPT ![w] = Idle]
  /\ UNCHANGED <<server, speaks, holder, cursor, rows, epoch, depth>>

\* The process ends: nothing is given back.
Dies(w) ==
  /\ pass[w].stage # "idle" /\ Fault
  /\ pass' = [pass EXCEPT ![w] = Idle]
  /\ UNCHANGED <<server, speaks, holder, lease, cursor, rows, epoch, depth>>

\* A lease runs out: nobody renews it, or its pass was suspended too long.
LeaseLapses ==
  /\ lease = "live"
  /\ IF \E w \in Workers : holder = w /\ Running(w)
       THEN Fault ELSE UNCHANGED faults
  /\ lease' = "lapsed"
  /\ UNCHANGED <<server, speaks, holder, cursor, rows, epoch, pass, depth>>

\* KeepAlive: the token is still this pass's, so the lease is too.
Renew(w) ==
  /\ Running(w) /\ holder = w /\ lease = "lapsed"
  /\ lease' = "live"
  /\ UNCHANGED <<server, speaks, holder, cursor, rows, epoch, pass, faults, depth>>

NoRow == [ver |-> 0, epoch |-> 0]

NoRows == [v \in Validities |-> [u \in Uids |-> NoRow]]

\* Mutant of ClearCursor: the fencing token stays where it was.
ClearCursorUnfenced ==
  /\ epoch < MaxClears
  /\ epoch' = epoch + 1 /\ cursor' = NoCursor
  /\ lease' = "none"
  /\ depth' \in {f \in Floors : f <= depth}
  /\ UNCHANGED <<server, speaks, holder, rows, pass, faults>>

\* `clear_scope_cursor`, and what opening the store does after the normalizer
\* changed: everything is to be fetched afresh.  A host that widens its window
\* clears.
ClearCursor ==
  /\ epoch < MaxClears
  /\ epoch' = epoch + 1 /\ cursor' = NoCursor
  /\ holder' = Nobody /\ lease' = "none"
  /\ depth' \in {f \in Floors : f <= depth}
  /\ UNCHANGED <<server, speaks, rows, pass, faults>>

\* `prune_account_mail_outside_window`, for a host that narrows its window: no
\* lease is taken and no cursor moved, whatever pass is running.
Prune ==
  \E floor \in Floors :
    /\ floor > depth /\ depth' = floor
    /\ rows' = [v \in Validities |->
                  [u \in Uids |-> IF Date[u] < floor THEN NoRow ELSE rows[v][u]]]
    /\ UNCHANGED <<server, speaks, holder, lease, cursor, epoch, pass, faults>>

\* `abandon_sync_leases`, at start-up after the last process died.
AbandonLeases ==
  /\ lease # "none" /\ Fault
  /\ holder' = Nobody /\ lease' = "none"
  /\ UNCHANGED <<server, speaks, cursor, rows, epoch, pass, depth>>

\* `forget_scopes`: the folder left the folder list, so it is claimed and dropped.
ForgetScope ==
  /\ epoch < MaxClears /\ lease # "live"
  /\ cursor # NoCursor \/ rows # NoRows
  /\ epoch' = epoch + 1 /\ cursor' = NoCursor /\ rows' = NoRows
  /\ holder' = Nobody /\ lease' = "none"
  /\ UNCHANGED <<server, speaks, pass, faults, depth>>

-------------------------------------------------------------------------------
(* A pass: select, fetch, commit *)

\* A step of w's pass that asks the server for something.
Asks(w, stage) ==
  /\ pass[w].stage = stage /\ pass[w].chunks = <<>>
  /\ pass[w].sel.validity \in {0, server.validity}
  /\ UNCHANGED <<server, speaks, holder, lease, cursor, rows, epoch, faults, depth>>

SelectData ==
  [validity |-> server.validity, uidNext |-> server.uidNext,
   dialect |-> IF speaks = "upgraded" THEN "qresync" ELSE speaks,
   modseq |-> IF speaks = "plain" THEN 0 ELSE server.modseq]

\* SELECT, and the SEARCH a bounded backfill starts with: what kind of pass it is.
Select(w) ==
  LET p == pass[w]
      sel == SelectData
      groups == Groups(BackfillUids(p, sel))
      to(stage) == [p EXCEPT !.stage = stage, !.sel = sel]
      ends(chunk) == [to("end") EXCEPT !.chunks = <<chunk>>]
  IN  /\ Asks(w, "claimed")
      /\ pass' = [pass EXCEPT ![w] =
           IF IsBackfill(p, sel)
             THEN IF groups # <<>> THEN [to("backfill") EXCEPT !.todo = groups]
                  ELSE ends(IF Fresh(p) THEN ReconcileLast(Nothing, Frontier(p, sel))
                                        ELSE Additive(Nothing, Frontier(p, sel)))
           ELSE IF ~IsDelta(p, sel)
             THEN [to("page") EXCEPT
                     !.below = IF p.window = 0 THEN sel.uidNext ELSE MaxUid + 1]
           ELSE IF sel.dialect = "qresync" THEN to("changes")
           ELSE IF Unchanged(p, sel) THEN ends(Additive(Nothing, NextCursor(p, sel)))
           ELSE to("flags")]

\* One group of a backfill, and its checkpoint; the last one ends the backfill.
FetchGroup(w) ==
  LET p == pass[w]
      group == Head(p.todo)
      front == Frontier(p, p.sel)
      checkpoint == [front EXCEPT !.low = Min(group), !.reconciled = FALSE]
      last == Len(p.todo) = 1
      ending == IF ~last THEN Additive(Nothing, checkpoint)
                ELSE IF Fresh(p) THEN ReconcileLast(Nothing, front)
                ELSE Additive(Nothing, front)
  IN  /\ Asks(w, "backfill")
      /\ pass' = [pass EXCEPT ![w] =
           [p EXCEPT !.stage = IF last THEN "end" ELSE @,
                     !.todo = Tail(@),
                     !.present = IF Fresh(p) THEN @ \cup (group \cap OnServer) ELSE @,
                     !.chunks = GroupChunks(Read(group), ending)]]

\* CHANGEDSINCE with VANISHED: what moved among the messages already synced.
FetchChanges(w) ==
  LET p == pass[w]
      synced == {u \in Uids : u < p.prior.uidNext}
  IN  /\ Asks(w, "changes")
      /\ pass' = [pass EXCEPT ![w] =
           [p EXCEPT !.stage = "arrivals",
                     !.patched = Read({u \in synced : server.mail[u] > p.prior.modseq}),
                     !.removed = {u \in synced : server.gone[u] > p.prior.modseq}]]

\* Everything from the prior UIDNEXT on.  Asked for when there is none of it, a
\* server answers with its newest message, which is taken as a state change.
FetchArrivals(w) ==
  LET p == pass[w]
      asked == p.sel.uidNext > p.prior.uidNext
      arrivals == {u \in OnServer : asked /\ u >= p.prior.uidNext}
      newest == {u \in OnServer : asked /\ arrivals = {} /\ \A v \in OnServer : v <= u}
      patched == [u \in Uids |-> IF p.patched[u] > 0 THEN p.patched[u]
                                                      ELSE Read(newest)[u]]
  IN  /\ Asks(w, "arrivals")
      /\ pass' = [pass EXCEPT ![w] =
           [p EXCEPT !.stage = "end", !.patched = Nothing, !.removed = {},
                     !.chunks = Append(SplitPage("Additive", Read(arrivals), patched, p.removed),
                                       Additive(Nothing, NextCursor(p, p.sel)))]]

\* Without QRESYNC: the flags of every message the last pass knew.
FetchFlags(w) ==
  LET p == pass[w]
      held == {u \in OnServer \cap InWindow(p.window) : u < p.prior.uidNext}
  IN  /\ Asks(w, "flags")
      /\ pass' = [pass EXCEPT ![w] =
           [p EXCEPT !.stage = "fresh", !.patched = Read(held), !.present = held]]

\* The arrivals SELECT counted, whole; what neither fetch saw is gone.
FetchFresh(w) ==
  LET p == pass[w]
      arrivals == {u \in OnServer \cap InWindow(p.window) :
                     u >= p.prior.uidNext /\ u < p.sel.uidNext}
  IN  /\ Asks(w, "fresh")
      /\ pass' = [pass EXCEPT ![w] =
           [p EXCEPT !.stage = "end", !.patched = Nothing,
                     !.present = @ \cup arrivals,
                     !.chunks = Append(SplitPage("Reconcile", Read(arrivals), p.patched, {}),
                                       ReconcileLast(Nothing, NextCursor(p, p.sel)))]]

\* What a snapshot has yet to read: below the last page, and in the window.
PageLeft(p) == {u \in OnServer \cap InWindow(p.window) : u < p.below}

\* One page of a whole snapshot, newest first.
FetchPage(w) ==
  LET p == pass[w]
      left == PageLeft(p)
      kept == IF left = {} THEN {} ELSE Groups(left)[1]
      last == kept = left
      page == SplitPage("Reconcile", Read(kept), Nothing, {})
  IN  /\ Asks(w, "page")
      /\ pass' = [pass EXCEPT ![w] =
           [p EXCEPT !.stage = IF last THEN "end" ELSE @,
                     !.below = IF last THEN 0 ELSE Min(kept),
                     !.present = @ \cup kept,
                     !.chunks = IF last
                                  THEN Append(page, ReconcileLast(Nothing, NextCursor(p, p.sel)))
                                  ELSE page]]

\* A delta's message outside the window is dropped; a snapshot was read under it.
Admitted(p, c, u) == c.mode = "Reconcile" \/ Date[u] >= p.window

\* `apply_sync_update` of the next chunk, its token current: the messages, the
\* removals and tombstones, the state changes of messages held, and the cursor.
Apply(p, c) ==
  LET last == c.mode = "Reconcile" /\ c.advance # NoCursor
      held(u) == rows[p.sel.validity][u]
      applied(u) ==
        IF (last /\ u \notin p.present) \/ u \in c.removed THEN NoRow
        ELSE IF c.whole[u] > 0 /\ Admitted(p, c, u)
          THEN [ver |-> c.whole[u], epoch |-> epoch]
        ELSE IF c.patched[u] > 0 /\ held(u) # NoRow
          THEN [held(u) EXCEPT !.ver = c.patched[u]]
        ELSE held(u)
  IN  [v \in Validities |->
         IF v = p.sel.validity THEN [u \in Uids |-> applied(u)]
         ELSE IF last THEN [u \in Uids |-> NoRow] ELSE rows[v]]

Commit(w) ==
  LET p == pass[w]
      c == Head(p.chunks)
      moved == IF c.advance = NoCursor THEN cursor ELSE c.advance
  IN  /\ Running(w) /\ p.chunks # <<>> /\ holder = w
      /\ rows' = Apply(p, c)
      /\ cursor' = moved
      /\ pass' = [pass EXCEPT ![w] =
           [p EXCEPT !.chunks = Tail(@), !.left = IF c.advance = NoCursor THEN @ ELSE moved]]
      /\ UNCHANGED <<server, speaks, holder, lease, epoch, faults, depth>>

\* Mutant of Fenced: the limit of starts is passed by one.
FencedOnceMore(p) ==
  IF p.reclaims <= MaxReclaims
    THEN [Idle EXCEPT !.stage = "fenced", !.window = p.window, !.left = p.left,
                      !.reclaims = p.reclaims + 1]
    ELSE Idle

\* A pass refused as stale starts over, MaxReclaims times.
Fenced(p) ==
  IF p.reclaims < MaxReclaims
    THEN [Idle EXCEPT !.stage = "fenced", !.window = p.window, !.left = p.left,
                      !.reclaims = p.reclaims + 1]
    ELSE Idle

\* The commit is refused: the token is another's.
StaleCommit(w) ==
  LET p == pass[w]
  IN  /\ Running(w) /\ p.chunks # <<>> /\ holder # w
      /\ pass' = [pass EXCEPT ![w] = Fenced(p)]
      /\ UNCHANGED <<server, speaks, holder, lease, cursor, rows, epoch, faults, depth>>

-------------------------------------------------------------------------------

Init ==
  /\ server = [validity |-> 1, uidNext |-> InitialMail + 1, modseq |-> InitialMail + 1,
               mail |-> [u \in Uids |-> IF u <= InitialMail THEN u + 1 ELSE 0],
               gone |-> Nothing]
  /\ speaks \in Dialects
  /\ holder = Nobody /\ lease = "none" /\ cursor = NoCursor
  /\ rows = NoRows /\ epoch = 0 /\ depth = 0
  /\ pass = [w \in Workers |-> Idle]
  /\ faults = 0

Fetch(w) ==
  \/ Select(w) \/ FetchGroup(w) \/ FetchChanges(w) \/ FetchArrivals(w)
  \/ FetchFlags(w) \/ FetchFresh(w) \/ FetchPage(w)

ServerMoves ==
  \/ Arrive \/ Renumber \/ Upgrade
  \/ \E u \in Uids : Change(u) \/ Expunge(u)

HostMoves == ClearCursor \/ Prune \/ AbandonLeases \/ ForgetScope

Next ==
  \/ ServerMoves
  \/ HostMoves
  \/ LeaseLapses
  \/ \E w \in Workers :
       \/ \E window \in Floors : Claim(w, window)
       \/ Fetch(w) \/ Commit(w) \/ StaleCommit(w) \/ Reclaim(w) \/ Finish(w)
       \/ Renew(w) \/ ProviderFails(w) \/ Dies(w)

Spec == Init /\ [][Next]_vars

\* The host keeps polling, a running pass gets on, a dead pass's lease runs out,
\* and a session whose folder was renumbered under it fails.
Polls(w) == \E window \in Floors : Claim(w, window)
GetsOn(w) ==
  \/ Fetch(w) \/ Commit(w) \/ StaleCommit(w) \/ Reclaim(w) \/ Finish(w)
  \/ ProviderFails(w) /\ UNCHANGED faults

-------------------------------------------------------------------------------
(* Properties *)

\* Everything stays in its type and its bound: a pass, fenced however often, starts
\* over at most MaxReclaims times.
TypeOK ==
  /\ server \in [validity : Validities, uidNext : 1..(MaxUid + 1), modseq : 1..MaxModseq,
                 mail : [Uids -> 0..MaxModseq], gone : [Uids -> 0..MaxModseq]]
  /\ speaks \in Dialects \cup {"upgraded"}
  /\ holder \in Workers \cup {Nobody} /\ lease \in {"none", "live", "lapsed"}
  /\ cursor \in Cursor
  /\ rows \in [Validities -> [Uids -> [ver : 0..MaxModseq, epoch : 0..MaxClears]]]
  /\ epoch \in 0..MaxClears /\ depth \in Floors
  /\ pass \in [Workers -> Pass]
  /\ faults \in 0..MaxFaults

\* The messages the stored cursor vouches for: those of its UID space, its floor
\* and the UIDs its passes have covered, as far as the server still has them and
\* the host keeps them.
Covered ==
  {u \in OnServer : /\ cursor.validity = server.validity
                    /\ cursor.low <= u /\ u < cursor.uidNext
                    /\ Date[u] >= cursor.floor /\ Date[u] >= depth}

\* No crash, race, failed fetch, prune or change of window makes the store skip a message:
\* what the cursor says is synced is stored (the resume contract of stream_email).
NothingSkipped ==
  \A u \in Covered : rows[cursor.validity][u] # NoRow

\* A change the cursor's mod-sequence covers has reached the stored message: no
\* pass moves the cursor past a change it did not read (what a QRESYNC delta builds
\* on), on a server that offers what it always has.
NothingStale ==
  speaks # "upgraded" =>
    \A u \in Covered :
      server.mail[u] <= cursor.modseq => rows[cursor.validity][u].ver = server.mail[u]

\* After the host clears a cursor, a cursor stands again only over messages read
\* since: a pass that was running does not commit its own back over the clear.
ClearRefetches ==
  \A u \in Covered : rows[cursor.validity][u].epoch = epoch

\* A stored message the server had expunged, or renumbered, when the cursor was taken.
Ghost(v, u) ==
  /\ rows[v][u] # NoRow
  /\ v # cursor.validity \/ (server.gone[u] > 0 /\ server.gone[u] <= cursor.modseq)

\* What MailboxCursor::reconciled records: every message the server no longer
\* held is tombstoned.
ReconciledIsReconciled ==
  cursor.reconciled /\ cursor.validity = server.validity =>
    \A v \in Validities, u \in Uids : ~Ghost(v, u)

\* A cleared cursor's re-snapshot leaves none of the mail stored before orphaned.
ClearOrphansNothing ==
  cursor.reconciled /\ cursor.validity = server.validity =>
    \A v \in Validities, u \in Uids : rows[v][u].epoch < epoch => ~Ghost(v, u)

\* The store holds exactly the server's messages, as the server has them.
InStep ==
  \A v \in Validities, u \in Uids :
    rows[v][u].ver = IF v = server.validity THEN server.mail[u] ELSE 0

===============================================================================
