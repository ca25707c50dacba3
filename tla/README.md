# A TLA+ model of the sync engine

This directory holds TLA+ specifications of the email and calendar sync engine in
`src/`, the TLC instances that check them, and TLAPS proofs about them. They cover
the parts that keep state between steps that others may come between:

* the **outbox**, which must deliver what the user sent once and not twice (section 2);
* the **sync of mail**, from IMAP folders and from Gmail, which must not lose sight of
  any message (section 3);
* the **transport**: the IMAP connection pool, the gate on HTTP requests and the HTTP
  call with its hand-over and replays (section 4);
* the **feeds of the store**: calendars over CalDAV, the JMAP walk, queued keyword
  edits, the people index and the blob area (section 5).

Run from this directory: `tlc -workers 2 -config MCOutbox.cfg MCOutbox` (and so on for
each run of `PROJECT.json`) and `tlapm OutboxProofs.tla` (and so on for each
`*Proofs` module).

## 1. Inventory

### The engine and its parts

| Part (crate) | State it keeps | Operations | Talks to | Module |
|---|---|---|---|---|
| Outbox store (`store-sqlite/outbox_ops`, contract and rules in `engine-store`) | one `pending_op` row per op: state, fencing token, lease expiry, attempts, due time, hand-over token | enqueue, claim one, claim a batch, renew, hand over, mark, recover, cancel, retry, confirm | drains, the host, sync passes | `Outbox`, `OutboxDurable` |
| Outbox attempts (`engine-sync/outbox`, `engine-provider/hand_over`) | the lease and progress of each attempt, in memory | drain, submit, renew while waiting, mark | store, server | `Outbox` |
| Sent-copy reconciliation (`engine-sync/sent_copies`) | none; a plan between two store calls | match parked sends with the Sent folder | store | `Outbox` |
| Sync scopes (`store-sqlite/scope_ops`, `scope_renew`) | per scope: token, lease, cursor, objects, derived rows | claim, renew, apply, release, clear, abandon, forget | passes, the host | `MailFolder`, `EventScope` |
| Mail pass (`engine-sync/stream`, `window_cursor`, `keep_alive`, `vanished`) | a lease, the cursor it left, an open stream | claim, stream and commit, restart when fenced, release | store, adapter | `MailFolder` |
| IMAP folder adapter (`provider-imap` `stream`, `sync`, `resync`, `qresync`, `cursor`) | a session; the cursor it encodes | SELECT, backfill, delta, snapshot | server | `MailFolder` |
| Depth pruning (`store-sqlite/prune`) | none | drop mail below the new floor, without a lease | the host | `MailFolder` |
| Gmail mail pass (`provider-google` `pass`, `fetch`, `cursor`) | the cursor: backfill page or history id | delta pages, backfill pages, reconciling listing | server | `GmailPass` |
| IMAP pool and watches (`provider-imap` `pool`, `pool_lease`, `pool_spare`, `pool_watch`) | permits, parked connections, ceiling, generation, counters | acquire, borrow a spare, reserve a watch, park, lower the ceiling, invalidate | server | `ImapPool` |
| HTTP gate (`engine-http/gate`) | lanes in flight, the limit, a Notify | acquire, return, narrow | every HTTP adapter | `RequestGate` |
| HTTP call (`engine-http` `send`, `hand_over`, `deadline`, `policy`, `error`) | one exchange, attempts and sleep so far | send, hand over, replay, hand back | servers, the outbox | `HttpSend` |
| Calendar sync and horizon (`engine-sync` `calendar`, `calendar_scopes`, `horizon`; `provider-caldav` `sync`, `ctag_sync`, `multiget`) | cursor, collection tag, expansion window, events, occurrence rows | sync, reconcile a write, widen the horizon | store, server | `EventScope` |
| JMAP adapter's reads (`provider-jmap` `walk`, `fetch`, `fetch_scope`) | the walk of one pass; a state string | changes, page through a query, settle, get | server | `JmapWalk` |
| Keyword edits (`store-sqlite/keyword_edits`, `engine-sync/outbox/mail`) | queued edits, the server's set, what is shown | queue, settle, show after sync | outbox, passes | `KeywordEdits` |
| People index (`store-sqlite/contact_ops`, `engine-sync/contact`, `engine-core/people`) | people, aliases, a source generation | rebuild under compare-and-swap, forget | contact passes, the host | `PeopleIndex` |
| Blob area (`store-sqlite` `blob`, `source_ops`, `sweep`) | files and the rows that name them | put, drop, sweep | the host | `BlobSweep` |
| Mail account pass, forget_account, threading, body pass, Graph, writes of the adapters | | | | none (section 8) |
| Pure code: MIME, iCalendar, RFC 5322, recurrence, search, domain types | none | conversions | everything | none (section 8) |

The parts meet in the store. Each store call is one SQLite transaction; between two
of them a worker holds nothing but a **lease**: a fencing token that the store
compares on every write, and an expiry past which another worker may take over.
There is no other coordination. A host polls, is pushed to, and may run several
processes over one store; a phone may suspend any of them for hours.

What is hard follows from that: a worker resumes after its work was given to
another; a process dies between two writes; the answer of a server is lost; the
user withdraws or confirms while a worker is mid-way; power goes before a commit
reached the disk; a server changes between two commands of one pass; a task is dropped
at any await while others wait for what it held.

### What makes each part correct

* Outbox: a message is not delivered again unless the host said it was not
  delivered; withdrawn stays unsent; "succeeded" means delivered; writes of one
  resource do not overlap; dependencies come first; every op is resolved.
* Every sync: a cursor, tag or state vouches only for what is stored, as new as it
  says; a fresh start the host asked for is not undone; a cursor marked reconciled
  leaves no ghosts; a quiet server is caught up with.
* Transport: sockets stay within the server's limit, permits and lanes are neither lost
  nor minted, nobody waits for a wakeup that will not come, no connection of before a
  network change serves a call of after it; a submission is whole on the server only
  after its hand-over is on record; a write is not sent twice by a replay.
* Derived state: occurrence rows follow their events; an accepted edit does not
  flicker; a people rebuild does not overwrite a newer one; a sweep does not take a file
  just written.

`PROJECT.json` lists every hazard at its line, with the properties that would catch
it. Four have a note instead: no property covers them (section 8 says why).

## 2. The outbox

### `Outbox.tla`

One account's rows `op`, the attempts `att` running anywhere, the requests on the
`wire`, and history the properties need: `delivered`, `saidNo`, `saidYes`. One action
is one store call or one step of an attempt between store calls.

| Action | Code |
|---|---|
| `Enqueue` | `outbox_ops::enqueue`; a second enqueue of a key returns the row and changes nothing |
| `ClaimOne`, `ClaimRefused`, `ClaimBatch` | the claims, each of which recovers dead attempts first and commits that even when it refuses |
| `RecoverInterrupted` | start-up recovery: every op in flight, whatever its lease |
| `CommitHandOver`, `HandOverRefused` | `hand_over`, called by `HandOver::commit` before the first irreversible byte |
| `SendRequest`, `ServerAccepts`, `ServerRefuses`, `RequestLost`, `AnswerLost` | the provider call |
| `Mark`, `MarkRefused` | `mark`, its fence, and `settle::record_outcome` |
| `Renew`, `LeaseLapses`, `BackoffElapses` | `holding` and the clock |
| `Cancel`, `RetryNow`, `ConfirmDelivered`, `ConfirmNotDelivered`, `VerbRefused` | `host.rs`; each recovers the op's own dead attempt first |
| `PlanReconcile`, `Reconcile` | `sent_copies` plans; `scope_ops::reconcile_op` re-validates and applies |

Abstractions. Times are reduced to what the code compares: a lease is live or
lapsed, a backoff running or over. There are three kinds of op: a send (`"MailSubmit"`),
any other mail write (`"MailWrite"`), and a calendar or contact write (`"OtherWrite"`). Sends
differ from writes in whether an ambiguous outcome is parked for the user and whether
attempts run out; the two kinds of writes differ only in who claims them, for a drain
dispatches mail (`Dispatchable`, `drain.rs:140-167`). A throttled request that the HTTP layer
replays is
part of one attempt. An outcome that cannot be written to the store is
`AttemptDies`. Operations that only read do not appear, except through `View`: a row
with a dead attempt reads as its recovery will leave it.

Failures are bounded by `MaxFaults`: deaths, stalls past a lease, lost requests and
answers, refusals. A lease that lapses because its attempt is gone costs no fault.

The host is arbitrary: with `TruthfulHost = FALSE` it may confirm what did not happen.
That is the weakest assumption and the one the proofs use; `TRUE` serves the run that
shows a truthful host is not enough (below).

### `OutboxDurable.tla`

Adds the `disk`. The file store runs WAL with `synchronous = NORMAL`, so a power cut
rolls the database back to *some* commit not older than the last synced one. `Commit`
lets any step leave the disk as it was or bring it up to date, and forces it for the
three calls the store wraps in `durably` (enqueue, cancel, hand-over). A sync carries
every earlier commit with it, as the write-ahead log is one sequence.

### `SendPromise.tla` and `OutboxPromise.tla`

`SendPromise` is what a user may rely on: each send has a licence to be delivered,
`NotDelivered` grants one more, withdrawal takes back an unused one, a send is shown
as sent only if it was delivered or the host said so. `OutboxPromise` maps the rows
to it: the status is the state of `View(o)`, the licences are `saidNo[o]` plus one
unless the row is withdrawn.

### Runs

| Run | Instance | Shows |
|---|---|---|
| `outbox_safety` | one op of each kind, all on one resource, 2 faults, 2 attempts, any host, fairness | `TypeOK`, `DeliveredOnce`, `WithdrawnUnsent`, `SucceededIsDelivered`, `ResourceExclusive`, `WriteAttemptsBounded`, `SettledStays`, `EventuallyResolved`, `Implements` |
| `outbox_durable` | two sends of one draft, the second depending on the first, power cuts among 3 faults | `DeliveredOnce`, `WithdrawnUnsent`, `DependenciesFirst`, `PromisesSurvive` |
| `outbox_twice` | one send, truthful host, 2 faults | `NeverDeliveredTwice` is violated |

Why the bounds suffice: the shortest bad interleavings of the code's mutants need one
stalled attempt and one that replaces it, so two or three faults and two ops; the
longest one found (`outbox_twice`) needs one stall. Two ops on one resource are the
smallest case of serialization, of a recovery of *another* op inside a claim, and of a
dependency; the third is a calendar or contact write that is left queued or in flight in
front of mail. Tokens and attempts are unbounded in the module; in an instance the faults
bound them, for a row is re-armed only after an attempt failed or was given up.

`CHECK_DEADLOCK FALSE` in these runs: an outbox in which everything is settled has
nothing left to do.

**Finding (`outbox_twice`).** The documentation says a message is never delivered
twice whatever stalls. An attempt that is suspended between its recorded hand-over
and its first byte outlives the recovery and the host's truthful `NotDelivered`, and
sends afterwards. The exact guarantee is `DeliveredOnce`: deliveries never exceed one
plus the number of `NotDelivered` answers.

### Fairness

`EventuallyResolved` assumes that the host keeps draining, that attempts progress
(each network step has a deadline, after which the attempt marks its op), that a
server answers a request that was not lost, and that clocks advance. Draining is weak
fairness of `Drain(o)`, which is the claim of a *mail* op: a drain leaves calendar and
contact writes queued (`drain.rs:14-20`), so those have the one attempt of the call that
enqueued them and nobody need claim them again, and the property asks nothing of them. What
it does ask is that mail on the same resource is resolved beside a calendar or contact write
that stays queued, parked or dead in flight for ever. A dead attempt of such a write is
recovered by the next claim, and reads as recovered until then, so the property judges
`View`. `Drain` covers the refused claim, which commits the recovery as well. It assumes no
fairness of the host's verbs: an op that waits for confirmation counts as resolved,
and the property asks nothing of ops with dependencies, for an op whose dependency
failed waits for ever by design.

### Proofs

For every set of ops, every assignment of kinds, resources and dependencies, every
bound and every host (the only assumption is `OutboxAssumption`):

| Theorem | Module | States |
|---|---|---|
| `TypeCorrect` | `OutboxProofs` | `Spec => []TypeOK` |
| `LedgerBalances` | `OutboxProofs` | `Spec => []LedgerInv` |
| `SendDeliveredOnce` | `OutboxProofs` | `Spec => []DeliveredOnce` |
| `WithdrawnStaysUnsent` | `OutboxProofs` | `Spec => []WithdrawnUnsent` |
| `SuccessIsDelivery` | `OutboxSafetyProofs` | `Spec => []SucceededIsDelivered` |
| `ResourceSerializes` | `OutboxSafetyProofs` | `Spec => []ResourceExclusive` |
| `WritesBounded` | `OutboxSafetyProofs` | `Spec => []WriteAttemptsBounded` |
| `SettledIsFinal` | `OutboxSafetyProofs` | `Spec => SettledStays` |
| `DependenciesRunFirst` | `OutboxSafetyProofs` | `Spec => []DependenciesFirst` |
| `OutboxKeepsPromise` | `OutboxSafetyProofs` | `Spec => Implements` |
| `DurableBooks` | `OutboxDurableProofs` | `DurableSpec => []DurableInv` |
| `DeliveredOnceDespiteCuts` | `OutboxDurableProofs` | `DurableSpec => []DeliveredOnce` |
| `WithdrawnUnsentDespiteCuts` | `OutboxDurableProofs` | `DurableSpec => []WithdrawnUnsent` |
| `PromisesOutliveCuts` | `OutboxDurableProofs` | `DurableSpec => PromisesSurvive` |
| `SendsWaitDespiteCuts` | `OutboxDurableProofs` | `DurableSpec => []SendDependenciesFirst` |
| `DependenciesDespiteCuts` | `OutboxDurableProofs` | `DurableSpec => []DependenciesFirst`, where only sends have dependencies |

`DeliveredOnce` is not inductive: nothing in it stops a state with one delivery and a
request still on the wire. The strengthening is a **ledger**. Each send starts with one
licence. At any time a licence is *unused* (the row may still be attempted and no
hand-over is recorded), with an attempt that recorded its hand-over, with a request
on the wire, spent by a delivery, or *given back* (an attempt was refused and its row
still takes its report). `Ledger` says the sum of those never exceeds
`saidNo + 1`, or `saidNo` once withdrawn. Its preservation needs
`RowsSound` (a hand-over token never exceeds the row's token, and an op in flight has
none or its own), `LeasesSound` (one attempt per token; a current attempt means a row
in flight) and finiteness of the counted sets; `LedgerInv` is their conjunction. Rows
change only in ways that free no licence, which the lemmas `Keeps...` state once for
recovery, lease, and re-arming; then there is one step per action.

`SucceededIsDelivered` needs only `Vouched` (an attempt that was accepted, and a plan
to reconcile, both imply a delivery), `ResourceExclusive` is inductive with the
types. The refinement uses `LedgerInv` for `Deliver` and `Withdraw`: a request on the
wire or an unused row means `delivered < licences`.

`WriteAttemptsBounded` needs `RowsTidy`: a lease and a running backoff mean the state they
are for, a write is never parked, and one that may still be claimed has an attempt left.
`SettledStays` follows from the types and the shape of each write to a row.
`DependenciesFirst` says nothing of an attempt that outlived its row's state, so its
invariant `DependenciesDone` counts the attempts and requests of an op as work on it.

*Power cuts.* A cut takes the rows back to the disk's and leaves what was sent, so the books
must balance for the disk too. `DurableInv` asks of every row on the disk what `LedgerInv`
and `RowsTidy` ask of the row in use (`DiskRow`: an unsynced row grants no licence that is
spent), and that enqueued and withdrawn ops are on it (`Kept`). It is inductive because each
of the three synced calls is exactly one that spends or takes back a licence or makes a row;
the step that records a hand-over without the sync would break it. `PromisesSurvive` and the
two invariants about sends follow. Dependencies survive a cut for sends only: the hand-over's
sync carries the dependency's success with it. A *write* is sent without a sync, so a cut may
take back the success that its request built on, and TLC finds that history when a write
depends on another op. `SendsWaitDespiteCuts` therefore speaks of sends, and
`DependenciesDespiteCuts` has the hypothesis that only sends have dependencies.

Model-checked only: `EventuallyResolved` (liveness under fairness is out of the prover's
reach).

## 3. Mail

### `MailFolder.tla`

The server's folder (`server`: UIDVALIDITY, UIDNEXT, mod-sequence, mail and expunges),
the scope in the store (`holder` of the token, `lease`, `cursor`, `rows`), and the
passes of several workers. A message is its version, the mod-sequence of its last
change. `epoch` counts how often the host asked for everything afresh and each row
records the epoch it was read in; `depth` is the date below which mail was pruned.

| Action | Code |
|---|---|
| `Claim`, `Renew`, `Finish`, `LeaseLapses`, `AbandonLeases` | `scope_ops::claim`, `scope_renew`, `release`, `abandon_sync_leases` |
| `Select` | the adapter's `stream_email` and `sync_page_selected` after SELECT: backfill, snapshot, QRESYNC delta, flag delta or nothing |
| `FetchGroup` | one group of a backfill, newest first, and its checkpoint |
| `FetchChanges`, `FetchArrivals` | the two commands of a QRESYNC delta |
| `FetchFlags`, `FetchFresh` | the two of a delta without it |
| `FetchPage` | one page of a snapshot |
| `Commit`, `StaleCommit`, `Reclaim` | `scope_ops::apply` under its fence and the restart in the engine's `stream_email` |
| `ProviderFails`, `Dies` | an error, which releases the scope, and a process that ends, which does not |
| `ClearCursor`, `ForgetScope`, `Prune` | `clear_scope_cursor`, `forget_scopes`, `prune_account_mail_outside_window` |
| `Arrive`, `Change`, `Expunge`, `Renumber`, `Upgrade` | the server, moved by others |

Abstractions. One fetch is one step, although a page may take several commands; each
row of it is read once, so reading the rows at one moment loses only interleavings
inside a page. SELECT and the SEARCH of a bounded backfill are one step. The server
always reports UIDNEXT. A session does not survive a change of UIDVALIDITY: its
commands fail. The token is represented by its holder, which is exact as long as the
generation is never reset (forgetting an *account* resets it; that is not modelled). A
bumped cursor version reads as a clear. The settling of attachment flags and unsolicited
rows are not modelled.

Three dialects: `"qresync"`; `"xym"`, a server that reports HIGHESTMODSEQ without
QRESYNC, where an unchanged folder may be skipped; `"plain"`.

### `GmailPass.tla`

The mailbox is a `log` of records; a history id is its length and a message's version the
number of its last record. History ages (`aged`: older ids get 404) and page tokens are
forgotten between passes. The stored cursor is none, a backfill (the history id it
started from and the page it stands at) or a delta.

| Action | Code (`provider-google`) |
|---|---|
| `StartPass` | the choice by cursor in `pass.rs` |
| `DeltaPage`, `CaughtUp`, `HistoryExpired` | `history.list` page by page; a 404 restarts the mailbox from a backfill |
| `ListPage`, `Checkpoint`, `ListStopped`, `TokenRefused` | the backfill, its checkpoints, an interrupted page and a page token no longer honoured |
| `ListIds` | the listing of ids after a backfill, whose last page tombstones what is in none of them |
| `PassStops` | an error or the end of the process |
| `MailboxMoves`, `HistoryAges`, `TokensForgotten` | the server |

A request and the commit of what it brought are one action, and one pass runs at a
time: contention for the lease is `MailFolder`'s subject.

### Runs

| Run | Instance | Shows |
|---|---|---|
| `folder_sync` | 2 workers, all dialects, two date floors, 3 UIDs, 5 changes, 2 UID spaces, a clear, a prune, 1 fault | `TypeOK`, `NothingSkipped`, `NothingStale`, `ClearRefetches` |
| `mail_live` | a folder: 2 workers, `xym` and `plain`, a renumbering, a clear, 1 fault; or a Gmail mailbox: 3 messages, 4 records, pages of one, 1 fault | `ReconciledIsReconciled`, `GmailCurrent`, `FolderSettles`, `GmailSettles` |
| `folder_ghost_arrival` | 1 undisturbed worker, QRESYNC | `ReconciledIsReconciled` is violated |
| `folder_ghost_clear` | 1 worker, QRESYNC, 1 clear, 1 fault | `ClearOrphansNothing` is violated |

Why the bounds suffice: with groups and chunks of one message a folder of two has a
checkpoint between its messages, a third UID gives an arrival during the pass, and
five mod-sequences leave two or three changes beyond the initial mail, one on each
side of a crash. One fault and one clear already give a fenced pass beside a running
one. `MaxReclaims` is 1 where the code says 3: it only repeats the same restart.
`folder_sync` is cut by the state constraint `OneAtATime`: one pass over everything the
module has, or two at once over the whole history of one QRESYNC folder. In the Gmail
mailbox a page of one id makes a backfill of two messages three requests, and four records
put a change before, between and after them, with the history aging out on the way.
The folder of `mail_live` is smaller than the one of `folder_sync`, for liveness needs the whole
graph: two messages, no date floors, and two mod-sequences beyond the initial mail. That is one
change or expunge before a fault and one after; a third makes the run several times longer than
the rest of the project together.
Deadlock is checked: a folder can always be polled again.

`ReconciledIsReconciled` and `FolderSettles` are asked of servers without QRESYNC,
because with it they do not hold (the findings). `NothingStale` leaves out a server that
begins to report mod-sequences between a killed backfill and its resumption:
`provider-imap/src/stream.rs:91-95` promises the values of the *first* SELECT, there were
none, and the code takes those of the second, so changes in between go unread until the
message changes again. `Upgrade` is in the module for a reader who wants that trace.

**Findings.** With QRESYNC, two histories leave an expunged message stored for good
under a cursor marked reconciled, against the documentation: a message stored by the
arrivals fetch above the recorded UIDNEXT and expunged before the next pass
(`folder_ghost_arrival`), and a re-snapshot after a clear that is interrupted
(`folder_ghost_clear`).

### Fairness

`FolderSettles` assumes that the host keeps polling (`Polls`), that a pass which can take
a step takes one (`GetsOn`: every command has a deadline, after which the pass ends with
an error), and that the lease of a dead pass lapses. `GmailSettles` assumes that a pass
is started and goes on (`PassStep`). The server and the faults are bounded, so both end
by themselves. The fairness is weak throughout, and none is asked of the host's clears.

### Proofs

`MailFolderProofs`, for any set of messages and dates, any workers, dialects and sizes of
groups, pages and chunks (`MailFolderAssumption` is the only assumption):

| Theorem | States |
|---|---|
| `FolderTypes` | `Spec => []TypeOK` |
| `NoMessageSkipped` | `Spec => []NothingSkipped` |
| `NoChangeMissed` | `Spec => []NothingStale` |
| `ClearMeansRefetch` | `Spec => []ClearRefetches` |
| `ReconciledMeansTidy` | `Spec => [](speaks \in {"xym", "plain"} => ReconciledIsReconciled)` |

`NothingSkipped`, `NothingStale` and `ClearRefetches` are not inductive: nothing in them ties the
cursor that a pass is about to commit to what it has read. The invariant `FolderIndInv` says what
the pass *whose token is current* owes. Its conjuncts:

* `ServerSound`, `CursorSound`: UIDs below UIDNEXT that are gone stay gone, and what a cursor or
  a SELECT says of the server lies in its past;
* `CoveredGood`: every message on the server that the stored cursor covers and the host keeps is
  stored, read since the last clear, and as new as the cursor's mod-sequence says;
* `HolderSound`, for the holder: what it read is as it was at its SELECT or later, a tombstone is
  of a message that is gone, a chunk that advances the cursor is the last of those waiting, and
  every message the *coming* cursor covers is stored, or in a chunk not yet committed, or in a
  group or page not yet fetched (`BackfillSound`, `PageSound`, `ArrivalsSound`, `FreshSound`, one
  for each stage of a pass);
* `TodoSound`: the groups of a backfill that are left are not empty and go down.

A pass without the token owes nothing, since the fence refuses its commit: that is what makes
clears, forgotten scopes and lapsed leases preserve the invariant without a look at the passes
they overtake. The definitions take the state as a record (`World`, `Now`), so a lemma about the
server or about a commit is stated once and used of the state before a step and the state after
it: what the server may do to what was promised (`Moves`), what a prune does (`Pruned`), what one
chunk does to the rows (`Applied`). `NothingStale` keeps its exception for `Upgrade`, as above.

`ReconciledMeansTidy` is the positive half of the finding `folder_ghost_arrival`: whatever the
server's dialects may be, `reconciled` means what its documentation says as long as QRESYNC has
not been offered. It needs `TidyInv` beside `FolderIndInv`. What the holder has seen (`present`),
or is about to write, the server had not lost by the mod-sequence of its SELECT; the stored
cursor is of no later UID space than that SELECT; and a chunk that says `reconciled` without
tombstones writes nothing and repeats the stored cursor (the skip of an unchanged folder, which
is sound only because that cursor is reconciled itself). The two stages of a QRESYNC delta are
excluded: there an arrival is written above the UIDNEXT the cursor records, and nothing
tombstones it later. Before the proof TLC checked `TidyInv` on the folder of `mail_live`
(290,328 states).

`GmailPassProofs`, for mailboxes, histories and pages of any size (`GmailPassAssumption`):
`GmailCursorVouches`, which states `GmailSpec => []GmailCurrent`. `GmailCurrent` speaks of the
stored cursor only; the invariant `GmailInv` says for each stage of a pass up to which history id
the store is right about which messages (`UpTo`): a *live* message with a record by then is
stored, and one with no later record is stored as it is. The first half is what the property
lacks: a label change is applied to stored messages only, so a vouched message that was never
stored would be missed by every later delta. A page of history may also put an older version
over a newer one; that is harmless because the newer one's record is still ahead of the pass, and
because the log is sound (`LogSound`: an arrival is the first record of a message and a deletion
the last). For the reconcile, `IdsHold`: whatever was listed and is gone since went after the
history id of the cursor, so the delta will remove it.

Model-checked only: the liveness of both.

## 4. Transport

### `ImapPool.tla`

Tokio's semaphore is `permits` and a first-come `queue`; `ceiling`, `watches`, `workers`
and `generation` are the atomics; `parked` the shelf; `client` says where each task is in
its call and which generation its connection was dialled in.

| Action | Code (`pool*.rs`) |
|---|---|
| `Acquire`, `TryAcquire`, `ReserveWatch` | the three ways in: a worker's call, a spare for a pass, a reservation |
| `TakePermit`, `TakeParked`, `Connect`, `CheckFails` | the permit, the shelf (of the current generation only), the NOOP check, a dial |
| `DialBreaks`, `DialRefused`, `LowerCeiling`, `ComesRound` | a dial that fails; a server that refuses a session, the permit forgotten, the ceiling lowered, and the wait for a connection to come back |
| `EndBorrow`, `Push`, `Uncount`, `Wake`, `EndWatch` | a guard dropped: parked or discarded, uncounted, waiters woken |
| `BumpGeneration`, `ClearParked`, `RestoreCeiling`, `AddPermits` | `invalidate`, step by step |
| `Drop` | a call's future dropped at an await |

### `RequestGate.tla`

`limit`, `inFlight` and the Notify: who is registered (`sleepers`), who was notified
(`fired`), and the one notification kept when nobody is. `Ask`, `Arm`, `TakeLane`,
`FindNoLane`, `WakeUp`, `ReturnLane`, `Notify`, `Abandon` are the steps of `acquire` and of
the lane's drop; `NarrowTo` is an adapter stating a ceiling. Tokio's semaphore and Notify
are modelled from how the code uses them, and marked external.

### `HttpSend.tla`

One call of the funnel. The body goes out in pieces, a submission withholds the last until
the outbox recorded the hand-over (`AskHandOver`, `CommitHandOver`), the server receives,
acts and replies, deadlines fire (`ExchangeFails`, `ReplyLost`), throttled replies are
waited out and replayed within attempts and budget (`Replay`, with `Granted` for the
arithmetic of `policy.rs`), and the end is what the adapter makes of it (`HandBack`,
`OutcomeOf`). The server may apply a request and still answer 502 or 503.

### Runs

The three share no state. `MCTransport` puts them in one run: a variable `running` says
which of them a behaviour runs, and the others rest, so the states add up and do not
multiply. `MCFeeds` and `MCMailLive` do the same.

| Run | Instance | Shows |
|---|---|---|
| `transport`, pool | 3 tasks, 2 connections, an invalidation beside a failure, or two failures beside a dropped call | `SocketsWithinCeiling`, `BudgetBalances`, `NobodyStranded`, `SupersededNotReused`, `FloorUnlessLowered`, `AcquireAnswered` |
| `transport`, gate | 3 requests, a ceiling narrowed to 2 and to 0 (read as 1) | `WakeupsCoverLanes`, `RequestServed` |
| `transport`, call | up to 2 pieces, 3 attempts, waits that fit the budget and one that does not | `HandedOverFirst`, `AppliedOnce`, `NotReceivedIsUnapplied`, `WaitsBounded` |
| `http_503` | the call alone | `RefusedIsUnapplied` is violated |

Three tasks over two connections are the least with one that waits while two hold and one
of them is refused; three requests over one or two lanes the least with two sleepers and a
wakeup to be passed on. `CHECK_DEADLOCK FALSE`: a call that ended, and requests all served,
have nothing left to do.

`FloorUnlessLowered` says what the reservation keeps for the workers: one connection,
*unless* the server lowered the ceiling since. When it did, watches may hold everything,
which is why `AcquireAnswered` excuses that case. A reservation dropped while it awaits its
permit leaves its slot counted; the model has that step and no property asks for the
slot back.

**Finding (`http_503`).** The adapters take every status but 502 and 504 as proof that a
write was not applied; the retry policy's own comment says a 503 carries no such promise.
A write applied and answered 503 is reported as refused.

### Fairness

`AcquireAnswered`: dials, checks and commands have deadlines (`PoolStep`), the semaphore
is first come first served, an invalidation runs through. No fairness makes a watch end, a
host ask or a borrower call again. `RequestServed`: a request that can go on does, and every
exchange ends by its deadlines (`GateStep`).

### Proofs

`TransportProofs`, for any number of tasks, connections and requests, bodies of any number of
pieces and every retry policy (the assumptions are the modules' own):

| Theorem | States |
|---|---|
| `PermitsBalance` | `PoolSpec => []BudgetBalances` |
| `SocketsBounded` | `PoolSpec => []SocketsWithinCeiling` |
| `WaitersWoken` | `PoolSpec => []NobodyStranded` |
| `NoSupersededConnection` | `PoolSpec => []SupersededNotReused` |
| `WorkersKeepOne` | `PoolSpec => []FloorUnlessLowered` |
| `LanesNeverLost` | `GateSpec => []WakeupsCoverLanes` |
| `HandOverComesFirst` | `SendSpec => []HandedOverFirst` |
| `WriteAppliedOnce` | `SendSpec => []AppliedOnce` |
| `NotReceivedNotApplied` | `SendSpec => []NotReceivedIsUnapplied` |
| `SleepsWithinBudget` | `SendSpec => []WaitsBounded` |

`PoolInv`: permits, tasks that hold or forgot one and permits still to be added sum to the
ceiling (`BudgetBalances`); the sockets, those on the shelf included, fit under the ceiling even
with the permits forgotten and still to be added put on top (`PoolCounts`). A resting connection
stands on no permit, so the first sum does not bound the sockets: a dial keeps the second only
because it happens with an empty shelf, when every other socket has a permit. With these go the
queue (nobody waits twice), the watches (`WatchSound`) and the generations a call read
(`GenerationsSound`).

`WakeupsCoverLanes` is not inductive: a wakeup goes to the first registered request, and one
that registered but has not slept yet is served by it as well as a sleeper. `GateInv` counts,
for each sleeper, who will look for a lane or pass a wakeup on *before that sleeper would be
forgotten* (`Due`: the notified, those arming or leaving, those checking that are not ahead of it
in the queue), and says that they are at least as many as the free lanes.

The invariant `SendInv` adds what the properties lack: an open gate means the record was
made (`GateHolds`), a body that is whole on the wire went through the gate
(`WholeRecorded`), the server acts only on what it got (`ServerSound`), a replay
follows only an attempt that applied nothing (`AppliedSound`), and a call that ended stays ended.
Model-checked only: `AcquireAnswered` and `RequestServed`, which are liveness.

## 5. Feeds of the store

### `EventScope.tla`

One calendar: the `calendar` on the server (a count of changes that is its sync-token, its
CTag and the version of what changed), the `scope` row, `events`, and for each event the
version and window its occurrence rows are `drawn` of.

| Action | Code |
|---|---|
| `ListCalendars`, `CompareTag`, `ResolveWindow`, `SeedWindow` | `sync_calendar` and `sync_group`, up to the claim |
| `Reconcile` | the pass a calendar write runs, without a listing |
| `ClaimScope`, `ApplyEvents`, `RefusedEvents` | `run_scope` and `apply_sync_update` with the derived rows and the tag |
| `ReportCollection`, `ReadCtag`, `ListMembers`, `FillBodies` | `sync_events` of the CalDAV adapter: by report, or by CTag; bodies in a later request |
| `Widen`, `ExpandStored`, `ApplyMaintenance`, `RecordWindow` | `expand_calendar_horizon` |
| `CalFails`, `CalDies`, `CalLeaseLapses`, `ClearCalCursor`, `ForgetCalendar` | errors, crashes, leases, the host |
| `ServerEdits`, `ServerForgets` | the server; it may drop old tokens or stop answering reports |

The server may answer any member without a body, or with one that does not parse, in the
report or in the multiget after it. Such a member is `skipped`: it is present, so what is stored
of it is kept, and nothing else is read of it, yet cursor and tag advance (`sync.rs:76-82,
153-168`, `multiget.rs:95-97`). `unread` remembers the version it was answered in, and
`LastAnswer(e)` is that version or, where the last answer could be read, the one stored. So
`CursorMeansRead` and `TagSkipsNothing` say that a cursor covers, and a tag match skips, only what
the server was *asked and answered for*; they leave the stored event stale exactly where its
present version came unreadable.

### `JmapWalk.tla`

One JMAP type: the server's `changes` and the `ranking` its query returns, the stored state,
and a pass: delta pages (`ChangesPage`, `CannotCalculate`), the walk by anchor (`WalkQuery` and
`WalkGet`, the two calls of a page), the end of a walk of one page (`WalkAlone`), the listing of a
longer one (`ListingPaged`) and the get of what the walk missed (`GetMissed`).

The server changes between any two calls. In one request the ids of a page come from the query
and the objects, with the state that becomes the cursor, from the get after it, so both are steps
of their own. A delta's objects may likewise be read later than the list of changes: the parameter
of `ChangesPage` is how long the log was when the changes were listed. The retries of one page are
one action, and so are the gets of the missed objects, which only say what is there.

Mail is in a fixed order, committed page by page, the last page after the listing
(`fetch.rs:172-182`). In that order no update moves a message, but a message just stored may be
listed last (`late`) and be sorted into place afterwards with neither state nor `queryState` moving
(`ServerSorts`, `walk.rs:14-21`); a message is sorted into place once, and never further back.
Other types are in the server's order, where an update may move an object, and are committed at
the end.

`JmapCurrent` leaves out what slipped between the two calls of the *first* page (`slipped`): the
state recorded is the get's and covers it, the query came before. A message destroyed there stays
in what the walk saw, so nothing tombstones it; a message made there is brought by the listing of a
walk of several pages and by nothing after a walk of one. `walk.rs:12-13` promises more ("whatever
changes during the walk is replayed by the next delta"). A server that answers the calls of one
request from one snapshot has no such moment.

### `KeywordEdits.tla`

One message: the `mailbox`'s keywords, the `row` shown, the server's set kept while an edit
is unsettled, the `edits` in order, one pass that claims, reads and applies, and a clock in
whole seconds. `Queue`, `Attempt`, `Lands`, `Record`, `Parked`, `Withdraw` are the life of an
edit; `ClaimRead`, `ReadServer`, `ApplyPass`, `PassFails` the pass. Keywords another client
changed, whose answer was lost, or whose edits were accepted out of order are `alien` and
excluded: for them there is no set the user could expect. `Shown` lays edits over a set: of the
edits that name a keyword (`Naming`) the last one queued decides, which is what replaying them in
order comes to. The clock only moves forward. The engine's is a wall clock that may step back
(`engine-api/src/clock.rs:17-21`), and after such a step an edit can be stamped as settled before a
pass that began earlier: `EditsStayShown` is not claimed across it.

### `PeopleIndex.tla`

Cards change and bump a generation (`ApplyCards`, `ForgetContacts`), rebuilds read the cards,
then the index, and replace it only if the generation stands (`ReadSources`, `ReadPeople`,
`ReplacePeople`); `Rebuilt` is the merge, with identities kept, split and retired into
aliases. A group (`Components`) is what no set of cards closed under shared emails tells apart
from its first card, where the code merges by union-find; a group keeps the oldest id that is its
own (`Kept`), the others retire and lead straight to it (`Moved`, `Flattened`). A rebuild that
died leaves the index `owed` to the next, and the property waits for it.

### `BlobSweep.tla`

A put writes the file and then the row (`WriteBlob`, `UpsertRow`), rows go (`DropRow`), files
age past the grace (`Ages`), and a sweep lists, reads and unlinks in three steps
(`ListFiles`, `ReadHashes`, `Unlink`, one file at a time by its path). A sweep takes no lock, so
each of the `Sweepers` may be at any of the steps at once. Where one sweep listed a file and found
its hash unused, another unlinks that file, and a put writes the content anew and names it before
the first gets to its unlink, the first removes the new file: a put made while some sweep is still
after the file it replaces (`SweptFor`) is not counted as `fresh`. `blob.rs:178-180` ("a blob
written after this listing is not a candidate at all") does not consider that case; readers
of the row find no file and fetch again.

### Runs

| Run | Instance | Shows |
|---|---|---|
| `feeds`, calendar | 2 events, 2 windows, 2 workers, 3 changes, 1 fault | `CursorMeansRead`, `TagSkipsNothing`, `OccurrencesFollowEvents` |
| `feeds`, JMAP | both orders, 3 objects (1 at first), 4 changes, walk and listing pages of one, 1 fault | `JmapCurrent` |
| `feeds`, keywords | 1 keyword, 2 edits, 1 mishap, 2 seconds | `EditsStayShown` |
| `feeds`, people | 3 cards of 2 accounts, 2 emails, 2 rebuilders, 3 changes | `PeopleCurrent` |
| `feeds`, blobs | 2 keys, 2 contents, 3 puts, 2 sweeps, overlapping or not | `FreshBlobsKept` |
| `calendar_window` | 2 workers, no fault at all | `RowsCoverWindow` is violated |
| `keyword_second` | 1 keyword, 2 edits | `EditsNeverUndone` is violated |

The constraint `Roles` cuts the calendar: one worker syncs, the other widens, both
reconcile writes; one of the two events, in the passes of the first, is the one that may come
unreadable; the last change of the calendar is not combined with that, with the wider window or
with lost tokens, nor a server without reports with the wider window. Two changes beyond the first
are one before and one after any request; two events let a delta touch one and leave the other.

The JMAP mailbox starts with one message and may have three before, during or after a walk in
pages of one, so a walk has up to two seams, and as many gaps between query and get, at which one
may be inserted, removed, moved by an update or sorted into place (`LastUndisturbed`: the last of
the changes comes where no fault did). The instance tells apart what matters: without the listing
`JmapCurrent` fails in either order, without the check that the listing held still it fails in the
server's, and without the exception for the first page's gap it fails too.

Two edits of one keyword are the least that may contradict each other. Three cards and two emails
give a chain that merges and splits. Two sweeps are the least that overlap, and a third put is one
more than it takes to replace a file another sweep removed. `CHECK_DEADLOCK FALSE`: with the bounds
used up these parts may stop.

**Findings.** A sync reads the expansion window before it claims the scope, so a horizon
that widens in between loses the rows of the event the sync then expands
(`calendar_window`). The engine's clock has whole seconds, so an edit accepted in the second
a pass began is not put back over what the pass had read (`keyword_second`);
`EditsStayShown` is the same promise with exactly that second left out.

`RowsCoverWindow` does not judge the gap between the two transactions of a horizon pass, nor a
crash inside it.

### Proofs

| Theorem | Module | States |
|---|---|---|
| `CursorCovers` | `FeedsProofs` | `CalSpec => []CursorMeansRead` |
| `TagIsSafe` | `FeedsProofs` | `CalSpec => []TagSkipsNothing` |
| `RowsFollowEvents` | `FeedsProofs` | `CalSpec => []OccurrencesFollowEvents` |
| `SweepSparesFresh` | `FeedsProofs` | `BlobSpec => []FreshBlobsKept` |
| `JmapCursorVouches` | `JmapWalkProofs` | `JmapSpec => []JmapCurrent` |
| `EditsKeepShowing` | `FeedsProofs` | `KeywordSpec => []EditsStayShown` |
| `PeopleIndexCurrent` | `FeedsProofs` | `PeopleSpec => []PeopleCurrent` |

*Calendar.* For any events, windows, workers and bounds, whichever members come without a readable
body (`EventScopeAssumption`). `CalInv` joins the first
and the third property, the types, `InThePast` (no cursor is ahead of the server, and a tag is
no newer than the cursor beside it) and for each worker `PassSound`: the cursor a pass is about
to commit covers what it has read (`CoversReads`), and as long as it holds the token the
stored cursor, or for a horizon pass the events, are those it started from. That last part is
why the fence is needed: without it a commit would carry the cursor over events another pass
had put back. `TagSkipsNothing` follows: a tag equal to the count is at most the cursor, so the
cursor covers everything.

*Blobs.* For any keys, contents and number of overlapping sweeps. `BlobInv` adds to the property
that a put about to name the file it wrote finds it young, and that no sweep, whatever the others
do, has listed the file of a fresh put without finding the hash of a fresh row in use.

*JMAP.* For any number of objects and changes, every page size and limit, both orders, servers
that count and servers that do not (`JmapWalkAssumption`). `JmapCurrent` speaks of the stored
state alone; `JmapInv` says what a pass has secured on the way to the next one. A delta: what is
stored with what was fetched on top is right up to the state reached (`DeltaHolds`). A walk: each
object fetched is stored, or kept for the end, as it was at the first page's get or later, and in
the fixed order an object that is still late and unseen ranks behind everything seen
(`WalkHolds`). Nothing of the kind is true of the others: one that was late may have been sorted in
behind the walk. Between the two calls of a page the ids asked for are there or were destroyed since
the query, and the query of an only page listed all there was (`PageHolds`).

That is what the closing listing is for, and in the fixed order the argument is that no message
moves twice: one that is late when the walk ends has been seen by it, so an older one it missed
has been sorted and will not move again (`NoneLate`); it comes after all that the listing
has read so far (`ListingHolds`), and a listing that is done has read it. In the server's order
an update may carry an object across the anchor any number of times; there, under one query
state, the pages of a listing are a prefix of that state's ranking, so a finished one has every
object of it. In both, what the walk has not seen is
in the get (`SettleHolds`), except what slipped between the calls of the first page. The lemmas on
rankings (taking one out, putting one in, a page after an anchor) hold for sequences of any
length.

*Keyword edits.* For any keywords, edits, passes and seconds (`KeywordEditsAssumption`). The
property compares the row with the server; a pass writes a set it read earlier, with the edits
accepted since its start on top. `EditInv` therefore carries both words: the row is the store's
word of the server with the unsettled edits on top (`RowShown`), that word is right (`BaseRight`)
and so is the one a pass has read (`ReadRight`), each where no edit is on the server and
unsettled. A pass keeps it right because the edits of a keyword are accepted in the order queued
(`InOrder`) and the last one accepted is what the server shows (`LastAccepted`). The second that
`EditsStayShown` leaves out appears in `Sure`: once an edit was accepted in the second the last
pass began, the store's word may be wrong until the next pass reads, and the invariant has to say
exactly when it is trusted again. TLC checked `EditInv` on 2,514,561 states with three edits.

*People.* For any cards, accounts, emails and rebuilders (`PeopleIndexAssumption`). `PeopleInv`
says that the index is sound (`Indexed`: ids in use were minted and are no aliases, aliases lead
to no alias), that whatever a rebuild has read is an index that was sound, and of the cards of a
generation that still stands exactly the cards there are (`ReadSound`), and that the index is of
the present cards unless somebody is rebuilding or a rebuild is owed (`Answered`). The work is in
the lemmas about `Rebuilt`: components partition the live cards, two groups never get the same
id, a retired id is in no group, and one step of flattening is enough because the aliases read
were flat. `Rebuilt` of an index older than the present one is covered: a rebuild replaces only
under an unmoved generation, but another may have replaced the index since it was read. TLC
checked `PeopleInv` on 233,365 states.

## 6. Checking the checks

For every property of a passing run there is a mutant: a definition, next to the one
it mutates, that changes it as a slip in the code would (the hand-over record not
consulted, an off-by-one in the attempts, a clear that does not fence, a frontier
taken from the resuming SELECT, a connection taken from the shelf whatever its generation,
a notification sent only when lanes were full, a token read after the bodies). Substituted
for the original it makes TLC report the property violated.

## 7. What is proved and what is model-checked

Proved for every value of the constants: 39 theorems, of which

* 16 are about the outbox, power cuts included (`OutboxProofs`, `OutboxSafetyProofs`,
  `OutboxDurableProofs`, section 2);
* 6 about the sync of mail (`MailFolderProofs`, `GmailPassProofs`, section 3);
* 10 about the transport (`TransportProofs`, section 4);
* 7 about the feeds of the store: calendar, JMAP, keyword edits, people and blobs
  (`FeedsProofs`, `JmapWalkProofs`, section 5).

The assumptions are the `ASSUME`s of the modules, which say only that bounds are numbers, sets
finite where they are counted, and that `NoOne` and `Nobody` are no worker. Two theorems
have a hypothesis of their own: `DependenciesDespiteCuts` (section 2), and `ReconciledMeansTidy`,
which speaks of states in which the server has not offered QRESYNC (section 3).

Model-checked only: the liveness properties `EventuallyResolved`, `FolderSettles`, `GmailSettles`,
`AcquireAnswered` and `RequestServed`, for fairness is out of the prover's reach. Every safety
property of a passing run is stated by a theorem.

Two definitions are characterisations and not the loops of the code, because what a loop computes
for every input needs induction over data, which the prover has not: the groups of people are
defined by closed sets where the code merges with union-find, and the keywords shown by the last
edit that names each where the code replays the edits in order.

## 8. Not modelled

Most of the code base converts: it builds requests, reads JSON, XML, MIME and iCalendar,
maps between value types and renders. A line of that kind has no interleaving and no state to
check, and its inputs are text. The modules cover a small share of the lines for this reason,
and most of the code in which an order of steps can be wrong.

* *Mail account pass*: the folder list, and which folders a pass visits. `MailFolder` is one
  folder of it.
* *`forget_account` of a sync scope*: deletes the row with the generation, so an old token may
  become current again. The modules name the holder of a token and cannot ask this. (Hazard
  without a property.)
* *A server that upgrades during a killed backfill*, *a crash between the two transactions of
  a horizon pass* and *the watch slot a dropped reservation leaves*: in the modules, judged by
  no property, as sections 3 to 5 say. (Hazards without a property.)
* *`pace.rs`*: the paced budget above the gate, which only delays.
* *Drafts that supersede each other* and other differences between kinds of mail writes: one
  kind, `"MailWrite"`. How a host brings a calendar or contact write that its one attempt left
  queued to an end is not in the drain and not in the model.
* *Bodies and attachments*: a cache that is fetched again.
* *Graph, Google calendar and contacts, JMAP and CalDAV writes*: opaque cursors the server
  follows by itself, or conditional requests whose safety is the server's comparison of ETags.
* *Threading, recurrence, search, parsers, renderers, domain types*: pure functions over
  domains too large to enumerate usefully; the repository tests and fuzzes them.
* *The engine API, TLS, command lines and tools*: facades and configuration.

## 9. Plan

Order: what would lose or duplicate a user's data first.

1. *Done*: the outbox, mail, transport and the feeds, with the proofs of sections 2 to 5.
2. Counted generations in `MailFolder` instead of a holder, with `forget_account` and a
   re-added account; the folder list of `mail_account` above it.
3. `NothingStale` across an `Upgrade`, once the code decides what a backfill resumed under a
   newly reported mod-sequence should record.
4. Drafts that supersede each other in the outbox; `KeywordEdits` composed with `Outbox`'s
   writes; `HttpSend` composed with its hand-over.
5. Threading and the paced budget as pure definitions against references.
