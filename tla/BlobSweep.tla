------------------------------- MODULE BlobSweep ------------------------------
(***************************************************************************)
(* The content-addressed blob area: puts write a file first and the row    *)
(* that names it afterwards, rows go with their mail, and a sweep lists    *)
(* the files, reads the hashes in use and unlinks the difference.  A sweep *)
(* takes no lease and no lock, so several may be under way at once.  A     *)
(* file is young for SWEEP_GRACE after it was written.                     *)
(***************************************************************************)
EXTENDS Naturals

CONSTANTS
  Keys,       \* the (account, key) pairs of cached sources and photos
  Hashes,     \* the contents they may have
  Sweepers,   \* who may be sweeping at the same time
  MaxPuts,    \* bound: puts
  MaxSweeps   \* bound: sweeps

ASSUME BlobSweepAssumption == MaxPuts \in Nat /\ MaxSweeps \in Nat

VARIABLES
  file,     \* each hash's file: none, young or old
  names,    \* each key's row: the set of the hash it names, empty for no row
  put,      \* the put of each key under way
  sweep,    \* the sweep of each sweeper
  fresh,    \* history: keys whose put wrote the file itself, within the grace and
            \* with no sweep still after the file it replaces
  puts, sweeps

blobVars == <<file, names, put, sweep, fresh, puts, sweeps>>

NoPut == [hash |-> {}, fresh |-> FALSE]
NoSweep == [stage |-> "idle", listed |-> {}, live |-> {}]

\* Some sweep listed the content's file and did not find the hash in use: it will
\* unlink whatever stands at the path by then.
SweptFor(h) == \E s \in Sweepers : h \in sweep[s].listed \ sweep[s].live

\* write_blob: a file that is there is taken as it is.
WriteBlob(k, h) ==
  /\ put[k] = NoPut /\ puts < MaxPuts /\ puts' = puts + 1
  /\ file' = [file EXCEPT ![h] = IF @ = "none" THEN "young" ELSE @]
  /\ put' = [put EXCEPT ![k] = [hash |-> {h},
                                   fresh |-> file[h] = "none" /\ ~SweptFor(h)]]
  /\ UNCHANGED <<names, sweep, fresh, sweeps>>

\* The row, once the file is written.
UpsertRow(k) ==
  /\ put[k] # NoPut
  /\ names' = [names EXCEPT ![k] = put[k].hash]
  /\ fresh' = IF put[k].fresh THEN fresh \cup {k} ELSE fresh \ {k}
  /\ put' = [put EXCEPT ![k] = NoPut]
  /\ UNCHANGED <<file, sweep, puts, sweeps>>

\* The process ends between the two.
PutDies(k) ==
  /\ put[k] # NoPut
  /\ put' = [put EXCEPT ![k] = NoPut]
  /\ UNCHANGED <<file, names, sweep, fresh, puts, sweeps>>

\* drop_cached_content, delete_sources_over, forgetting an account: rows only.
DropRow(k) ==
  /\ names[k] # {}
  /\ names' = [names EXCEPT ![k] = {}]
  /\ fresh' = fresh \ {k}
  /\ UNCHANGED <<file, put, sweep, puts, sweeps>>

\* SWEEP_GRACE goes by: a put still under way was slow.
Ages(h) ==
  /\ file[h] = "young"
  /\ file' = [file EXCEPT ![h] = "old"]
  /\ put' = [k \in Keys |-> IF h \in put[k].hash THEN [put[k] EXCEPT !.fresh = FALSE] ELSE put[k]]
  /\ UNCHANGED <<names, sweep, fresh, puts, sweeps>>

\* Mutant of Candidates: files of any age.
CandidatesOfAnyAge == {h \in Hashes : file[h] # "none"}

Candidates == {h \in Hashes : file[h] = "old"}

ListFiles(s) ==
  /\ sweep[s] = NoSweep /\ sweeps < MaxSweeps /\ sweeps' = sweeps + 1
  /\ Candidates # {}
  /\ sweep' = [sweep EXCEPT ![s] = [stage |-> "listed", listed |-> Candidates, live |-> {}]]
  /\ UNCHANGED <<file, names, put, fresh, puts>>

ReferencedHashes == UNION {names[k] : k \in Keys}

ReadHashes(s) ==
  /\ sweep[s].stage = "listed"
  /\ sweep' = [sweep EXCEPT ![s].stage = "unlink", ![s].live = ReferencedHashes]
  /\ UNCHANGED <<file, names, put, fresh, puts, sweeps>>

\* remove_unreferenced: a file at a time, by its path; one that is gone already was
\* another sweep's.
Unlink(s, h) ==
  /\ sweep[s].stage = "unlink" /\ h \in sweep[s].listed
  /\ sweep' = IF sweep[s].listed = {h} THEN [sweep EXCEPT ![s] = NoSweep]
               ELSE [sweep EXCEPT ![s].listed = @ \ {h}]
  /\ file' = IF h \in sweep[s].live THEN file ELSE [file EXCEPT ![h] = "none"]
  /\ UNCHANGED <<names, put, fresh, puts, sweeps>>

\* The query or an unlink fails, or the process ends: the rest is left to a later sweep.
SweepFails(s) ==
  /\ sweep[s] # NoSweep
  /\ sweep' = [sweep EXCEPT ![s] = NoSweep]
  /\ UNCHANGED <<file, names, put, fresh, puts, sweeps>>

BlobInit ==
  /\ file = [h \in Hashes |-> "none"]
  /\ names = [k \in Keys |-> {}]
  /\ put = [k \in Keys |-> NoPut]
  /\ sweep = [s \in Sweepers |-> NoSweep]
  /\ fresh = {}
  /\ puts = 0 /\ sweeps = 0

BlobNext ==
  \/ \E k \in Keys : UpsertRow(k) \/ PutDies(k) \/ DropRow(k) \/ \E h \in Hashes : WriteBlob(k, h)
  \/ \E h \in Hashes : Ages(h)
  \/ \E s \in Sweepers : ListFiles(s) \/ ReadHashes(s) \/ SweepFails(s)
                       \/ \E h \in Hashes : Unlink(s, h)

BlobSpec == BlobInit /\ [][BlobNext]_blobVars

\* A row names a missing file, which its readers fetch again, only if its put found
\* a file there and left it, took longer than the grace over naming it, or wrote the
\* content anew while a sweep was still on its way to unlink the file it replaces: what
\* a put wrote itself and named in time is swept from under it by no number of sweeps.
FreshBlobsKept == \A k \in fresh : \A h \in names[k] : file[h] # "none"
===============================================================================
