--------------------------- MODULE GmailPassProofs ----------------------------
(***************************************************************************)
(* That a Gmail cursor vouches for nothing the store does not hold.        *)
(*                                                                         *)
(* The inductive invariant GmailInv says, for each stage of a pass, up to  *)
(* which history id the store is right about which messages: those the     *)
(* stored cursor vouches for, and those the next one will.  A deletion is  *)
(* the last record of its message and an arrival the first (LogSound),     *)
(* which is why a page of history may be applied over newer versions.      *)
(***************************************************************************)
EXTENDS GmailPass, FiniteSetTheorems, SequenceTheorems, WellFoundedInduction, TLAPS

-------------------------------------------------------------------------------
(* Largest and smallest elements *)

LEMMA LeastNatural ==
  ASSUME NEW S \in SUBSET Nat, S # {}
  PROVE  \E x \in S : \A y \in S : x <= y
<1>1. PICK m \in S : \A y \in S : ~(<<y, m>> \in OpToRel(<, Nat))
  BY NatLessThanWellFounded, WFMin, Zenon
<1>2. \A y \in S : <<y, m>> \in Nat \X Nat /\ <<y, m>>[1] = y /\ <<y, m>>[2] = m
  OBVIOUS
<1>3. \A y \in S : ~(y < m)
  BY <1>1, <1>2 DEF OpToRel
<1> QED
  BY <1>3

LEMMA LeastOf ==
  ASSUME NEW S \in SUBSET Nat, S # {}
  PROVE  Min(S) \in S /\ \A y \in S : Min(S) <= y
BY LeastNatural DEF Min

LEMMA GreatestOf ==
  ASSUME NEW n \in Nat, NEW S \in SUBSET (0..n), S # {}
  PROVE  Max(S) \in S /\ \A y \in S : y <= Max(S)
<1> DEFINE T == {n - y : y \in S}
<1>0. \A y \in S : y \in Nat /\ y <= n /\ n - y \in Nat /\ n - y \in T
  OBVIOUS
<1>1. T \in SUBSET Nat /\ T # {}
  BY <1>0
<1>2. PICK t \in T : \A y \in T : t <= y
  BY <1>1, LeastNatural
<1>3. PICK x \in S : t = n - x
  OBVIOUS
<1>4. x \in Nat
  BY <1>0
<1>5. ASSUME NEW y \in S PROVE x >= y
  <2>1. n - x <= n - y /\ y \in Nat
    BY <1>0, <1>2, <1>3
  <2> QED
    BY <1>4, <2>1
<1>6. \E z \in S : \A y \in S : z >= y
  BY <1>5
<1>7. Max(S) \in S /\ \A y \in S : Max(S) >= y
  BY <1>6 DEF Max
<1> QED
  BY <1>0, <1>7

-------------------------------------------------------------------------------
(* The inductive invariant.  UpTo says what a read of the history up to h     *)
(* owes a message: a live message with a record by then is stored, and one    *)
(* with no later record is stored as it is.  Before the listing that ends a   *)
(* backfill, a message the server deleted may still be stored.                *)

Known(m, h) == \E i \in 1..Len(log) : i <= h /\ log[i].msg = m

UpTo(m, h, exact) ==
  /\ (Known(m, h) /\ m \in Live) => stored[m] > 0
  /\ LastRecord(m) <= h => (stored[m] = Now(m) \/ (~exact /\ m \notin Live))

GmailTypeOK ==
  /\ log \in Seq(Records) /\ aged \in 0..Len(log) /\ tokens \in Nat
  /\ gmailCursor \in GmailCursor /\ stored \in [Mail -> Nat]
  /\ gmail \in GmailPasses /\ gmailFaults \in Nat

\* What a cursor or a pass knows of the history lies in its past.
HistoryPast ==
  /\ gmailCursor.history <= Len(log)
  /\ gmail.history <= Len(log) /\ gmail.reached <= Len(log)

\* Ids are given in order, a deletion is the last record of its message, and the
\* arrival of a message comes before its other records.
LogSound ==
  /\ \A i, j \in 1..Len(log) :
       (i < j /\ log[i].msg = log[j].msg) => log[i].what # "deleted"
  /\ \A i \in 1..Len(log) :
       \E j \in 1..i : log[j].msg = log[i].msg /\ log[j].what = "added"
  /\ \E k \in 0..MaxMail : Arrived = 1..k

CursorHolds ==
  /\ gmailCursor.kind \in {"none", "Reconcile"} => gmailCursor.page = FirstPage
  /\ \A m \in Mail :
       Vouched(m) => UpTo(m, gmailCursor.history, gmailCursor.kind = "Delta")

\* The messages the cursor the pass is about to leave will vouch for.
Ahead(m) == gmail.backfill => m >= gmail.page.below

\* The backfill goes on from the stored cursor, or from above it.
Follows ==
  /\ gmailCursor.kind = "Backfill" /\ gmailCursor.history = gmail.history
  /\ gmailCursor.page.below <= gmail.page.below

DeltaHolds ==
  /\ gmailCursor.kind = IF gmail.backfill THEN "Backfill" ELSE "Delta"
  /\ gmailCursor.history = gmail.history /\ gmail.from = gmail.history
  /\ gmail.history <= gmail.reached
  /\ gmail.backfill => gmailCursor.page.below <= gmail.page.below
  /\ \A m \in Mail : Vouched(m) => UpTo(m, gmail.reached, ~gmail.backfill)

CaughtHolds ==
  /\ \A m \in Mail : Ahead(m) => UpTo(m, gmail.history, ~gmail.backfill)
  /\ (gmail.backfill /\ gmail.history = gmail.from) => Follows

PageHolds ==
  /\ gmail.backfill
  /\ \A m \in Mail : Ahead(m) => UpTo(m, gmail.history, FALSE)
  /\ Follows \/ (gmailCursor.kind = "none" /\ gmail.page = FirstPage)

MarkHolds ==
  /\ gmail.backfill
  /\ \A m \in Mail : Ahead(m) => UpTo(m, gmail.history, FALSE)

IdsHold ==
  /\ gmailCursor.kind = "Reconcile" /\ gmailCursor.history = gmail.history
  /\ \A m \in gmail.present : m \in Live \/ LastRecord(m) > gmail.history
  /\ \A m \in Live :
       (Known(m, gmail.history) /\ m >= gmail.page.below) => m \in gmail.present

PassHolds ==
  /\ gmail.stage = "delta" => DeltaHolds
  /\ gmail.stage = "caught" => CaughtHolds
  /\ gmail.stage = "page" => PageHolds
  /\ gmail.stage = "mark" => MarkHolds
  /\ gmail.stage = "marklast" => \A m \in Mail : UpTo(m, gmail.history, FALSE)
  /\ gmail.stage = "ids" => IdsHold

GmailInv == GmailTypeOK /\ HistoryPast /\ LogSound /\ CursorHolds /\ PassHolds

-------------------------------------------------------------------------------
(* The mailbox *)

\* The last record of m in a log.
Last(l, m) == Max({0} \cup {i \in 1..Len(l) : l[i].msg = m})

LEMMA LastFacts ==
  ASSUME NEW l \in Seq(Records), NEW m
  PROVE  /\ Last(l, m) \in 0..Len(l)
         /\ Last(l, m) > 0 => l[Last(l, m)].msg = m
         /\ \A i \in 1..Len(l) : l[i].msg = m => i <= Last(l, m)
<1> DEFINE S == {0} \cup {i \in 1..Len(l) : l[i].msg = m}
<1>1. Len(l) \in Nat /\ S \in SUBSET (0..Len(l)) /\ S # {}
  OBVIOUS
<1>2. Last(l, m) \in S /\ \A y \in S : y <= Last(l, m)
  BY <1>1, GreatestOf DEF Last
<1> QED
  BY <1>1, <1>2

LEMMA RecordFacts ==
  ASSUME GmailTypeOK, NEW m
  PROVE  /\ LastRecord(m) \in 0..Len(log) /\ Len(log) \in Nat
         /\ LastRecord(m) > 0 => log[LastRecord(m)].msg = m
         /\ \A i \in 1..Len(log) : log[i].msg = m => i <= LastRecord(m)
         /\ m \in Live => (m \in Mail /\ LastRecord(m) > 0 /\ Now(m) = LastRecord(m))
         /\ m \notin Live => Now(m) = 0
         /\ Now(m) \in Nat
<1>1. LastRecord(m) = Last(log, m) /\ log \in Seq(Records)
  BY DEF LastRecord, Last, GmailTypeOK
<1>2. /\ Last(log, m) \in 0..Len(log)
      /\ Last(log, m) > 0 => log[Last(log, m)].msg = m
      /\ \A i \in 1..Len(log) : log[i].msg = m => i <= Last(log, m)
  BY <1>1, LastFacts
<1>3. LastRecord(m) \in Nat /\ Len(log) \in Nat
  BY <1>1, <1>2
<1> QED
  BY <1>1, <1>2, <1>3 DEF Live, Now

\* A deleted message has no later record.
LEMMA DeletedIsLast ==
  ASSUME GmailTypeOK, LogSound, NEW i \in 1..Len(log), log[i].what = "deleted",
         NEW m, log[i].msg = m
  PROVE  LastRecord(m) = i /\ m \notin Live
<1>1. LastRecord(m) \in 0..Len(log) /\ i <= LastRecord(m) /\ Len(log) \in Nat
  BY RecordFacts
<1>2. LastRecord(m) > 0 /\ log[LastRecord(m)].msg = m /\ LastRecord(m) \in 1..Len(log)
  BY <1>1, RecordFacts
<1>3. ~(i < LastRecord(m))
  BY <1>2 DEF LogSound
<1>4. LastRecord(m) = i
  BY <1>1, <1>3
<1> QED
  BY <1>4 DEF Live

\* A step that leaves the mailbox and the store alone leaves what was promised.
LEMMA MailboxSame ==
  ASSUME log' = log
  PROVE  /\ \A m : LastRecord(m)' = LastRecord(m) /\ (m \in Live' <=> m \in Live)
         /\ \A m : Now(m)' = Now(m)
         /\ \A m, h : Known(m, h)' <=> Known(m, h)
         /\ Live' = Live /\ Arrived' = Arrived
BY DEF LastRecord, Live, Now, Known, Arrived

LEMMA PromiseSame ==
  ASSUME log' = log, NEW m, stored'[m] = stored[m], NEW h, NEW exact
  PROVE  UpTo(m, h, exact)' <=> UpTo(m, h, exact)
BY MailboxSame DEF UpTo

LEMMA PromiseWeakens ==
  ASSUME GmailTypeOK, NEW m \in Mail, NEW h \in Nat, NEW k \in Nat, k <= h,
         NEW exact, UpTo(m, h, exact)
  PROVE  UpTo(m, k, exact) /\ UpTo(m, k, FALSE)
<1>1. Known(m, k) => Known(m, h)
  BY DEF Known
<1>2. LastRecord(m) \in Nat
  BY RecordFacts
<1>3. LastRecord(m) <= k => LastRecord(m) <= h
  BY <1>2
<1> QED
  BY <1>1, <1>3 DEF UpTo

\* What the mailbox adds comes after what was read.
LEMMA NewRecord ==
  ASSUME GmailTypeOK, LogSound, MailboxMoves
  PROVE  /\ log' \in Seq(Records) /\ Len(log') = Len(log) + 1 /\ Len(log) \in Nat
         /\ LogSound'
         /\ \A m : LastRecord(m)' = LastRecord(m) \/ LastRecord(m)' = Len(log) + 1
         /\ \A m \in Mail : LastRecord(m)' = LastRecord(m) =>
              (m \in Live' <=> m \in Live) /\ Now(m)' = Now(m)
         /\ \A m \in Mail, h \in Nat : h <= Len(log) =>
              (Known(m, h)' <=> Known(m, h)) /\ ((Known(m, h) /\ m \in Live') => m \in Live)
<1> PICK record \in Records :
      /\ IF record.what = "added" THEN record.msg = Cardinality(Arrived) + 1
                                  ELSE record.msg \in Live
      /\ log' = Append(log, record)
  BY DEF MailboxMoves
<1> DEFINE r == record.msg
<1>1. /\ log \in Seq(Records) /\ log' \in Seq(Records) /\ Len(log) \in Nat
      /\ Len(log') = Len(log) + 1 /\ log'[Len(log) + 1] = record
      /\ \A i \in 1..Len(log) : log'[i] = log[i]
  BY DEF GmailTypeOK
<1>2. r \in Mail /\ record.what \in {"added", "labels", "deleted"}
  BY DEF Records
<1>3. \A m : LastRecord(m)' = Last(log', m) /\ LastRecord(m) = Last(log, m)
  BY DEF LastRecord, Last
<1>4. ASSUME NEW m, m # r
      PROVE  LastRecord(m)' = LastRecord(m)
  <2>1. {i \in 1..Len(log') : log'[i].msg = m} = {i \in 1..Len(log) : log[i].msg = m}
    <3>1. \A i \in 1..Len(log') : i \in 1..Len(log) \/ i = Len(log) + 1
      BY <1>1
    <3> QED
      BY <1>1, <1>4, <3>1
  <2> QED
    BY <2>1 DEF LastRecord
<1>5. LastRecord(r)' = Len(log) + 1
  <2>0. Len(log) + 1 \in 1..Len(log') /\ log'[Len(log) + 1].msg = r
    BY <1>1
  <2>1. Last(log', r) \in 0..Len(log') /\ Len(log) + 1 <= Last(log', r)
    BY <1>1, <2>0, LastFacts
  <2> QED
    BY <1>1, <1>3, <2>1
<1>6. ASSUME NEW m \in Mail, LastRecord(m)' = LastRecord(m)
      PROVE  (m \in Live' <=> m \in Live) /\ Now(m)' = Now(m)
  <2>1. LastRecord(m) \in 0..Len(log)
    BY RecordFacts
  <2>2. LastRecord(m) > 0 => log'[LastRecord(m)] = log[LastRecord(m)]
    BY <1>1, <2>1
  <2>3. m \in Live' <=> m \in Live
    BY <1>6, <2>2 DEF Live
  <2> QED
    BY <1>6, <2>3 DEF Now
<1>7. \A i \in 1..Len(log) : log[i].msg \in Mail /\ log[i].msg \in Arrived
  <2>1. ASSUME NEW i \in 1..Len(log) PROVE log[i].msg \in Mail /\ LastRecord(log[i].msg) > 0
    <3>1. i <= LastRecord(log[i].msg) /\ LastRecord(log[i].msg) \in Nat
      BY <1>1, RecordFacts
    <3>2. log[i] \in Records
      BY <1>1
    <3> QED
      BY <3>1, <3>2 DEF Records
  <2> QED
    BY <2>1 DEF Arrived
<1>8. PICK k \in 0..MaxMail : Arrived = 1..k
  BY DEF LogSound
<1>9. Cardinality(Arrived) = k /\ k \in Nat /\ MaxMail \in Nat
  BY <1>8, FS_Interval, GmailPassAssumption
<1>10. record.what = "added" => r = k + 1 /\ r \notin Arrived
  BY <1>8, <1>9
<1>11. record.what # "added" => r \in Live /\ r \in Arrived
  BY RecordFacts DEF Live, Arrived
<1>12. ASSUME NEW m \in Mail, NEW h \in Nat, h <= Len(log)
       PROVE  (Known(m, h)' <=> Known(m, h)) /\ ((Known(m, h) /\ m \in Live') => m \in Live)
  <2>1. Known(m, h)' <=> Known(m, h)
    <3>1. \A i \in 1..Len(log') : i <= h => i \in 1..Len(log)
      BY <1>1, <1>12
    <3>2. \A i \in 1..Len(log) : i \in 1..Len(log')
      BY <1>1
    <3> QED
      BY <1>1, <3>1, <3>2 DEF Known
  <2>2. m # r => (m \in Live' <=> m \in Live)
    BY <1>4, <1>6
  <2>3. (m = r /\ Known(m, h)) => m \in Live
    BY <1>7, <1>10, <1>11 DEF Known
  <2> QED
    BY <2>1, <2>2, <2>3
<1>13. LogSound'
  <2>1. ASSUME NEW i \in 1..Len(log'), NEW j \in 1..Len(log'), i < j, log'[i].msg = log'[j].msg
        PROVE  log'[i].what # "deleted"
    <3>1. i \in 1..Len(log) /\ log'[i] = log[i]
      BY <1>1, <2>1
    <3>2. CASE j \in 1..Len(log)
      BY <1>1, <2>1, <3>1, <3>2 DEF LogSound
    <3>3. CASE j = Len(log) + 1
      <4>1. log[i].msg = r
        BY <1>1, <2>1, <3>1, <3>3
      <4>2. r \in Live
        BY <1>7, <1>10, <1>11, <3>1, <4>1
      <4> QED
        BY <3>1, <4>1, <4>2, DeletedIsLast
    <3> QED
      BY <1>1, <3>2, <3>3
  <2>2. ASSUME NEW i \in 1..Len(log')
        PROVE  \E j \in 1..i : log'[j].msg = log'[i].msg /\ log'[j].what = "added"
    <3>1. ASSUME NEW n \in 1..Len(log), n <= i, log[n].msg = log'[i].msg
          PROVE  \E j \in 1..i : log'[j].msg = log'[i].msg /\ log'[j].what = "added"
      <4>1. PICK j \in 1..n : log[j].msg = log[n].msg /\ log[j].what = "added"
        BY DEF LogSound
      <4>2. j \in 1..i /\ j \in 1..Len(log)
        BY <1>1, <3>1
      <4> QED
        BY <1>1, <3>1, <4>1, <4>2
    <3>2. CASE i \in 1..Len(log)
      BY <1>1, <3>1, <3>2
    <3>3. CASE i = Len(log) + 1 /\ record.what = "added"
      BY <1>1, <3>3
    <3>4. CASE i = Len(log) + 1 /\ record.what # "added"
      <4>1. LastRecord(r) > 0 /\ LastRecord(r) \in 0..Len(log) /\ log[LastRecord(r)].msg = r
        BY <1>11, <3>4, RecordFacts
      <4>2. LastRecord(r) \in 1..Len(log) /\ LastRecord(r) <= i /\ log'[i].msg = r
        BY <1>1, <3>4, <4>1
      <4> QED
        BY <3>1, <4>1, <4>2
    <3> QED
      BY <1>1, <3>2, <3>3, <3>4
  <2>3. \E n \in 0..MaxMail : Arrived' = 1..n
    <3>1. \A m \in Mail : m \in Arrived' <=> (m \in Arrived \/ m = r)
      <4>1. \A m \in Mail : m # r => (m \in Arrived' <=> m \in Arrived)
        BY <1>4 DEF Arrived
      <4>2. r \in Arrived'
        BY <1>1, <1>2, <1>5 DEF Arrived
      <4> QED
        BY <4>1, <4>2
    <3>2. Arrived' \subseteq Mail
      BY DEF Arrived
    <3>3. CASE record.what = "added"
      <4>1. k + 1 \in 0..MaxMail
        BY <1>2, <1>9, <1>10, <3>3 DEF Mail
      <4>2. Arrived' = 1..(k + 1)
        <5>1. \A m : m \in 1..(k + 1) <=> (m \in 1..k \/ m = k + 1)
          BY <1>9
        <5>2. 1..(k + 1) \subseteq Mail /\ Arrived \subseteq Mail
          BY <1>9, <4>1 DEF Mail, Arrived
        <5> QED
          BY <1>8, <1>10, <3>1, <3>2, <3>3, <5>1, <5>2
      <4> QED
        BY <4>1, <4>2
    <3>4. CASE record.what # "added"
      <4>1. Arrived' = 1..k
        BY <1>8, <1>11, <3>1, <3>2, <3>4 DEF Arrived
      <4> QED
        BY <4>1
    <3> QED
      BY <3>3, <3>4
  <2> QED
    BY <2>1, <2>2, <2>3 DEF LogSound
<1> QED
  BY <1>1, <1>4, <1>5, <1>6, <1>12, <1>13

LEMMA PromiseOutlivesMoves ==
  ASSUME GmailTypeOK, LogSound, MailboxMoves, NEW m \in Mail, NEW h \in Nat, h <= Len(log),
         NEW exact, UpTo(m, h, exact)
  PROVE  UpTo(m, h, exact)'
<1>1. stored' = stored
  BY DEF MailboxMoves
<1>2. LastRecord(m)' <= h => (LastRecord(m)' = LastRecord(m) /\ LastRecord(m) <= h)
  BY NewRecord
<1> QED
  BY <1>1, <1>2, NewRecord DEF UpTo

-------------------------------------------------------------------------------
(* The steps of the mailbox *)

LEMMA InvTypes ==
  ASSUME GmailInv
  PROVE  /\ Len(log) \in Nat /\ aged \in Nat /\ aged <= Len(log) /\ tokens \in Nat
         /\ gmailCursor.history \in Nat /\ gmailCursor.history <= Len(log)
         /\ gmailCursor.kind \in {"none", "Delta", "Backfill", "Reconcile"}
         /\ gmailCursor.page \in Page /\ gmail.page \in Page
         /\ gmail.history \in Nat /\ gmail.history <= Len(log) /\ gmail.from \in Nat
         /\ gmail.reached \in Nat /\ gmail.reached <= Len(log)
         /\ gmail.backfill \in BOOLEAN /\ gmail.present \in SUBSET Mail
         /\ gmail.stage \in GmailStages /\ gmailFaults \in Nat
         /\ stored \in [Mail -> Nat] /\ log \in Seq(Records)
BY DEF GmailInv, GmailTypeOK, HistoryPast, GmailCursor, GmailPasses

LEMMA MailboxMovesHolds ==
  ASSUME GmailInv, MailboxMoves
  PROVE  GmailInv'
<1>0. /\ gmail' = gmail /\ gmailCursor' = gmailCursor /\ stored' = stored /\ aged' = aged
      /\ tokens' = tokens /\ gmailFaults' = gmailFaults
  BY DEF MailboxMoves
<1>1. GmailTypeOK /\ LogSound
  BY DEF GmailInv
<1>2. /\ log' \in Seq(Records) /\ Len(log') = Len(log) + 1 /\ Len(log) \in Nat /\ LogSound'
  BY <1>1, NewRecord
<1>3. GmailTypeOK' /\ HistoryPast'
  BY <1>0, <1>1, <1>2, InvTypes DEF GmailTypeOK, HistoryPast
<1>4. \A m : (Vouched(m)' <=> Vouched(m)) /\ (Ahead(m)' <=> Ahead(m))
  BY <1>0 DEF Vouched, Ahead
<1>5. \A m \in Mail, h \in Nat, exact \in BOOLEAN :
        (h <= Len(log) /\ UpTo(m, h, exact)) => UpTo(m, h, exact)'
  BY <1>1, PromiseOutlivesMoves
<1>6. Follows' <=> Follows
  BY <1>0 DEF Follows
<1>7. CursorHolds'
  BY <1>0, <1>4, <1>5, InvTypes DEF GmailInv, CursorHolds
<1>8. gmail.stage = "delta" => DeltaHolds'
  BY <1>0, <1>4, <1>5, InvTypes DEF GmailInv, PassHolds, DeltaHolds
<1>9. gmail.stage = "caught" => CaughtHolds'
  BY <1>0, <1>4, <1>5, <1>6, InvTypes DEF GmailInv, PassHolds, CaughtHolds
<1>10. gmail.stage = "page" => PageHolds'
  BY <1>0, <1>4, <1>5, <1>6, InvTypes DEF GmailInv, PassHolds, PageHolds
<1>11. gmail.stage = "mark" => MarkHolds'
  BY <1>0, <1>4, <1>5, InvTypes DEF GmailInv, PassHolds, MarkHolds
<1>12. gmail.stage = "marklast" => \A m \in Mail : UpTo(m, gmail.history, FALSE)'
  BY <1>0, <1>5, InvTypes DEF GmailInv, PassHolds
<1>13. ASSUME gmail.stage = "ids" PROVE IdsHold'
  <2>0. IdsHold
    BY <1>13 DEF GmailInv, PassHolds
  <2>1. ASSUME NEW m \in gmail.present PROVE m \in Live' \/ LastRecord(m)' > gmail.history
    <3>1. m \in Mail /\ (m \in Live \/ LastRecord(m) > gmail.history)
      BY <2>0, InvTypes DEF IdsHold
    <3>2. CASE LastRecord(m)' = LastRecord(m)
      BY <1>1, <3>1, <3>2, NewRecord
    <3>3. CASE LastRecord(m)' = Len(log) + 1
      BY <3>3, InvTypes
    <3> QED
      BY <1>1, <3>2, <3>3, NewRecord
  <2>2. ASSUME NEW m \in Live', Known(m, gmail.history)', m >= gmail.page.below
        PROVE  m \in gmail.present
    <3>1. m \in Mail
      BY DEF Live
    <3>2. Known(m, gmail.history)' <=> Known(m, gmail.history)
      <4>1. PICK h \in Nat : h = gmail.history /\ h <= Len(log)
        BY InvTypes
      <4>2. Known(m, h)' <=> Known(m, h)
        BY <1>1, <3>1, <4>1, NewRecord
      <4> QED
        BY <1>0, <4>1, <4>2 DEF Known
    <3>3. m \in Live
      BY <1>1, <2>2, <3>1, <3>2, NewRecord, InvTypes
    <3> QED
      BY <2>0, <2>2, <3>2, <3>3 DEF IdsHold
  <2> QED
    BY <1>0, <2>0, <2>1, <2>2 DEF IdsHold, Known
<1>14. PassHolds'
  BY <1>0, <1>8, <1>9, <1>10, <1>11, <1>12, <1>13 DEF PassHolds
<1> QED
  BY <1>2, <1>3, <1>7, <1>14 DEF GmailInv

\* The steps that leave the mailbox, the store, the cursor and the pass alone.
LEMMA ElsewhereHolds ==
  ASSUME GmailInv, UNCHANGED <<log, gmailCursor, stored, gmail>>, aged' \in 0..Len(log),
         tokens' \in Nat, gmailFaults' \in Nat
  PROVE  GmailInv'
<1>1. \A m, h, exact : UpTo(m, h, exact)' <=> UpTo(m, h, exact)
  BY PromiseSame
<1>2. GmailTypeOK' /\ HistoryPast' /\ LogSound'
  BY MailboxSame DEF GmailInv, GmailTypeOK, HistoryPast, LogSound
<1>3. CursorHolds'
  BY <1>1 DEF GmailInv, CursorHolds, Vouched
<1>4. /\ DeltaHolds => DeltaHolds'
      /\ CaughtHolds => CaughtHolds'
      /\ PageHolds => PageHolds'
      /\ MarkHolds => MarkHolds'
      /\ (\A m \in Mail : UpTo(m, gmail.history, FALSE))
           => \A m \in Mail : UpTo(m, gmail.history, FALSE)'
  BY <1>1 DEF DeltaHolds, CaughtHolds, PageHolds, MarkHolds, Follows, Vouched, Ahead
<1>5. IdsHold => IdsHold'
  BY MailboxSame DEF IdsHold
<1>6. PassHolds'
  BY <1>1, <1>4, <1>5 DEF GmailInv, PassHolds
<1> QED
  BY <1>2, <1>3, <1>6 DEF GmailInv

-------------------------------------------------------------------------------
(* The steps of a pass that leave the store alone *)

\* They keep what the cursor vouches for, and the mailbox.
LEMMA CursorSame ==
  ASSUME CursorHolds, UNCHANGED <<log, stored, gmailCursor>>
  PROVE  CursorHolds'
<1>1. \A m, h, exact : UpTo(m, h, exact)' <=> UpTo(m, h, exact)
  BY PromiseSame
<1> QED
  BY <1>1 DEF CursorHolds, Vouched

LEMMA PassFields ==
  ASSUME GmailInv, log' = log, aged' = aged, tokens' = tokens, gmailFaults' \in Nat,
         stored' \in [Mail -> Nat],
         gmailCursor' \in GmailCursor, gmailCursor'.history <= Len(log),
         gmail' \in GmailPasses, gmail'.history <= Len(log), gmail'.reached <= Len(log)
  PROVE  GmailTypeOK' /\ HistoryPast' /\ LogSound'
BY MailboxSame DEF GmailInv, GmailTypeOK, HistoryPast, LogSound

LEMMA IdleFacts ==
  /\ GmailIdle \in GmailPasses /\ GmailIdle.history = 0 /\ GmailIdle.reached = 0
  /\ GmailIdle.stage = "idle" /\ FirstPage \in Page /\ FirstPage.below = MaxMail + 1
  /\ MaxMail \in Nat
BY GmailPassAssumption DEF GmailIdle, GmailPasses, GmailStages, FirstPage, Page

\* A pass that ends leaves the cursor to vouch.
LEMMA EndsHolds ==
  ASSUME GmailInv, gmail' = GmailIdle, UNCHANGED <<log, aged, tokens>>, gmailFaults' \in Nat,
         stored' \in [Mail -> Nat],
         gmailCursor' \in GmailCursor, gmailCursor'.history <= Len(log), CursorHolds'
  PROVE  GmailInv'
<1>1. GmailTypeOK' /\ HistoryPast' /\ LogSound'
  BY PassFields, IdleFacts, InvTypes
<1>2. PassHolds'
  BY IdleFacts DEF PassHolds
<1> QED
  BY <1>1, <1>2 DEF GmailInv

LEMMA PassStopsHolds ==
  ASSUME GmailInv, PassStops
  PROVE  GmailInv'
<1>1. /\ gmail' = GmailIdle /\ UNCHANGED <<log, aged, tokens, gmailCursor, stored>>
      /\ gmailFaults' \in Nat
  BY InvTypes DEF PassStops, GmailFault
<1>2. CursorHolds'
  BY <1>1, CursorSame DEF GmailInv
<1>3. gmailCursor' \in GmailCursor /\ gmailCursor'.history <= Len(log) /\ stored' \in [Mail -> Nat]
  BY <1>1, InvTypes DEF GmailInv, GmailTypeOK
<1> QED
  BY <1>1, <1>2, <1>3, EndsHolds

LEMMA StartPassHolds ==
  ASSUME GmailInv, StartPass
  PROVE  GmailInv'
<1> DEFINE c == gmailCursor
           p == [GmailIdle EXCEPT !.history = c.history, !.page = c.page,
                                  !.backfill = (c.kind = "Backfill")]
<1>0. /\ UNCHANGED <<log, aged, tokens, gmailCursor, stored, gmailFaults>>
      /\ gmail' = CASE c.kind = "none" ->
                         [p EXCEPT !.stage = "page", !.history = Len(log), !.from = Len(log),
                                   !.backfill = TRUE]
                    [] c.kind = "Reconcile" -> [p EXCEPT !.stage = "ids"]
                    [] OTHER -> Round(p)
  BY DEF StartPass
<1>1. \A m, h, exact : UpTo(m, h, exact)' <=> UpTo(m, h, exact)
  BY <1>0, PromiseSame
<1>2. CursorHolds' /\ CursorHolds
  BY <1>0, CursorSame DEF GmailInv
<1>3. /\ p \in GmailPasses /\ p.history = c.history /\ p.page = c.page /\ p.reached = 0
      /\ p.backfill = (c.kind = "Backfill") /\ p.present = {} /\ p.stage = "idle"
  BY InvTypes, IdleFacts DEF GmailPasses, GmailIdle
<1>4. c \in GmailCursor
  BY DEF GmailInv, GmailTypeOK
<1> HIDE DEF p
<1>5. CASE c.kind = "none"
  <2>1. /\ gmail' \in GmailPasses /\ gmail'.stage = "page" /\ gmail'.history = Len(log)
        /\ gmail'.reached = 0 /\ gmail'.page = c.page /\ gmail'.backfill = TRUE
    BY <1>0, <1>3, <1>5, InvTypes DEF GmailPasses, GmailStages
  <2>2. GmailTypeOK' /\ HistoryPast' /\ LogSound'
    BY <1>0, <1>4, <2>1, InvTypes, PassFields
  <2>3. gmail'.page = FirstPage /\ \A m \in Mail : ~Ahead(m)'
    BY <1>2, <1>5, <2>1, IdleFacts DEF CursorHolds, Ahead, Mail
  <2>5. PageHolds'
    BY <1>0, <1>5, <2>1, <2>3 DEF PageHolds
  <2>4. PassHolds'
    BY <2>1, <2>5 DEF PassHolds
  <2> QED
    BY <1>2, <2>2, <2>4 DEF GmailInv
<1>6. CASE c.kind = "Reconcile"
  <2>1. /\ gmail' \in GmailPasses /\ gmail'.stage = "ids" /\ gmail'.history = c.history
        /\ gmail'.reached = 0 /\ gmail'.page = FirstPage /\ gmail'.present = {}
    BY <1>0, <1>2, <1>3, <1>6 DEF GmailPasses, GmailStages, CursorHolds
  <2>2. GmailTypeOK' /\ HistoryPast' /\ LogSound'
    BY <1>0, <1>4, <2>1, InvTypes, PassFields
  <2>3. \A m \in Live' : ~(m >= FirstPage.below)
    BY IdleFacts DEF Live, Mail
  <2>4. IdsHold'
    BY <1>0, <1>6, <2>1, <2>3 DEF IdsHold
  <2>5. PassHolds'
    BY <2>1, <2>4 DEF PassHolds
  <2> QED
    BY <1>2, <2>2, <2>5 DEF GmailInv
<1>7. CASE c.kind \in {"Delta", "Backfill"}
  <2>1. /\ gmail' \in GmailPasses /\ gmail'.stage = "delta" /\ gmail'.history = c.history
        /\ gmail'.reached = c.history /\ gmail'.page = c.page /\ gmail'.from = c.history
        /\ gmail'.backfill = (c.kind = "Backfill")
    BY <1>0, <1>3, <1>7, InvTypes DEF GmailPasses, GmailStages, Round
  <2>2. GmailTypeOK' /\ HistoryPast' /\ LogSound'
    BY <1>0, <1>4, <2>1, InvTypes, PassFields
  <2>3. \A m \in Mail : Vouched(m)' => UpTo(m, gmailCursor.history, ~gmail.backfill)'
    BY <1>0, <1>2, <1>7, <2>1 DEF CursorHolds
  <2>4. \A m \in Mail : Vouched(m)' => UpTo(m, gmail.reached, ~gmail.backfill)'
    BY <1>0, <2>1, <2>3
  <2>5. /\ gmailCursor'.history = gmail'.history /\ gmail'.from = gmail'.history
        /\ gmail'.history <= gmail'.reached
        /\ gmailCursor'.page.below <= gmail'.page.below
    <3>1. gmailCursor' = c
      BY <1>0
    <3>2. c.history \in Nat /\ c.page.below \in Nat
      BY InvTypes, IdleFacts DEF Page
    <3> QED
      BY <2>1, <3>1, <3>2
  <2>8. gmailCursor'.kind = IF gmail'.backfill THEN "Backfill" ELSE "Delta"
    <3>1. gmailCursor' = c
      BY <1>0
    <3>2. CASE c.kind = "Backfill"
      BY <2>1, <3>1, <3>2
    <3>3. CASE c.kind = "Delta"
      BY <2>1, <3>1, <3>3
    <3> QED
      BY <1>7, <3>2, <3>3
  <2>6. DeltaHolds'
    BY <2>4, <2>5, <2>8 DEF DeltaHolds
  <2>7. PassHolds'
    BY <2>1, <2>6 DEF PassHolds
  <2> QED
    BY <1>2, <2>2, <2>7 DEF GmailInv
<1> QED
  BY <1>5, <1>6, <1>7, InvTypes

LEMMA HistoryExpiredHolds ==
  ASSUME GmailInv, HistoryExpired
  PROVE  GmailInv'
<1>0. /\ UNCHANGED <<log, aged, tokens, gmailCursor, stored, gmailFaults>>
      /\ gmail.stage = "delta" /\ gmail.history < aged
      /\ gmail' = IF gmail.reached = gmail.history
                    THEN [Restarted(gmail) EXCEPT !.stage = "caught", !.history = Len(log),
                                                  !.reached = 0]
                    ELSE GmailIdle
  BY DEF HistoryExpired
<1>1. CursorHolds'
  BY <1>0, CursorSame DEF GmailInv
<1>2. gmailCursor \in GmailCursor /\ gmail \in GmailPasses /\ DeltaHolds
  BY <1>0 DEF GmailInv, GmailTypeOK, PassHolds
<1>3. CASE gmail.reached # gmail.history
  <2>1. gmail' = GmailIdle
    BY <1>0, <1>3
  <2> QED
    BY <1>0, <1>1, <1>2, <2>1, InvTypes, EndsHolds
<1>4. CASE gmail.reached = gmail.history
  <2>1. /\ gmail' \in GmailPasses /\ gmail'.stage = "caught" /\ gmail'.history = Len(log)
        /\ gmail'.reached = 0 /\ gmail'.from = gmail.from /\ gmail'.backfill = TRUE
        /\ gmail'.page = FirstPage
    BY <1>0, <1>2, <1>4, InvTypes, IdleFacts DEF GmailPasses, GmailStages, Restarted
  <2>2. GmailTypeOK' /\ HistoryPast' /\ LogSound'
    BY <1>0, <1>2, <2>1, InvTypes, PassFields
  <2>3. \A m \in Mail : ~Ahead(m)'
    BY <2>1, IdleFacts DEF Ahead, Mail
  <2>4. gmail'.history # gmail'.from
    BY <1>0, <1>2, <2>1, InvTypes DEF DeltaHolds
  <2>5. CaughtHolds'
    BY <2>3, <2>4 DEF CaughtHolds
  <2>6. PassHolds'
    BY <2>1, <2>5 DEF PassHolds
  <2> QED
    BY <1>1, <2>2, <2>6 DEF GmailInv
<1> QED
  BY <1>3, <1>4

LEMMA CaughtUpHolds ==
  ASSUME GmailInv, CaughtUp
  PROVE  GmailInv'
<1>0. /\ UNCHANGED <<log, aged, tokens, stored, gmailFaults>> /\ gmail.stage = "caught"
      /\ IF gmail.backfill
           THEN /\ gmail' = [gmail EXCEPT !.stage = "page"]
                /\ gmailCursor' = IF gmail.history = gmail.from THEN gmailCursor
                                  ELSE At("Backfill", gmail.history, gmail.page)
           ELSE /\ gmail' = GmailIdle
                /\ gmailCursor' = At("Delta", gmail.history, FirstPage)
  BY DEF CaughtUp
<1>1. \A m, h, exact : UpTo(m, h, exact)' <=> UpTo(m, h, exact)
  BY <1>0, PromiseSame
<1>2. gmailCursor \in GmailCursor /\ gmail \in GmailPasses /\ CaughtHolds /\ CursorHolds
  BY <1>0 DEF GmailInv, GmailTypeOK, PassHolds
<1>3. CASE ~gmail.backfill
  <2>1. /\ gmail' = GmailIdle /\ gmailCursor' \in GmailCursor
        /\ gmailCursor'.history = gmail.history /\ gmailCursor'.kind = "Delta"
    BY <1>0, <1>3, InvTypes, IdleFacts DEF At, GmailCursor
  <2>2. \A m \in Mail : UpTo(m, gmail.history, TRUE)
    BY <1>2, <1>3 DEF CaughtHolds, Ahead
  <2>3. CursorHolds'
    BY <1>1, <2>1, <2>2 DEF CursorHolds
  <2> QED
    BY <1>0, <2>1, <2>3, InvTypes, EndsHolds
<1>4. CASE gmail.backfill
  <2>1. /\ gmail' \in GmailPasses /\ gmail'.stage = "page" /\ gmail'.history = gmail.history
        /\ gmail'.reached = gmail.reached /\ gmail'.page = gmail.page /\ gmail'.backfill = TRUE
    BY <1>0, <1>2, <1>4, InvTypes DEF GmailPasses, GmailStages
  <2>2. \A m \in Mail : Ahead(m) => UpTo(m, gmail.history, FALSE)
    BY <1>2, <1>4 DEF CaughtHolds
  <2>3. \A m \in Mail : Ahead(m)' => UpTo(m, gmail.history, FALSE)'
    BY <1>1, <1>4, <2>1, <2>2 DEF Ahead
  <2>4. CASE gmail.history = gmail.from
    <3>1. gmailCursor' = gmailCursor /\ Follows
      BY <1>0, <1>2, <1>4, <2>4 DEF CaughtHolds
    <3>2. GmailTypeOK' /\ HistoryPast' /\ LogSound'
      BY <1>0, <1>2, <2>1, <3>1, InvTypes, PassFields
    <3>3. CursorHolds'
      BY <1>0, <1>2, <3>1, CursorSame
    <3>4. PageHolds'
      BY <2>1, <2>3, <3>1 DEF PageHolds, Follows
    <3> QED
      BY <2>1, <3>2, <3>3, <3>4 DEF GmailInv, PassHolds
  <2>5. CASE gmail.history # gmail.from
    <3>1. /\ gmailCursor' \in GmailCursor /\ gmailCursor'.kind = "Backfill"
          /\ gmailCursor'.history = gmail.history /\ gmailCursor'.page = gmail.page
      BY <1>0, <1>4, <2>5, InvTypes DEF At, GmailCursor
    <3>2. GmailTypeOK' /\ HistoryPast' /\ LogSound'
      BY <1>0, <2>1, <3>1, InvTypes, PassFields
    <3>3. \A m \in Mail : Vouched(m)' => Ahead(m)
      BY <3>1 DEF Vouched, Ahead
    <3>4. CursorHolds'
      BY <1>1, <2>2, <3>1, <3>3 DEF CursorHolds
    <3>5. gmailCursor'.page.below <= gmail'.page.below
      BY <2>1, <3>1, InvTypes DEF Page
    <3>6. PageHolds'
      BY <2>1, <2>3, <3>1, <3>5 DEF PageHolds, Follows
    <3> QED
      BY <2>1, <3>2, <3>4, <3>6 DEF GmailInv, PassHolds
  <2> QED
    BY <2>4, <2>5
<1> QED
  BY <1>3, <1>4

LEMMA TokenRefusedHolds ==
  ASSUME GmailInv, TokenRefused
  PROVE  GmailInv'
<1>0. /\ UNCHANGED <<log, aged, tokens, gmailCursor, stored, gmailFaults>>
      /\ gmail.stage = "page" /\ gmail.page # FirstPage /\ gmail' = AfterRefusal(gmail)
  BY DEF TokenRefused, Honoured
<1>1. \A m, h, exact : UpTo(m, h, exact)' <=> UpTo(m, h, exact)
  BY <1>0, PromiseSame
<1>2. /\ gmailCursor \in GmailCursor /\ gmail \in GmailPasses /\ PageHolds /\ Follows
      /\ CursorHolds
  BY <1>0 DEF GmailInv, GmailTypeOK, PassHolds, PageHolds
<1>3. CursorHolds'
  BY <1>0, CursorSame DEF GmailInv
<1>4. /\ gmail' \in GmailPasses /\ gmail'.stage = "delta" /\ gmail'.history = gmail.history
      /\ gmail'.reached = gmail.history /\ gmail'.from = gmail.history
      /\ gmail'.page = FirstPage /\ gmail'.backfill = TRUE
  BY <1>0, <1>2, InvTypes, IdleFacts DEF GmailPasses, GmailStages, AfterRefusal, Round, PageHolds
<1>5. GmailTypeOK' /\ HistoryPast' /\ LogSound'
  BY <1>0, <1>2, <1>4, InvTypes, PassFields
<1>6. /\ gmailCursor'.kind = "Backfill" /\ gmailCursor'.history = gmail'.history
      /\ gmail'.history <= gmail'.reached
      /\ gmailCursor'.page.below <= gmail'.page.below
  BY <1>0, <1>2, <1>4, InvTypes, IdleFacts DEF Follows, Page
<1>7. \A m \in Mail : Vouched(m)' => UpTo(m, gmail.reached, ~gmail.backfill)'
  <2>1. \A m \in Mail : Vouched(m) => UpTo(m, gmail.history, FALSE)
    BY <1>2 DEF CursorHolds, Follows
  <2> QED
    BY <1>0, <1>1, <1>4, <2>1 DEF Vouched
<1>8. DeltaHolds'
  BY <1>4, <1>6, <1>7 DEF DeltaHolds
<1> QED
  BY <1>3, <1>4, <1>5, <1>8 DEF GmailInv, PassHolds

LEMMA CheckpointHolds ==
  ASSUME GmailInv, Checkpoint
  PROVE  GmailInv'
<1>0. UNCHANGED <<log, aged, tokens, stored, gmailFaults>>
  BY DEF Checkpoint
<1>1. \A m, h, exact : UpTo(m, h, exact)' <=> UpTo(m, h, exact)
  BY <1>0, PromiseSame
<1>2. gmailCursor \in GmailCursor /\ gmail \in GmailPasses
  BY DEF GmailInv, GmailTypeOK
<1>3. CASE /\ gmail.stage = "mark"
           /\ gmailCursor' = At("Backfill", gmail.history, gmail.page)
           /\ gmail' = Round(gmail)
  <2>0. MarkHolds
    BY <1>3 DEF GmailInv, PassHolds
  <2>1. /\ gmail' \in GmailPasses /\ gmail'.stage = "delta" /\ gmail'.history = gmail.history
        /\ gmail'.reached = gmail.history /\ gmail'.from = gmail.history
        /\ gmail'.page = gmail.page /\ gmail'.backfill = TRUE
    BY <1>2, <1>3, <2>0, InvTypes DEF GmailPasses, GmailStages, Round, MarkHolds
  <2>2. /\ gmailCursor' \in GmailCursor /\ gmailCursor'.kind = "Backfill"
        /\ gmailCursor'.history = gmail.history /\ gmailCursor'.page = gmail.page
    BY <1>3, InvTypes DEF At, GmailCursor
  <2>3. GmailTypeOK' /\ HistoryPast' /\ LogSound'
    BY <1>0, <2>1, <2>2, InvTypes, PassFields
  <2>4. \A m \in Mail : Vouched(m)' => UpTo(m, gmail.history, FALSE)
    BY <2>0, <2>2 DEF MarkHolds, Vouched, Ahead
  <2>5. CursorHolds'
    BY <1>1, <2>2, <2>4 DEF CursorHolds
  <2>6. \A m \in Mail : Vouched(m)' => UpTo(m, gmail.reached, ~gmail.backfill)'
    BY <1>1, <2>1, <2>4
  <2>7. /\ gmail'.history <= gmail'.reached
        /\ gmailCursor'.page.below <= gmail'.page.below
    BY <2>1, <2>2, InvTypes DEF Page
  <2>8. DeltaHolds'
    BY <2>1, <2>2, <2>6, <2>7 DEF DeltaHolds
  <2> QED
    BY <2>1, <2>3, <2>5, <2>8 DEF GmailInv, PassHolds
<1>4. CASE /\ gmail.stage = "marklast"
           /\ gmailCursor' = At("Reconcile", gmail.history, FirstPage)
           /\ gmail' = GmailIdle
  <2>1. \A m \in Mail : UpTo(m, gmail.history, FALSE)
    BY <1>4 DEF GmailInv, PassHolds
  <2>2. /\ gmailCursor' \in GmailCursor /\ gmailCursor'.kind = "Reconcile"
        /\ gmailCursor'.history = gmail.history /\ gmailCursor'.page = FirstPage
    BY <1>4, InvTypes, IdleFacts DEF At, GmailCursor
  <2>3. CursorHolds'
    BY <1>1, <2>1, <2>2 DEF CursorHolds
  <2> QED
    BY <1>0, <1>4, <2>2, <2>3, InvTypes, EndsHolds
<1> QED
  BY <1>3, <1>4 DEF Checkpoint

-------------------------------------------------------------------------------
(* The steps of a pass that write the store *)

\* A message stored as it is now holds whatever was promised of it.
LEMMA PromiseStored ==
  ASSUME GmailTypeOK, log' = log, NEW m \in Mail, stored'[m] = Now(m), NEW h, NEW exact
  PROVE  UpTo(m, h, exact)'
<1>1. m \in Live => Now(m) > 0
  BY RecordFacts
<1> QED
  BY <1>1, MailboxSame DEF UpTo

\* A page of a listing: the topmost messages left, down to its smallest.
LEMMA ListingFacts ==
  ASSUME GmailInv, NEW page \in Page
  PROVE  /\ Listed(page) \subseteq Left(page) /\ Left(page) \subseteq Mail
         /\ Listed(page) # Left(page) =>
              /\ After(page) \in Page
              /\ \A m \in Left(page) : m >= After(page).below => m \in Listed(page)
<1>0. MaxMail \in Nat /\ page.below \in Nat /\ ListSize \in Nat \ {0} /\ tokens \in Nat
  BY InvTypes, GmailPassAssumption DEF Page
<1>1. Listed(page) \subseteq Left(page) /\ Left(page) \subseteq Mail /\ Mail \subseteq Nat
  BY DEF Listed, Left, Live, Mail
<1>2. IsFiniteSet(Left(page))
  <2>1. IsFiniteSet(Mail)
    BY <1>0, FS_Interval DEF Mail
  <2> QED
    BY <1>1, <2>1, FS_Subset
<1>3. ASSUME Listed(page) # Left(page)
      PROVE  /\ After(page) \in Page
             /\ \A m \in Left(page) : m >= After(page).below => m \in Listed(page)
  <2> DEFINE above(m) == {n \in Left(page) : n > m}
  <2>1. Listed(page) # {}
    <3>1. Left(page) \in SUBSET (0..MaxMail) /\ Left(page) # {}
      BY <1>0, <1>1, <1>3 DEF Mail
    <3>2. PICK top \in Left(page) : \A y \in Left(page) : y <= top
      BY <1>0, <3>1, GreatestOf
    <3>3. above(top) = {}
      <4>1. \A y \in Left(page) : y \in Nat /\ top \in Nat /\ y <= top
        BY <1>1, <3>2
      <4> QED
        BY <4>1
    <3>4. Cardinality(above(top)) < ListSize
      BY <1>0, <3>3, FS_EmptySet
    <3> QED
      BY <3>2, <3>4 DEF Listed
  <2>2. Listed(page) \in SUBSET Nat
    BY <1>1
  <2>3. Min(Listed(page)) \in Listed(page) /\ \A y \in Listed(page) : Min(Listed(page)) <= y
    BY <2>1, <2>2, LeastOf
  <2> DEFINE low == Min(Listed(page))
  <2>4. After(page).below = low /\ low \in Mail /\ low \in Left(page) /\ After(page).made = tokens
    BY <1>1, <2>3 DEF After
  <2>5. After(page) \in Page
    BY <1>0, <1>1, <2>3 DEF After, Page, Mail
  <2>6. ASSUME NEW m \in Left(page), m >= low
        PROVE  m \in Listed(page)
    <3>1. above(m) \subseteq above(low) /\ above(low) \subseteq Left(page)
      <4>1. m \in Nat /\ low \in Nat /\ \A y \in Left(page) : y \in Nat
        BY <1>1, <2>4
      <4>2. \A y \in Left(page) : y > m => y > low
        BY <2>6, <4>1
      <4> QED
        BY <4>2
    <3>2. IsFiniteSet(above(low)) /\ IsFiniteSet(above(m))
      BY <1>2, <3>1, FS_Subset
    <3>3. Cardinality(above(m)) <= Cardinality(above(low))
      BY <3>1, <3>2, FS_Subset
    <3>4. Cardinality(above(m)) \in Nat /\ Cardinality(above(low)) \in Nat
      BY <3>2, FS_CardinalityType
    <3>5. Cardinality(above(low)) < ListSize
      BY <2>3 DEF Listed
    <3>6. Cardinality(above(m)) < ListSize
      BY <1>0, <3>3, <3>4, <3>5
    <3> QED
      BY <3>6 DEF Listed
  <2> QED
    BY <2>4, <2>5, <2>6
<1> QED
  BY <1>1, <1>3

LEMMA AnsweredFacts ==
  ASSUME GmailInv
  PROVE  /\ Answered(gmail.page) \in Page
         /\ \A m \in Mail : m >= Answered(gmail.page).below => m >= gmail.page.below
  <1>1. Answered(gmail.page) = gmail.page \/ Answered(gmail.page) = FirstPage
    BY DEF Answered
  <1>2. \A m \in Mail : ~(m >= FirstPage.below)
    BY IdleFacts DEF Mail
  <1> QED
    BY <1>1, <1>2, InvTypes, IdleFacts

\* What messages.get brought, committed: nothing promised is taken back.
LEMMA ListedStored ==
  ASSUME GmailInv, log' = log, NEW S \in SUBSET Live, Store([m \in S |-> Now(m)])
  PROVE  /\ stored' \in [Mail -> Nat]
         /\ \A m \in S : \A h, exact : UpTo(m, h, exact)'
         /\ \A m \in Mail : \A h, exact : UpTo(m, h, exact) => UpTo(m, h, exact)'
<1>0. GmailTypeOK /\ S \subseteq Mail /\ stored \in [Mail -> Nat]
  BY InvTypes DEF GmailInv, Live
<1>1. stored' = [m \in Mail |-> IF m \in S THEN Now(m) ELSE stored[m]]
  BY <1>0 DEF Store
<1>2. stored' \in [Mail -> Nat]
  BY <1>0, <1>1, RecordFacts
<1>3. \A m \in S : \A h, exact : UpTo(m, h, exact)'
  BY <1>0, <1>1, PromiseStored
<1>4. \A m \in Mail \ S : \A h, exact : UpTo(m, h, exact) => UpTo(m, h, exact)'
  BY <1>1, PromiseSame
<1> QED
  BY <1>2, <1>3, <1>4

LEMMA CursorKept ==
  ASSUME CursorHolds, gmailCursor' = gmailCursor,
         \A m \in Mail : \A h, exact : UpTo(m, h, exact) => UpTo(m, h, exact)'
  PROVE  CursorHolds'
BY DEF CursorHolds, Vouched

LEMMA ListStoppedHolds ==
  ASSUME GmailInv, ListStopped
  PROVE  GmailInv'
<1>0. /\ UNCHANGED <<log, aged, tokens, gmailCursor>> /\ gmail' = GmailIdle
      /\ gmailFaults' \in Nat
  BY InvTypes DEF ListStopped, GmailFault
<1>1. PICK ahead \in SUBSET Listed(Answered(gmail.page)) : Store([m \in ahead |-> Now(m)])
  BY DEF ListStopped
<1>2. ahead \in SUBSET Live
  BY DEF Listed, Left
<1>3. /\ stored' \in [Mail -> Nat]
      /\ \A m \in Mail : \A h, exact : UpTo(m, h, exact) => UpTo(m, h, exact)'
  BY <1>0, <1>1, <1>2, ListedStored
<1>4. CursorHolds'
  BY <1>0, <1>3, CursorKept DEF GmailInv
<1>5. gmailCursor' \in GmailCursor /\ gmailCursor'.history <= Len(log)
  BY <1>0, InvTypes DEF GmailInv, GmailTypeOK
<1> QED
  BY <1>0, <1>3, <1>4, <1>5, EndsHolds

LEMMA ListPageHolds ==
  ASSUME GmailInv, ListPage
  PROVE  GmailInv'
<1> DEFINE page == Answered(gmail.page)
<1>0. /\ UNCHANGED <<log, aged, tokens, gmailCursor, gmailFaults>> /\ gmail.stage = "page"
      /\ Store([m \in Listed(page) |-> Now(m)])
      /\ gmail' = IF Listed(page) = Left(page) THEN [gmail EXCEPT !.stage = "marklast"]
                  ELSE [gmail EXCEPT !.stage = "mark", !.page = After(page)]
  BY DEF ListPage
<1>1. page \in Page /\ \A m \in Mail : m >= page.below => m >= gmail.page.below
  BY AnsweredFacts
<1> HIDE DEF page
<1>2. Listed(page) \in SUBSET Live
  BY DEF Listed, Left
<1>3. /\ stored' \in [Mail -> Nat]
      /\ \A m \in Listed(page) : \A h, exact : UpTo(m, h, exact)'
      /\ \A m \in Mail : \A h, exact : UpTo(m, h, exact) => UpTo(m, h, exact)'
  BY <1>0, <1>2, ListedStored
<1>4. CursorHolds'
  BY <1>0, <1>3, CursorKept DEF GmailInv
<1>5. gmailCursor \in GmailCursor /\ gmail \in GmailPasses /\ PageHolds /\ GmailTypeOK
  BY <1>0 DEF GmailInv, GmailTypeOK, PassHolds
\* A message that is gone is not asked for before the reconcile.
<1>6. ASSUME NEW m \in Mail, m \notin Live, NEW h PROVE UpTo(m, h, FALSE)'
  BY <1>0, <1>6, MailboxSame DEF UpTo
<1>7. ASSUME NEW m \in Mail, m >= page.below PROVE UpTo(m, gmail.history, FALSE)
  BY <1>1, <1>5, <1>7 DEF PageHolds, Ahead
<1>8. ASSUME NEW m \in Mail, m \in Listed(page) \/ m \notin Live \/ m >= page.below
      PROVE  \E h : h = gmail.history /\ UpTo(m, h, FALSE)'
  BY <1>3, <1>6, <1>7, <1>8
<1>9. CASE Listed(page) = Left(page)
  <2>1. /\ gmail' \in GmailPasses /\ gmail'.stage = "marklast" /\ gmail'.history = gmail.history
        /\ gmail'.reached = gmail.reached
    BY <1>0, <1>5, <1>9 DEF GmailPasses, GmailStages
  <2>2. GmailTypeOK' /\ HistoryPast' /\ LogSound'
    BY <1>0, <1>3, <1>5, <2>1, InvTypes, PassFields
  <2>3. \A m \in Mail : m \in Listed(page) \/ m \notin Live \/ m >= page.below
    BY <1>1, <1>9 DEF Left, Mail, Page
  <2>4. \A m \in Mail : UpTo(m, gmail.history, FALSE)'
    BY <1>8, <2>1, <2>3
  <2> QED
    BY <1>4, <2>1, <2>2, <2>4 DEF GmailInv, PassHolds
<1>10. CASE Listed(page) # Left(page)
  <2>0. /\ After(page) \in Page
        /\ \A m \in Left(page) : m >= After(page).below => m \in Listed(page)
    BY <1>1, <1>10, ListingFacts
  <2>1. /\ gmail' \in GmailPasses /\ gmail'.stage = "mark" /\ gmail'.history = gmail.history
        /\ gmail'.reached = gmail.reached /\ gmail'.page = After(page) /\ gmail'.backfill = TRUE
    BY <1>0, <1>5, <1>10, <2>0, InvTypes DEF GmailPasses, GmailStages, PageHolds
  <2>2. GmailTypeOK' /\ HistoryPast' /\ LogSound'
    BY <1>0, <1>3, <1>5, <2>1, InvTypes, PassFields
  <2>3. \A m \in Mail : m >= After(page).below =>
          (m \in Listed(page) \/ m \notin Live \/ m >= page.below)
    BY <1>1, <2>0 DEF Left, Mail, Page
  <2>4. \A m \in Mail : Ahead(m)' => UpTo(m, gmail.history, FALSE)'
    BY <1>8, <2>1, <2>3 DEF Ahead
  <2>5. MarkHolds'
    BY <2>1, <2>4 DEF MarkHolds
  <2> QED
    BY <1>4, <2>1, <2>2, <2>5 DEF GmailInv, PassHolds
<1> QED
  BY <1>9, <1>10

LEMMA ListIdsHolds ==
  ASSUME GmailInv, ListIds
  PROVE  GmailInv'
<1> DEFINE page == Answered(gmail.page)
           present == gmail.present \cup Listed(page)
<1>0. /\ UNCHANGED <<log, aged, tokens, gmailFaults>> /\ gmail.stage = "ids"
      /\ IF Listed(page) # Left(page)
           THEN /\ gmail' = [gmail EXCEPT !.present = present, !.page = After(page)]
                /\ UNCHANGED <<gmailCursor, stored>>
           ELSE /\ Store([m \in Mail \ present |-> 0])
                /\ gmailCursor' = At("Delta", gmail.history, FirstPage)
                /\ gmail' = GmailIdle
  BY DEF ListIds
<1>1. page \in Page /\ \A m \in Mail : m >= page.below => m >= gmail.page.below
  BY AnsweredFacts
<1> HIDE DEF page
<1>2. /\ gmailCursor \in GmailCursor /\ gmail \in GmailPasses /\ IdsHold /\ CursorHolds
      /\ GmailTypeOK
  BY <1>0 DEF GmailInv, GmailTypeOK, PassHolds
<1>3. Listed(page) \subseteq Live /\ Live \subseteq Mail /\ present \in SUBSET Mail
  BY InvTypes DEF Listed, Left, Live
<1>4. \A m \in present : m \in Live \/ LastRecord(m) > gmail.history
  BY <1>2, <1>3 DEF IdsHold
<1>5. \A m \in Live : (Known(m, gmail.history) /\ m >= page.below) => m \in present
  BY <1>1, <1>2, <1>3 DEF IdsHold
<1> HIDE DEF present
<1>6. CASE Listed(page) # Left(page)
  <2>0. /\ After(page) \in Page
        /\ \A m \in Left(page) : m >= After(page).below => m \in Listed(page)
    BY <1>1, <1>6, ListingFacts
  <2>1. /\ gmail' \in GmailPasses /\ gmail'.stage = "ids" /\ gmail'.history = gmail.history
        /\ gmail'.reached = gmail.reached /\ gmail'.page = After(page)
        /\ gmail'.present = present /\ gmailCursor' = gmailCursor /\ stored' = stored
    BY <1>0, <1>2, <1>3, <1>6, <2>0 DEF GmailPasses, GmailStages
  <2>2. GmailTypeOK' /\ HistoryPast' /\ LogSound'
    BY <1>0, <1>2, <2>1, InvTypes, PassFields
  <2>3. CursorHolds'
    BY <1>0, <1>2, <2>1, CursorSame
  <2>4. \A m \in Live : (Known(m, gmail.history) /\ m >= After(page).below) => m \in present
    <3>1. ASSUME NEW m \in Live, m >= After(page).below, Known(m, gmail.history)
          PROVE  m \in present
      <4>1. CASE m < page.below
        BY <2>0, <3>1, <4>1 DEF Left, present
      <4>2. CASE m >= page.below
        BY <1>5, <3>1, <4>2
      <4>3. m \in Nat /\ page.below \in Nat
        BY <1>1, <1>3 DEF Mail, Page
      <4> QED
        BY <4>1, <4>2, <4>3
    <3> QED
      BY <3>1
  <2>5. IdsHold'
    <3>1. gmailCursor'.kind = "Reconcile" /\ gmailCursor'.history = gmail'.history
      BY <1>2, <2>1 DEF IdsHold
    <3>2. \A m \in gmail'.present : m \in Live' \/ LastRecord(m)' > gmail'.history
      BY <1>0, <1>4, <2>1, MailboxSame
    <3>3. \A m \in Live' : (Known(m, gmail.history)' /\ m >= gmail'.page.below)
                              => m \in gmail'.present
      BY <1>0, <2>1, <2>4, MailboxSame
    <3> QED
      BY <3>1, <3>2, <3>3 DEF IdsHold
  <2> QED
    BY <2>1, <2>2, <2>3, <2>5 DEF GmailInv, PassHolds
<1>7. CASE Listed(page) = Left(page)
  <2>1. /\ gmail' = GmailIdle /\ gmailCursor' \in GmailCursor
        /\ gmailCursor'.history = gmail.history /\ gmailCursor'.kind = "Delta"
        /\ Store([m \in Mail \ present |-> 0])
    BY <1>0, <1>7, InvTypes, IdleFacts DEF At, GmailCursor
  <2>2. stored' = [m \in Mail |-> IF m \in Mail \ present THEN 0 ELSE stored[m]]
    BY <2>1 DEF Store
  <2>3. stored' \in [Mail -> Nat]
    BY <2>2, InvTypes
  \* Every live message the history knows was listed.
  <2>4. ASSUME NEW m \in Live, Known(m, gmail.history) PROVE m \in present
    <3>1. m < page.below => m \in present
      BY <1>7 DEF Left, present
    <3>2. m >= page.below => m \in present
      BY <1>5, <2>4
    <3>3. m \in Nat /\ page.below \in Nat
      BY <1>1, <1>3 DEF Mail, Page
    <3> QED
      BY <3>1, <3>2, <3>3
  <2>5. \A m \in Mail : UpTo(m, gmail.history, FALSE)
    <3>1. \A m \in Mail : Vouched(m)
      BY <1>2 DEF IdsHold, Vouched
    <3> QED
      BY <1>2, <3>1 DEF IdsHold, CursorHolds
  <2>6. ASSUME NEW m \in Mail PROVE UpTo(m, gmailCursor.history, gmailCursor.kind = "Delta")'
    <3>1. CASE m \in Live
      <4>1. LastRecord(m) \in 1..Len(log) /\ log[LastRecord(m)].msg = m
        BY <1>2, <3>1, RecordFacts
      <4>2. LastRecord(m) <= gmail.history => Known(m, gmail.history)
        BY <4>1 DEF Known
      <4>3. Known(m, gmail.history) => stored'[m] = stored[m]
        BY <2>2, <2>4, <3>1
      <4>4. /\ Known(m, gmail.history) => stored'[m] > 0
            /\ LastRecord(m) <= gmail.history => stored'[m] = Now(m)
        BY <2>5, <3>1, <4>2, <4>3 DEF UpTo
      <4>5. /\ Known(m, gmailCursor.history)' => stored'[m] > 0
            /\ LastRecord(m)' <= gmailCursor'.history => stored'[m] = Now(m)'
        <5>1. Known(m, gmail.history) <=> Known(m, gmailCursor.history)'
          BY <1>0, <2>1 DEF Known
        <5> QED
          BY <1>0, <2>1, <4>4, <5>1, MailboxSame
      <4> QED
        BY <4>5 DEF UpTo
    <3>2. CASE m \notin Live
      <4>1. LastRecord(m) <= gmail.history => m \notin present
        BY <1>2, <1>4, <3>2, RecordFacts, InvTypes
      <4>2. LastRecord(m) <= gmail.history => stored'[m] = 0
        BY <2>2, <4>1
      <4>3. LastRecord(m)' <= gmailCursor'.history => stored'[m] = Now(m)'
        BY <1>0, <1>2, <2>1, <3>2, <4>2, MailboxSame, RecordFacts
      <4>4. m \notin Live'
        BY <1>0, <3>2, MailboxSame
      <4> QED
        BY <4>3, <4>4 DEF UpTo
    <3> QED
      BY <3>1, <3>2
  <2>7. CursorHolds'
    BY <2>1, <2>6 DEF CursorHolds
  <2> QED
    BY <1>0, <2>1, <2>3, <2>7, InvTypes, EndsHolds
<1> QED
  BY <1>6, <1>7

LEMMA DeltaPageHolds ==
  ASSUME GmailInv, DeltaPage
  PROVE  GmailInv'
<1> DEFINE upto == Min({gmail.reached + HistorySize, Len(log)})
           page == (gmail.reached + 1)..upto
           of(m, what) == {i \in page : log[i].msg = m /\ log[i].what = what}
           removed == {m \in Mail : of(m, "deleted") # {}}
           whole == {m \in Live : of(m, "added") # {}} \ removed
           patched == {m \in Mail : of(m, "labels") # {} /\ of(m, "added") = {} /\ stored[m] > 0}
                        \ removed
           version(m) == IF m \in removed THEN 0
                         ELSE IF m \in whole THEN Now(m) ELSE Max(of(m, "labels"))
<1>0. /\ UNCHANGED <<log, aged, tokens, gmailCursor, gmailFaults>> /\ gmail.stage = "delta"
      /\ Store([m \in removed \cup whole \cup patched |-> version(m)])
      /\ gmail' = IF upto < Len(log) THEN [gmail EXCEPT !.reached = upto]
                  ELSE [gmail EXCEPT !.stage = "caught", !.history = Len(log), !.reached = 0]
  BY DEF DeltaPage
<1>1. /\ gmailCursor \in GmailCursor /\ gmail \in GmailPasses /\ DeltaHolds /\ CursorHolds
      /\ GmailTypeOK /\ LogSound
  BY <1>0 DEF GmailInv, GmailTypeOK, PassHolds
<1>2. upto \in Nat /\ gmail.reached <= upto /\ upto <= Len(log)
  <2>1. {gmail.reached + HistorySize, Len(log)} \in SUBSET Nat
    BY InvTypes, GmailPassAssumption
  <2>2. upto \in {gmail.reached + HistorySize, Len(log)} /\ upto <= Len(log)
    BY <2>1, LeastOf
  <2> QED
    BY <2>2, InvTypes, GmailPassAssumption
<1> HIDE DEF upto
<1>3. /\ page \subseteq 1..Len(log) /\ page \subseteq Nat
      /\ \A i \in 1..Len(log) : i <= upto => (i <= gmail.reached \/ i \in page)
      /\ \A i \in page : i > gmail.reached /\ i <= upto
  BY <1>2, InvTypes
<1> HIDE DEF page
<1>4. ASSUME NEW i \in 1..Len(log) PROVE log[i].what \in {"added", "labels", "deleted"}
  <2>1. log[i] \in Records
    BY InvTypes
  <2> QED
    BY <2>1 DEF Records
\* What is deleted in the page is gone for good.
<1>5. ASSUME NEW m \in removed PROVE m \notin Live
  <2>1. PICK i \in page : log[i].msg = m /\ log[i].what = "deleted"
    OBVIOUS
  <2> QED
    BY <1>1, <1>3, <2>1, DeletedIsLast
<1>6. /\ removed \subseteq Mail /\ patched \subseteq Mail
      /\ whole \subseteq Live /\ whole \subseteq Mail
  BY DEF Live
<1>7. stored' = [m \in Mail |-> IF m \in removed \cup whole \cup patched THEN version(m)
                                ELSE stored[m]]
  BY <1>0, <1>6 DEF Store
\* The last label of a page.
<1>8. ASSUME NEW m \in Mail, of(m, "labels") # {}
      PROVE  /\ Max(of(m, "labels")) \in of(m, "labels")
             /\ \A i \in of(m, "labels") : i <= Max(of(m, "labels"))
             /\ Max(of(m, "labels")) \in Nat /\ Max(of(m, "labels")) > 0
  <2>0. Len(log) \in Nat /\ of(m, "labels") \subseteq page
    BY InvTypes
  <2>1. of(m, "labels") \in SUBSET (0..Len(log))
    <3>1. \A i \in 1..Len(log) : i \in 0..Len(log)
      BY <2>0
    <3> QED
      BY <1>3, <2>0, <3>1
  <2>2. /\ Max(of(m, "labels")) \in of(m, "labels")
        /\ \A i \in of(m, "labels") : i <= Max(of(m, "labels"))
    BY <1>8, <2>0, <2>1, GreatestOf
  <2>3. \A i \in of(m, "labels") : i \in Nat /\ i > 0
    BY <1>3
  <2> QED
    BY <2>2, <2>3
<1>9. \A m \in Mail : version(m) \in Nat \/ of(m, "labels") = {}
  BY <1>1, <1>8, RecordFacts
<1>10. stored' \in [Mail -> Nat]
  <2>1. \A m \in removed \cup whole \cup patched : version(m) \in Nat
    BY <1>1, <1>9, <1>6, RecordFacts
  <2> QED
    BY <1>7, <2>1, InvTypes
\* What each message comes to.
<1>11. ASSUME NEW m \in Mail
       PROVE  /\ m \in removed => stored'[m] = 0
              /\ m \in whole => stored'[m] = Now(m)
              /\ (m \in patched /\ m \notin whole) => stored'[m] = Max(of(m, "labels"))
              /\ (m \notin removed /\ m \notin whole /\ m \notin patched) => stored'[m] = stored[m]
  BY <1>7
<1>12. ASSUME NEW m \in Mail, NEW exact \in BOOLEAN, UpTo(m, gmail.reached, exact)
       PROVE  /\ (Known(m, upto) /\ m \in Live) => stored'[m] > 0
              /\ LastRecord(m) <= upto =>
                   (stored'[m] = Now(m) \/ (~exact /\ m \notin Live))
  <2>0. /\ (Known(m, gmail.reached) /\ m \in Live) => stored[m] > 0
        /\ LastRecord(m) <= gmail.reached =>
             (stored[m] = Now(m) \/ (~exact /\ m \notin Live))
    BY <1>12 DEF UpTo
  <2>1. m \in Live => (m \notin removed /\ Now(m) = LastRecord(m) /\ Now(m) > 0)
    BY <1>1, <1>5, RecordFacts
  \* A message with no arrival in the page was known before it.
  <2>2. ASSUME NEW i \in 1..Len(log), i <= upto, log[i].msg = m, of(m, "added") = {}
        PROVE  Known(m, gmail.reached)
    <3>1. PICK j \in 1..i : log[j].msg = log[i].msg /\ log[j].what = "added"
      BY <1>1 DEF LogSound
    <3>2. j \in 1..Len(log) /\ j <= upto
      BY <1>2, <2>2, InvTypes
    <3>3. j \notin page
      BY <2>2, <3>1
    <3>4. j <= gmail.reached
      BY <1>3, <3>2, <3>3
    <3> QED
      BY <2>2, <3>1, <3>2, <3>4 DEF Known
  <2>3. ASSUME Known(m, upto), m \in Live PROVE stored'[m] > 0
    <3>1. CASE m \in whole
      BY <1>11, <2>1, <2>3, <3>1
    <3>2. CASE m \notin whole /\ m \in patched
      BY <1>8, <1>11, <3>2
    <3>3. CASE m \notin whole /\ m \notin patched
      <4>1. of(m, "added") = {} /\ stored'[m] = stored[m]
        BY <1>11, <2>1, <2>3, <3>3
      <4>2. Known(m, gmail.reached)
        BY <2>2, <2>3, <4>1 DEF Known
      <4> QED
        BY <2>0, <2>3, <4>1, <4>2
    <3> QED
      BY <3>1, <3>2, <3>3
  <2>4. ASSUME LastRecord(m) <= upto
        PROVE  stored'[m] = Now(m) \/ (~exact /\ m \notin Live)
    <3> DEFINE last == LastRecord(m)
    <3>0. /\ last \in 0..Len(log) /\ last \in Nat /\ (last > 0 => log[last].msg = m)
          /\ \A i \in 1..Len(log) : log[i].msg = m => i <= last
          /\ gmail.reached \in Nat
      BY <1>1, RecordFacts, InvTypes
    <3>1. CASE last <= gmail.reached
      <4>1. \A i \in page : log[i].msg # m
        BY <1>3, <3>0, <3>1
      <4>2. stored'[m] = stored[m]
        BY <1>11, <4>1
      <4> QED
        BY <2>0, <3>1, <4>2
    <3>2. CASE ~(last <= gmail.reached)
      <4>1. last \in page /\ last \in 1..Len(log) /\ log[last].msg = m
        BY <1>3, <2>4, <3>0, <3>2
      <4>2. CASE log[last].what = "deleted"
        <5>1. m \in removed /\ m \notin Live
          BY <1>5, <4>1, <4>2
        <5> QED
          BY <1>1, <1>11, <5>1, RecordFacts
      <4>3. CASE log[last].what # "deleted"
        <5>1. m \in Live /\ Now(m) = last /\ m \notin removed
          BY <1>5, <3>0, <4>1, <4>3, <2>1 DEF Live
        <5>2. CASE of(m, "added") # {}
          BY <1>11, <5>1, <5>2
        <5>3. CASE of(m, "added") = {}
          <6>1. log[last].what = "labels" /\ last \in of(m, "labels")
            BY <1>4, <4>1, <4>3, <5>3
          <6>2. stored[m] > 0
            BY <2>0, <2>2, <2>4, <4>1, <5>1, <5>3
          <6>3. m \in patched /\ m \notin whole
            BY <5>1, <5>3, <6>1, <6>2
          <6>4. /\ Max(of(m, "labels")) \in page /\ log[Max(of(m, "labels"))].msg = m
                /\ last <= Max(of(m, "labels"))
            BY <1>8, <6>1
          <6>5. Max(of(m, "labels")) \in 1..Len(log)
            BY <1>3, <6>4
          <6>6. Max(of(m, "labels")) <= last
            BY <3>0, <6>4, <6>5
          <6>7. Max(of(m, "labels")) = last
            BY <3>0, <6>4, <6>5, <6>6
          <6> QED
            BY <1>11, <5>1, <6>3, <6>7
        <5> QED
          BY <5>2, <5>3
      <4> QED
        BY <4>2, <4>3
    <3> QED
      BY <3>1, <3>2
  <2> QED
    BY <2>3, <2>4
<1> HIDE DEF of, removed, whole, patched, version
<1>13. ASSUME NEW m \in Mail, NEW exact \in BOOLEAN, UpTo(m, gmail.reached, exact),
              NEW h \in Nat, h <= upto
       PROVE  UpTo(m, h, exact)'
  <2>1. LastRecord(m) \in Nat /\ (LastRecord(m) <= h => LastRecord(m) <= upto)
    BY <1>1, <1>2, <1>13, RecordFacts
  <2>2. Known(m, h) => Known(m, upto)
    BY <1>2, <1>13 DEF Known
  <2>3. /\ (Known(m, h) /\ m \in Live) => stored'[m] > 0
        /\ LastRecord(m) <= h => (stored'[m] = Now(m) \/ (~exact /\ m \notin Live))
    BY <1>12, <1>13, <2>1, <2>2
  <2> QED
    BY <1>0, <2>3, MailboxSame DEF UpTo
<1>14. \A m \in Mail : Vouched(m) => UpTo(m, gmail.reached, ~gmail.backfill)
  BY <1>1 DEF DeltaHolds
<1>15. \A m \in Mail : Vouched(m)' <=> Vouched(m)
  BY <1>0 DEF Vouched
<1>16. gmail.backfill \in BOOLEAN /\ (~gmail.backfill) \in BOOLEAN
  BY InvTypes
<1>17. CursorHolds'
  <2>1. gmailCursor'.history = gmail.history /\ gmail.history <= upto /\ gmail.history \in Nat
    BY <1>0, <1>1, <1>2, InvTypes DEF DeltaHolds
  <2>2. (gmailCursor'.kind = "Delta") = ~gmail.backfill
    BY <1>0, <1>1, <1>16 DEF DeltaHolds
  <2>3. \A m \in Mail : Vouched(m) => UpTo(m, gmailCursor.history, gmailCursor.kind = "Delta")'
    BY <1>13, <1>14, <1>16, <2>1, <2>2
  <2> QED
    BY <1>0, <1>1, <1>15, <2>3 DEF CursorHolds
<1>18. CASE upto < Len(log)
  <2>1. /\ gmail' \in GmailPasses /\ gmail'.stage = "delta" /\ gmail'.history = gmail.history
        /\ gmail'.reached = upto /\ gmail'.from = gmail.from /\ gmail'.page = gmail.page
        /\ gmail'.backfill = gmail.backfill
    BY <1>0, <1>1, <1>2, <1>18 DEF GmailPasses
  <2>2. GmailTypeOK' /\ HistoryPast' /\ LogSound'
    BY <1>0, <1>1, <1>2, <1>10, <2>1, InvTypes, PassFields
  <2>3. \A m \in Mail : Vouched(m)' => UpTo(m, gmail.reached, ~gmail.backfill)'
    <3>1. PICK u \in Nat, b \in BOOLEAN : u = upto /\ b = ~gmail.backfill
      BY <1>2, <1>16
    <3>2. \A m \in Mail : Vouched(m)' => UpTo(m, u, b)'
      <4>1. u <= upto /\ \A m \in Mail : Vouched(m) => UpTo(m, gmail.reached, b)
        BY <1>2, <1>14, <3>1
      <4> QED
        BY <1>13, <1>15, <4>1
    <3>3. u = gmail'.reached /\ b = ~gmail'.backfill
      BY <2>1, <3>1
    <3> QED
      BY <3>2, <3>3 DEF UpTo, Known
  <2>4. /\ gmail'.history <= gmail'.reached
        /\ gmailCursor' = gmailCursor
    BY <1>0, <1>1, <1>2, <2>1, InvTypes DEF DeltaHolds
  <2>5. DeltaHolds'
    BY <1>1, <2>1, <2>3, <2>4 DEF DeltaHolds
  <2> QED
    BY <1>17, <2>1, <2>2, <2>5 DEF GmailInv, PassHolds
<1>19. CASE ~(upto < Len(log))
  <2>0. upto = Len(log)
    BY <1>2, <1>19, InvTypes
  <2>1. /\ gmail' \in GmailPasses /\ gmail'.stage = "caught" /\ gmail'.history = upto
        /\ gmail'.reached = 0 /\ gmail'.from = gmail.from /\ gmail'.page = gmail.page
        /\ gmail'.backfill = gmail.backfill
    BY <1>0, <1>1, <1>2, <1>19, <2>0 DEF GmailPasses, GmailStages
  <2>2. GmailTypeOK' /\ HistoryPast' /\ LogSound'
    BY <1>0, <1>1, <1>2, <1>10, <2>1, InvTypes, PassFields
  <2>3. \A m \in Mail : Ahead(m)' => Vouched(m)
    <3>1. CASE gmail.backfill
      BY <1>1, <2>1, <3>1, InvTypes, IdleFacts DEF DeltaHolds, Ahead, Vouched, Mail, Page
    <3>2. CASE ~gmail.backfill
      BY <1>1, <3>2 DEF DeltaHolds, Vouched
    <3> QED
      BY <3>1, <3>2
  <2>4. \A m \in Mail : Ahead(m)' => UpTo(m, gmail.history, ~gmail.backfill)'
    <3>1. PICK u \in Nat, b \in BOOLEAN : u = upto /\ b = ~gmail.backfill
      BY <1>2, <1>16
    <3>2. \A m \in Mail : Ahead(m)' => UpTo(m, u, b)'
      <4>1. u <= upto /\ \A m \in Mail : Vouched(m) => UpTo(m, gmail.reached, b)
        BY <1>2, <1>14, <3>1
      <4> QED
        BY <1>13, <2>3, <4>1
    <3>3. u = gmail'.history /\ b = ~gmail'.backfill
      BY <2>1, <3>1
    <3> QED
      BY <3>2, <3>3 DEF UpTo, Known
  <2>5. (gmail'.backfill /\ gmail'.history = gmail'.from) => Follows'
    BY <1>0, <1>1, <2>1 DEF DeltaHolds, Follows
  <2>6. CaughtHolds'
    BY <2>4, <2>5 DEF CaughtHolds
  <2> QED
    BY <1>17, <2>1, <2>2, <2>6 DEF GmailInv, PassHolds
<1> QED
  BY <1>18, <1>19

-------------------------------------------------------------------------------

LEMMA GmailInitHolds == GmailInit => GmailInv
<1> SUFFICES ASSUME GmailInit PROVE GmailInv
  OBVIOUS
<1>0. /\ log = [i \in 1..FirstMail |-> [msg |-> i, what |-> "added"]] /\ FirstMail \in Nat
      /\ FirstMail <= MaxMail /\ MaxMail \in Nat
      /\ gmailCursor = NoGmailCursor /\ gmail = GmailIdle
  BY GmailPassAssumption DEF GmailInit
<1>1. log \in Seq(Records) /\ Len(log) = FirstMail
  <2>1. \A i \in 1..FirstMail : [msg |-> i, what |-> "added"] \in Records
    BY <1>0 DEF Records, Mail
  <2> QED
    BY <1>0, <2>1
<1>2. gmailCursor \in GmailCursor /\ gmailCursor.kind = "none" /\ gmailCursor.history = 0
      /\ gmailCursor.page = FirstPage
  BY <1>0, IdleFacts DEF NoGmailCursor, At, GmailCursor
<1>3. GmailTypeOK /\ HistoryPast
  BY <1>0, <1>1, <1>2, IdleFacts DEF GmailInit, GmailTypeOK, HistoryPast
<1>4. \A i \in 1..Len(log) : log[i].msg = i /\ log[i].what = "added"
  BY <1>0, <1>1
<1>5. Arrived = 1..FirstMail
  <2>1. ASSUME NEW m \in Mail PROVE LastRecord(m) > 0 <=> m \in 1..FirstMail
    <3>1. m \in 1..FirstMail => m <= LastRecord(m)
      BY <1>1, <1>3, <1>4, RecordFacts
    <3>2. LastRecord(m) > 0 => LastRecord(m) \in 1..FirstMail /\ log[LastRecord(m)].msg = m
      BY <1>1, <1>3, RecordFacts
    <3>3. LastRecord(m) \in Nat /\ m \in Nat /\ m > 0
      BY <1>3, RecordFacts DEF Mail
    <3> QED
      BY <1>1, <1>4, <3>1, <3>2, <3>3
  <2>2. 1..FirstMail \subseteq Mail
    BY <1>0 DEF Mail
  <2> QED
    BY <2>1, <2>2 DEF Arrived
<1>6. LogSound
  <2>1. \E k \in 0..MaxMail : Arrived = 1..k
    BY <1>0, <1>5
  <2>2. \A i \in 1..Len(log) : i \in 1..i
    BY <1>0, <1>1
  <2> QED
    BY <1>4, <2>1, <2>2 DEF LogSound
<1>7. CursorHolds /\ PassHolds
  BY <1>0, <1>2, IdleFacts DEF CursorHolds, PassHolds, Vouched
<1> QED
  BY <1>3, <1>6, <1>7 DEF GmailInv

LEMMA GmailStep == GmailInv /\ [GmailNext]_gmailVars => GmailInv'
<1> SUFFICES ASSUME GmailInv, [GmailNext]_gmailVars PROVE GmailInv'
  OBVIOUS
<1>1. ASSUME HistoryAges PROVE GmailInv'
  <2>1. UNCHANGED <<log, gmailCursor, stored, gmail>> /\ aged' \in 0..Len(log)
        /\ tokens' \in Nat /\ gmailFaults' \in Nat
    BY <1>1, InvTypes DEF HistoryAges
  <2> QED
    BY <2>1, ElsewhereHolds
<1>2. ASSUME TokensForgotten PROVE GmailInv'
  <2>1. UNCHANGED <<log, gmailCursor, stored, gmail>> /\ aged' \in 0..Len(log)
        /\ tokens' \in Nat /\ gmailFaults' \in Nat
    BY <1>2, InvTypes DEF TokensForgotten, GmailFault
  <2> QED
    BY <2>1, ElsewhereHolds
<1>3. ASSUME UNCHANGED gmailVars PROVE GmailInv'
  <2>1. UNCHANGED <<log, gmailCursor, stored, gmail>> /\ aged' \in 0..Len(log)
        /\ tokens' \in Nat /\ gmailFaults' \in Nat
    BY <1>3, InvTypes DEF gmailVars
  <2> QED
    BY <2>1, ElsewhereHolds
<1> QED
  BY <1>1, <1>2, <1>3, MailboxMovesHolds, StartPassHolds, DeltaPageHolds, HistoryExpiredHolds,
     CaughtUpHolds, ListPageHolds, TokenRefusedHolds, CheckpointHolds, ListIdsHolds,
     ListStoppedHolds, PassStopsHolds
     DEF GmailNext, PassStep

(* Whatever passes stop, history ages out and page tokens are forgotten, a  *)
(* message the Gmail cursor vouches for is stored as its history id has it, *)
(* and a synced cursor leaves no message the server had deleted.            *)
THEOREM GmailCursorVouches == GmailSpec => []GmailCurrent
<1>1. GmailInv => GmailCurrent
  BY DEF GmailInv, CursorHolds, UpTo, GmailCurrent
<1> QED
  BY <1>1, GmailInitHolds, GmailStep, PTL DEF GmailSpec
===============================================================================
