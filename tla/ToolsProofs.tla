----------------------------- MODULE ToolsProofs -----------------------------
(* The tools around a release, for any feeds, publishers, sources, workflows   *)
(* and jobs: a snapshot of the feeds is whole or absent, whoever raced, failed *)
(* or died; a bundle says of every list what it is, through any number of      *)
(* carries; the alert keeps what was surely told; what is accepted from a live *)
(* origin is one bundle, verified whole; and a feed that is read in chunks     *)
(* yields the names it holds.                                                  *)
EXTENDS SourceSnapshot, BundleBuild, AlertIssue, OriginGate, AliasStream,
        FiniteSetTheorems, SequenceTheorems, WellFoundedInduction, TLAPS

-----------------------------------------------------------------------------
(* The snapshot of the feeds.                                                *)

Requests == [phase : FeedPhase, attempt : 0..Attempts, open : BOOLEAN,
             answer : FeedAnswers \cup {NoAnswer}, got : 0..BodyLimit]

\* A response is open only between its headers and the end of its body, and there is an
\* attempt left where one pauses.
Reads(r) ==
  /\ r.open => r.phase \in {"answered", "reading"}
  /\ r.phase = "pausing" => r.attempt < Attempts
RequestsInv == req \in [Feed -> Requests] /\ \A f \in Feed : Reads(req[f])

AtWork == {"locked", "capturing", "captured", "listed", "unwinding", "releasing"}
Capturing == {"capturing", "captured", "listed"}

\* A publisher at work holds the lock; what it has in its staging directory, by how far it is.
PublisherInv(p) ==
  /\ snap[p] \in AtWork => lockFile = p
  /\ snap[p] \in Capturing => staging[p] \in Trees
  /\ snap[p] \in {"captured", "listed"} => \A f \in Feed : staging[p].files[f] = "whole"
  /\ snap[p] = "listed" => staging[p].manifest
  /\ snap[p] \in {"idle", "locked", "releasing", "ended", "refused"} => staging[p] = NoTree

TargetIsWhole ==
  target # NoTree => target.manifest /\ \A f \in Feed : target.files[f] = "whole"

\* The requests under way are those of the publisher that captures, and a lock file is of a
\* publisher that is at work or died with it.
SnapInv ==
  /\ SnapshotTypeOK /\ RequestsInv /\ TargetIsWhole
  /\ \A p \in Publisher : PublisherInv(p)
  /\ lockFile # NoPublisher => snap[lockFile] \in AtWork \cup {"dead"}
  /\ (\E f \in Feed : req[f].open) => \E p \in Publisher : snap[p] = "capturing"

LEMMA SnapInitInv == SnapInit => SnapInv
<1> SUFFICES ASSUME SnapInit PROVE SnapInv
  OBVIOUS
<1>1. Quiet \in Requests /\ ~Quiet.open /\ Reads(Quiet)
  BY FeedAssumption DEF Quiet, Requests, FeedPhase, NoAnswer, Reads
<1>2. RequestsInv
  BY <1>1 DEF SnapInit, FeedInit, RequestsInv
<1>3. SnapshotTypeOK
  BY <1>2 DEF SnapInit, SnapshotTypeOK, RequestsInv, Requests, FeedTypeOK, SnapPhase
<1>4. \A f \in Feed : ~req[f].open
  BY <1>1 DEF SnapInit, FeedInit
<1> QED BY <1>2, <1>3, <1>4 DEF SnapInit, SnapInv, TargetIsWhole, PublisherInv, AtWork, Capturing

\* What a step of a request makes of it.
LEMMA BecomesKeeps ==
  ASSUME RequestsInv, NEW f \in Feed, NEW r \in Requests, Reads(r), FeedBecomes(f, r)
  PROVE  RequestsInv'
BY DEF RequestsInv, FeedBecomes

LEMMA RequestFacts ==
  ASSUME RequestsInv, NEW f \in Feed
  PROVE  /\ req[f] \in Requests /\ Reads(req[f])
         /\ CancelledFeed(f) \in Requests /\ Reads(CancelledFeed(f)) /\ CancelledFeed(f).phase = "failed"
         /\ \A retryable \in BOOLEAN :
              Failing(f, retryable) \in Requests /\ Reads(Failing(f, retryable))
<1>1. req[f] \in Requests /\ Reads(req[f])
  BY DEF RequestsInv
<1>2. CancelledFeed(f) \in Requests /\ Reads(CancelledFeed(f)) /\ CancelledFeed(f).phase = "failed"
  BY <1>1 DEF CancelledFeed, Requests, FeedPhase, Reads
<1>3. ASSUME NEW retryable \in BOOLEAN
      PROVE  Failing(f, retryable) \in Requests /\ Reads(Failing(f, retryable))
  BY <1>1 DEF Failing, Requests, FeedPhase, Reads
<1> QED BY <1>1, <1>2, <1>3

LEMMA AsksKeeps ==
  ASSUME RequestsInv, NEW f \in Feed, FeedAsks(f)
  PROVE  RequestsInv'
<1>1. req[f] \in Requests /\ Attempts \in Nat
  BY RequestFacts, FeedAssumption
<1>2. CASE BacksOff(f)
  <2> DEFINE r == [req[f] EXCEPT !.phase = "asking", !.attempt = @ + 1]
  <2>1. req[f].phase = "pausing" /\ FeedBecomes(f, r) /\ Reads(req[f])
    BY <1>2, RequestFacts DEF BacksOff, FeedAt
  <2>2. req[f].attempt \in 0..Attempts /\ req[f].attempt < Attempts
    BY <1>1, <2>1 DEF Requests, Reads
  <2> DEFINE n == req[f].attempt + 1
  <2>3. n \in 0..Attempts
    BY <1>1, <2>2
  <2>4. r = [req[f] EXCEPT !.phase = "asking", !.attempt = n]
    OBVIOUS
  <2> HIDE DEF r, n
  <2>5. r \in Requests /\ Reads(r)
    BY <1>1, <2>1, <2>3, <2>4 DEF Requests, FeedPhase, Reads
  <2> QED BY <2>1, <2>5, BecomesKeeps
<1>3. CASE AttemptAnswered(f)
  <2>1. PICK a \in FeedAnswers :
          IF Usable(a)
          THEN FeedBecomes(f, [req[f] EXCEPT !.phase = "answered", !.answer = a, !.open = TRUE])
          ELSE FeedBecomes(f, Failing(f, a.status = "transient"))
    BY <1>3 DEF AttemptAnswered
  <2> DEFINE r == [req[f] EXCEPT !.phase = "answered", !.answer = a, !.open = TRUE]
  <2>2. r \in Requests /\ Reads(r)
    BY <1>1 DEF Requests, FeedPhase, Reads
  <2> DEFINE again == a.status = "transient"
  <2>3. again \in BOOLEAN
    OBVIOUS
  <2>4. FeedBecomes(f, r) \/ FeedBecomes(f, Failing(f, again))
    BY <2>1
  <2> HIDE DEF r, again
  <2>5. Failing(f, again) \in Requests /\ Reads(Failing(f, again))
    BY <2>3, RequestFacts
  <2> QED BY <2>2, <2>4, <2>5, BecomesKeeps
<1>4. CASE DeadlineFires(f) \/ ConnectionBreaks(f)
  BY <1>4, RequestFacts, BecomesKeeps DEF DeadlineFires, ConnectionBreaks
<1> QED BY <1>2, <1>3, <1>4 DEF FeedAsks

\* One step of the capture of a feed.
LEMMA CaptureRequests ==
  ASSUME RequestsInv, NEW p \in Publisher, NEW f \in Feed, Captures(p, f)
  PROVE  RequestsInv'
<1>1. req[f] \in Requests /\ Reads(req[f]) /\ BodyLimit \in Nat
  BY RequestFacts, FeedAssumption
<1>2. ASSUME FeedBecomes(f, CancelledFeed(f)) PROVE RequestsInv'
  BY <1>2, RequestFacts, BecomesKeeps
<1>3. CASE FeedAsks(f)
  BY <1>3, AsksKeeps
<1>4. CASE BodyBegins(f)
  <2> DEFINE r == [req[f] EXCEPT !.phase = "reading"]
  <2>1. r \in Requests /\ Reads(r)
    BY <1>1 DEF Requests, FeedPhase, Reads
  <2>2. FeedBecomes(f, r) \/ FeedBecomes(f, CancelledFeed(f))
    BY <1>4 DEF BodyBegins
  <2> HIDE DEF r
  <2> QED BY <1>2, <2>1, <2>2, BecomesKeeps
<1>5. CASE ChunkComes(f)
  <2> DEFINE r == [req[f] EXCEPT !.got = @ + 1]
  <2>1. FeedBecomes(f, CancelledFeed(f)) \/ (req[f].got # BodyLimit /\ FeedBecomes(f, r))
    BY <1>5 DEF ChunkComes
  <2>2. req[f].got # BodyLimit => r \in Requests /\ Reads(r)
    BY <1>1 DEF Requests, FeedPhase, Reads
  <2> HIDE DEF r
  <2> QED BY <1>2, <2>1, <2>2, BecomesKeeps
<1>6. CASE BodyEnds(f)
  <2> DEFINE r == [req[f] EXCEPT !.phase = "read", !.open = FALSE]
  <2>1. r \in Requests /\ Reads(r) /\ FeedBecomes(f, r)
    BY <1>1, <1>6 DEF Requests, FeedPhase, Reads, BodyEnds
  <2> HIDE DEF r
  <2> QED BY <2>1, BecomesKeeps
<1>7. CASE BodyBreaks(f) \/ HeadersRefused(f) \/ TextRefused(f)
  BY <1>2, <1>7 DEF BodyBreaks, HeadersRefused, TextRefused
<1>8. CASE TextWritten(p, f)
  BY <1>8 DEF TextWritten, RequestsInv
<1> QED BY <1>3, <1>4, <1>5, <1>6, <1>7, <1>8
        DEF Captures, StreamOpens, TextOpens, Pulls, StreamCloses, TextEnds

\* A capture leaves every other staging directory, and its own is a directory still.
LEMMA CaptureStaging ==
  ASSUME NEW p \in Publisher, NEW f \in Feed, Captures(p, f), staging[p] \in Trees,
         staging \in [Publisher -> Trees \cup {NoTree}]
  PROVE  /\ staging' \in [Publisher -> Trees \cup {NoTree}] /\ staging'[p] \in Trees
         /\ \A q \in Publisher : q # p => staging'[q] = staging[q]
<1>1. ASSUME NEW s \in {"none", "partial", "whole"}, FileIs(p, f, s)
      PROVE  /\ staging' \in [Publisher -> Trees \cup {NoTree}] /\ staging'[p] \in Trees
             /\ \A q \in Publisher : q # p => staging'[q] = staging[q]
  <2> DEFINE t == [staging[p] EXCEPT !.files[f] = s]
  <2>1. t \in Trees
    BY DEF Trees
  <2>2. staging' = [staging EXCEPT ![p] = t]
    BY <1>1 DEF FileIs
  <2> HIDE DEF t
  <2> QED BY <2>1, <2>2
<1>2. UNCHANGED staging \/ \E s \in {"none", "partial", "whole"} : FileIs(p, f, s)
  BY DEF Captures, HeadersRefused, StreamOpens, TextOpens, Pulls, StreamCloses, TextEnds,
         TextRefused, TextWritten
<1> QED BY <1>1, <1>2

\* A step of the publisher that holds the lock.
LEMMA HolderKeeps ==
  ASSUME SnapInv, NEW p \in Publisher, lockFile = p, NEW x \in SnapPhase \ {"idle", "refused"},
         snap' = [snap EXCEPT ![p] = x], staging' \in [Publisher -> Trees \cup {NoTree}],
         \A q \in Publisher : q # p => staging'[q] = staging[q],
         target' \in Trees \cup {NoTree}, TargetIsWhole', RequestsInv', PublisherInv(p)',
         \/ lockFile' = p /\ x \in AtWork \cup {"dead"}
         \/ lockFile' = NoPublisher /\ x = "ended",
         (\E f \in Feed : req'[f].open) => x = "capturing"
  PROVE  SnapInv'
<1>1. /\ snap' \in [Publisher -> SnapPhase] /\ snap'[p] = x
      /\ \A q \in Publisher : q # p => snap'[q] = snap[q]
  BY DEF SnapInv, SnapshotTypeOK
<1>2. \A q \in Publisher : q # p => snap[q] \notin AtWork
  BY DEF SnapInv, PublisherInv
<1>3. \A q \in Publisher : q # p => PublisherInv(q)'
  BY <1>1, <1>2 DEF SnapInv, PublisherInv, AtWork, Capturing
<1>4. SnapshotTypeOK'
  BY <1>1 DEF SnapshotTypeOK, RequestsInv, Requests, FeedTypeOK
<1>5. lockFile' # NoPublisher => snap'[lockFile'] \in AtWork \cup {"dead"}
  BY <1>1
<1> QED BY <1>1, <1>3, <1>4, <1>5 DEF SnapInv

LEMMA TakesLockKeeps ==
  ASSUME SnapInv, NEW p \in Publisher, TakesLock(p)
  PROVE  SnapInv'
<1>1. /\ snap[p] = "idle" /\ snap \in [Publisher -> SnapPhase] /\ NoPublisher \notin Publisher
      /\ lockFile \in Publisher \cup {NoPublisher} /\ UNCHANGED <<req, staging, target>>
      /\ RequestsInv /\ TargetIsWhole /\ PublisherInv(p) /\ SnapshotTypeOK
  BY SnapshotAssumption DEF TakesLock, SnapInv, SnapshotTypeOK
<1>2. RequestsInv' /\ TargetIsWhole'
  BY <1>1 DEF RequestsInv, TargetIsWhole
<1>3. CASE lockFile = NoPublisher
  <2>1. lockFile' = p /\ snap' = [snap EXCEPT ![p] = "locked"]
    BY <1>3 DEF TakesLock, SnapGoes
  <2>2. \A q \in Publisher : snap[q] \notin AtWork
    BY <1>1, <1>3 DEF SnapInv, PublisherInv
  <2>3. \A f \in Feed : ~req'[f].open
    BY <1>1, <2>2 DEF SnapInv, AtWork
  <2>4. \A q \in Publisher : PublisherInv(q)'
    BY <1>1, <2>1, <2>2 DEF SnapInv, PublisherInv, AtWork, Capturing
  <2>5. SnapshotTypeOK'
    BY <1>1, <2>1 DEF SnapshotTypeOK, FeedTypeOK, SnapPhase
  <2>6. snap'[lockFile'] \in AtWork
    BY <1>1, <2>1 DEF AtWork
  <2> QED BY <1>2, <2>3, <2>4, <2>5, <2>6 DEF SnapInv
<1>4. CASE lockFile # NoPublisher
  <2>1. lockFile' = lockFile /\ snap' = [snap EXCEPT ![p] = "refused"]
    BY <1>4 DEF TakesLock, SnapGoes
  <2>2. lockFile # p /\ snap[lockFile] \in AtWork \cup {"dead"}
    BY <1>1, <1>4 DEF SnapInv, AtWork
  <2>3. \A q \in Publisher : PublisherInv(q)'
    BY <1>1, <2>1 DEF SnapInv, PublisherInv, AtWork, Capturing
  <2>4. SnapshotTypeOK'
    BY <1>1, <2>1 DEF SnapshotTypeOK, FeedTypeOK, SnapPhase
  <2>5. (\E f \in Feed : req'[f].open) => \E q \in Publisher : snap'[q] = "capturing"
    <3> SUFFICES ASSUME NEW f \in Feed, req[f].open PROVE \E q \in Publisher : snap'[q] = "capturing"
      BY <1>1
    <3>1. PICK q \in Publisher : snap[q] = "capturing"
      BY DEF SnapInv
    <3> QED BY <1>1, <2>1, <3>1
  <2>6. snap'[lockFile'] \in AtWork \cup {"dead"}
    BY <1>1, <1>4, <2>1, <2>2
  <2> QED BY <1>2, <2>3, <2>4, <2>5, <2>6 DEF SnapInv
<1> QED BY <1>3, <1>4

\* What a publisher at work may count on.
LEMMA HolderFacts ==
  ASSUME SnapInv, NEW p \in Publisher, snap[p] \in AtWork
  PROVE  /\ lockFile = p /\ RequestsInv /\ TargetIsWhole /\ PublisherInv(p)
         /\ snap \in [Publisher -> SnapPhase] /\ staging \in [Publisher -> Trees \cup {NoTree}]
         /\ target \in Trees \cup {NoTree}
         /\ snap[p] # "capturing" => \A f \in Feed : ~req[f].open
BY SnapshotAssumption DEF SnapInv, SnapshotTypeOK, PublisherInv, AtWork

LEMMA BeginsKeeps ==
  ASSUME SnapInv, NEW p \in Publisher, BeginsCaptures(p)
  PROVE  SnapInv'
<1>1. snap[p] = "locked" /\ UNCHANGED <<lockFile, target>>
  BY DEF BeginsCaptures
<1>2. /\ lockFile = p /\ RequestsInv /\ TargetIsWhole /\ PublisherInv(p) /\ staging[p] = NoTree
      /\ snap \in [Publisher -> SnapPhase] /\ staging \in [Publisher -> Trees \cup {NoTree}]
      /\ target \in Trees \cup {NoTree} /\ \A f \in Feed : ~req[f].open
  BY <1>1, HolderFacts DEF AtWork, PublisherInv
<1>3. TargetIsWhole'
  BY <1>1, <1>2 DEF TargetIsWhole
<1>4. CASE target # NoTree
  <2>1. snap' = [snap EXCEPT ![p] = "releasing"] /\ UNCHANGED <<req, staging>>
    BY <1>4 DEF BeginsCaptures, SnapGoes
  <2>2. RequestsInv' /\ PublisherInv(p)'
    BY <1>1, <1>2, <2>1 DEF RequestsInv, PublisherInv, AtWork, Capturing
  <2>3. "releasing" \in SnapPhase \ {"idle", "refused"} /\ "releasing" \in AtWork
    BY DEF SnapPhase, AtWork
  <2> QED BY <1>1, <1>2, <1>3, <2>1, <2>2, <2>3, HolderKeeps
<1>5. CASE target = NoTree
  <2> DEFINE r == [Quiet EXCEPT !.phase = "asking", !.attempt = 1]
  <2>1. /\ snap' = [snap EXCEPT ![p] = "capturing"] /\ staging' = [staging EXCEPT ![p] = EmptyTree]
        /\ req' = [f \in Feed |-> r]
    BY <1>5 DEF BeginsCaptures, SnapGoes
  <2>2. r \in Requests /\ Reads(r) /\ ~r.open
    <3>1. Quiet \in Requests /\ ~Quiet.open /\ 1 \in 0..Attempts
      BY FeedAssumption DEF Quiet, Requests, FeedPhase, NoAnswer
    <3> QED BY <3>1 DEF Requests, FeedPhase, Reads
  <2>3. RequestsInv' /\ \A f \in Feed : ~req'[f].open
    <3> HIDE DEF r
    <3> QED BY <2>1, <2>2 DEF RequestsInv
  <2>4. EmptyTree \in Trees
    BY DEF EmptyTree, Trees
  <2>5. PublisherInv(p)'
    BY <1>1, <1>2, <2>1, <2>4 DEF PublisherInv, AtWork, Capturing
  <2>6. "capturing" \in SnapPhase \ {"idle", "refused"} /\ "capturing" \in AtWork
    BY DEF SnapPhase, AtWork
  <2>7. /\ staging' \in [Publisher -> Trees \cup {NoTree}]
        /\ \A q \in Publisher : q # p => staging'[q] = staging[q]
    BY <1>2, <2>1, <2>4
  <2> QED BY <1>1, <1>2, <1>3, <2>1, <2>3, <2>5, <2>6, <2>7, HolderKeeps
<1> QED BY <1>4, <1>5

LEMMA CapturesKeeps ==
  ASSUME SnapInv, NEW p \in Publisher, NEW f \in Feed, Captures(p, f)
  PROVE  SnapInv'
<1>1. snap[p] = "capturing" /\ UNCHANGED <<snap, lockFile, target>>
  BY DEF Captures
<1>2. /\ lockFile = p /\ RequestsInv /\ TargetIsWhole /\ PublisherInv(p) /\ staging[p] \in Trees
      /\ snap \in [Publisher -> SnapPhase] /\ staging \in [Publisher -> Trees \cup {NoTree}]
      /\ target \in Trees \cup {NoTree}
  BY <1>1, HolderFacts DEF AtWork, PublisherInv, Capturing
<1>3. /\ staging' \in [Publisher -> Trees \cup {NoTree}] /\ staging'[p] \in Trees
      /\ \A q \in Publisher : q # p => staging'[q] = staging[q]
  BY <1>2, CaptureStaging
<1>4. RequestsInv' /\ TargetIsWhole'
  BY <1>1, <1>2, CaptureRequests DEF TargetIsWhole
<1>5. PublisherInv(p)'
  BY <1>1, <1>2, <1>3 DEF PublisherInv, AtWork, Capturing
<1>6. snap' = [snap EXCEPT ![p] = "capturing"]
  BY <1>1, <1>2
<1>7. "capturing" \in SnapPhase \ {"idle", "refused"} /\ "capturing" \in AtWork
  BY DEF SnapPhase, AtWork
<1> QED BY <1>1, <1>2, <1>3, <1>4, <1>5, <1>6, <1>7, HolderKeeps

\* Every capture has come to its end before the wait is over, so nothing is open, and
\* without a failure every file is whole.
LEMMA EndsKeeps ==
  ASSUME SnapInv, NEW p \in Publisher, CapturesEnd(p)
  PROVE  SnapInv'
<1>1. snap[p] = "capturing" /\ Settled(p) /\ UNCHANGED <<req, lockFile, staging, target>>
  BY DEF CapturesEnd
<1>2. /\ lockFile = p /\ RequestsInv /\ TargetIsWhole /\ PublisherInv(p) /\ staging[p] \in Trees
      /\ snap \in [Publisher -> SnapPhase] /\ staging \in [Publisher -> Trees \cup {NoTree}]
      /\ target \in Trees \cup {NoTree}
  BY <1>1, HolderFacts DEF AtWork, PublisherInv, Capturing
<1>3. RequestsInv' /\ TargetIsWhole'
  BY <1>1, <1>2 DEF RequestsInv, TargetIsWhole
<1>4. \A f \in Feed : ~req'[f].open
  BY <1>1, <1>2 DEF Settled, CaptureFailed, CaptureDone, FeedAt, RequestsInv, Reads
<1>5. CASE \E f \in Feed : CaptureFailed(f)
  <2>1. snap' = [snap EXCEPT ![p] = "unwinding"]
    BY <1>5 DEF CapturesEnd, SnapGoes
  <2>2. PublisherInv(p)'
    BY <1>1, <1>2, <2>1 DEF PublisherInv, AtWork, Capturing
  <2>3. "unwinding" \in SnapPhase \ {"idle", "refused"} /\ "unwinding" \in AtWork
    BY DEF SnapPhase, AtWork
  <2> QED BY <1>1, <1>2, <1>3, <1>4, <2>1, <2>2, <2>3, HolderKeeps
<1>6. CASE ~\E f \in Feed : CaptureFailed(f)
  <2>1. snap' = [snap EXCEPT ![p] = "captured"]
    BY <1>6 DEF CapturesEnd, SnapGoes
  <2>2. \A f \in Feed : staging[p].files[f] = "whole"
    BY <1>1, <1>6 DEF Settled, CaptureDone
  <2>3. PublisherInv(p)'
    BY <1>1, <1>2, <2>1, <2>2 DEF PublisherInv, AtWork, Capturing
  <2>4. "captured" \in SnapPhase \ {"idle", "refused"} /\ "captured" \in AtWork
    BY DEF SnapPhase, AtWork
  <2> QED BY <1>1, <1>2, <1>3, <1>4, <2>1, <2>3, <2>4, HolderKeeps
<1> QED BY <1>5, <1>6

\* The manifest is written, the directory promoted, or both are given up.
LEMMA AfterCaptureKeeps ==
  ASSUME SnapInv, NEW p \in Publisher,
         ListsFiles(p) \/ Promotes(p) \/ DiskFails(p) \/ Unwinds(p) \/ Releases(p)
  PROVE  SnapInv'
<1>1. snap[p] \in AtWork \ {"capturing"} /\ UNCHANGED req
  BY DEF ListsFiles, Promotes, DiskFails, Unwinds, Releases, AtWork
<1>2. /\ lockFile = p /\ RequestsInv /\ TargetIsWhole /\ PublisherInv(p)
      /\ snap \in [Publisher -> SnapPhase] /\ staging \in [Publisher -> Trees \cup {NoTree}]
      /\ target \in Trees \cup {NoTree} /\ \A f \in Feed : ~req[f].open
  BY <1>1, HolderFacts
<1>3. RequestsInv' /\ \A f \in Feed : ~req'[f].open
  BY <1>1, <1>2 DEF RequestsInv
<1>4. SnapPhase \ {"idle", "refused"} = AtWork \cup {"ended", "dead"}
  BY DEF SnapPhase, AtWork
<1>5. CASE ListsFiles(p)
  <2> DEFINE t == [staging[p] EXCEPT !.manifest = TRUE]
  <2>1. /\ snap[p] = "captured" /\ snap' = [snap EXCEPT ![p] = "listed"]
        /\ staging' = [staging EXCEPT ![p] = t] /\ UNCHANGED <<lockFile, target>>
    BY <1>5 DEF ListsFiles, SnapGoes
  <2>2. staging[p] \in Trees /\ \A f \in Feed : staging[p].files[f] = "whole"
    BY <1>2, <2>1 DEF PublisherInv, Capturing
  <2>3. t \in Trees /\ t.manifest /\ \A f \in Feed : t.files[f] = "whole"
    BY <2>2 DEF Trees
  <2> HIDE DEF t
  <2>4. snap'[p] = "listed" /\ staging'[p] = t
    BY <1>2, <2>1
  <2>5. PublisherInv(p)' /\ TargetIsWhole'
    BY <1>2, <2>1, <2>3, <2>4 DEF PublisherInv, TargetIsWhole, AtWork, Capturing
  <2>6. /\ staging' \in [Publisher -> Trees \cup {NoTree}]
        /\ \A q \in Publisher : q # p => staging'[q] = staging[q]
    BY <1>2, <2>1, <2>3
  <2>7. "listed" \in AtWork /\ "listed" # "ended"
    BY DEF AtWork
  <2> QED BY <1>2, <1>3, <1>4, <2>1, <2>5, <2>6, <2>7, HolderKeeps
<1>6. CASE Promotes(p) /\ target = NoTree
  <2>1. /\ snap[p] = "listed" /\ snap' = [snap EXCEPT ![p] = "releasing"] /\ target' = staging[p]
        /\ staging' = [staging EXCEPT ![p] = NoTree] /\ UNCHANGED lockFile
    BY <1>6 DEF Promotes, SnapGoes
  <2>2. /\ staging[p] \in Trees /\ staging[p].manifest
        /\ \A f \in Feed : staging[p].files[f] = "whole"
    BY <1>2, <2>1 DEF PublisherInv, Capturing
  <2>3. snap'[p] = "releasing" /\ staging'[p] = NoTree
    BY <1>2, <2>1
  <2>4. PublisherInv(p)' /\ TargetIsWhole'
    BY <1>2, <2>1, <2>2, <2>3 DEF PublisherInv, TargetIsWhole, AtWork, Capturing
  <2>5. /\ staging' \in [Publisher -> Trees \cup {NoTree}]
        /\ \A q \in Publisher : q # p => staging'[q] = staging[q]
    BY <1>2, <2>1
  <2>6. "releasing" \in AtWork
    BY DEF AtWork
  <2> QED BY <1>2, <1>3, <1>4, <2>1, <2>2, <2>4, <2>5, <2>6, HolderKeeps
<1>7. CASE (Promotes(p) /\ target # NoTree) \/ DiskFails(p)
  <2>1. /\ snap' = [snap EXCEPT ![p] = "unwinding"] /\ UNCHANGED <<lockFile, staging, target>>
    BY <1>7 DEF Promotes, DiskFails, SnapGoes
  <2>2. PublisherInv(p)' /\ TargetIsWhole'
    BY <1>2, <2>1 DEF PublisherInv, TargetIsWhole, AtWork, Capturing
  <2>3. "unwinding" \in AtWork
    BY DEF AtWork
  <2> QED BY <1>2, <1>3, <1>4, <2>1, <2>2, <2>3, HolderKeeps
<1>8. CASE Unwinds(p)
  <2>1. /\ snap' = [snap EXCEPT ![p] = "releasing"] /\ UNCHANGED <<lockFile, target>>
        /\ staging' = [staging EXCEPT ![p] = NoTree]
    BY <1>8 DEF Unwinds, SnapGoes
  <2>2. PublisherInv(p)' /\ TargetIsWhole'
    BY <1>2, <2>1 DEF PublisherInv, TargetIsWhole, AtWork, Capturing
  <2>3. "releasing" \in AtWork
    BY DEF AtWork
  <2>4. /\ staging' \in [Publisher -> Trees \cup {NoTree}]
        /\ \A q \in Publisher : q # p => staging'[q] = staging[q]
    BY <1>2, <2>1
  <2> QED BY <1>2, <1>3, <1>4, <2>1, <2>2, <2>3, <2>4, HolderKeeps
<1>9. CASE Releases(p)
  <2>1. /\ snap[p] = "releasing" /\ snap' = [snap EXCEPT ![p] = "ended"]
        /\ lockFile' = NoPublisher /\ UNCHANGED <<staging, target>>
    BY <1>9 DEF Releases, SnapGoes
  <2>2. PublisherInv(p)' /\ TargetIsWhole'
    BY <1>2, <2>1 DEF PublisherInv, TargetIsWhole, AtWork, Capturing
  <2> QED BY <1>2, <1>3, <1>4, <2>1, <2>2, HolderKeeps
<1> QED BY <1>5, <1>6, <1>7, <1>8, <1>9

\* A publisher that dies leaves its lock and its files, and nothing open.
LEMMA DiesKeeps ==
  ASSUME SnapInv, NEW p \in Publisher, Dies(p)
  PROVE  SnapInv'
<1>1. /\ snap' = [snap EXCEPT ![p] = "dead"] /\ req' = [f \in Feed |-> Quiet]
      /\ UNCHANGED <<lockFile, staging, target>>
      /\ snap[p] \notin {"idle", "ended", "refused", "dead"}
  BY DEF Dies, SnapGoes
<1>2. snap[p] \in AtWork
  BY <1>1 DEF SnapInv, SnapshotTypeOK, SnapPhase, AtWork
<1>3. /\ lockFile = p /\ TargetIsWhole /\ snap \in [Publisher -> SnapPhase]
      /\ staging \in [Publisher -> Trees \cup {NoTree}] /\ target \in Trees \cup {NoTree}
  BY <1>2, HolderFacts
<1>4. Quiet \in Requests /\ ~Quiet.open /\ Reads(Quiet)
  BY FeedAssumption DEF Quiet, Requests, FeedPhase, NoAnswer, Reads
<1>5. RequestsInv' /\ \A f \in Feed : ~req'[f].open
  BY <1>1, <1>4 DEF RequestsInv
<1>6. PublisherInv(p)' /\ TargetIsWhole'
  BY <1>1, <1>3 DEF PublisherInv, TargetIsWhole, AtWork, Capturing
<1>7. "dead" \in SnapPhase \ {"idle", "refused"}
  BY DEF SnapPhase
<1> QED BY <1>1, <1>3, <1>5, <1>6, <1>7, HolderKeeps

LEMMA SnapshotAlways == SnapshotSpec => []SnapInv
<1>1. SnapInv /\ [SnapshotNext]_snapVars => SnapInv'
  <2> SUFFICES ASSUME SnapInv, [SnapshotNext]_snapVars PROVE SnapInv'
    OBVIOUS
  <2>1. ASSUME NEW p \in Publisher, SnapshotStep(p) PROVE SnapInv'
    BY <2>1, TakesLockKeeps, BeginsKeeps, CapturesKeeps, EndsKeeps, AfterCaptureKeeps, DiesKeeps
    DEF SnapshotStep
  <2>2. CASE UNCHANGED snapVars
    BY <2>2 DEF snapVars, SnapInv, SnapshotTypeOK, FeedTypeOK, RequestsInv, TargetIsWhole, PublisherInv
  <2> QED BY <2>1, <2>2 DEF SnapshotNext
<1> QED BY <1>1, SnapInitInv, PTL DEF SnapshotSpec

\* The fields of the requests, the phases of the publishers and the two kinds of directory
\* (snapshotSources.ts, fetchWithTimeout.ts).
THEOREM SnapshotTypeCorrect == SnapshotSpec => []SnapshotTypeOK
<1>1. SnapInv => SnapshotTypeOK
  BY DEF SnapInv
<1> QED BY <1>1, SnapshotAlways, PTL

\* For any feeds and publishers that race for one directory: what a build can read holds its
\* manifest and a whole copy of every feed, whatever failed or died, and a publisher that came
\* to its end has left no directory, no lock and no response open
\* (snapshotSources.ts:273-303).
THEOREM SnapshotStaysWhole == SnapshotSpec => []SnapshotIsWhole
<1>1. SnapInv => SnapshotIsWhole
  <2> SUFFICES ASSUME SnapInv PROVE SnapshotIsWhole
    OBVIOUS
  <2>1. ASSUME NEW p \in Publisher, snap[p] \in {"ended", "refused"}
        PROVE  staging[p] = NoTree /\ lockFile # p
    BY <2>1, SnapshotAssumption DEF SnapInv, PublisherInv, AtWork
  <2>2. ASSUME lockFile = NoPublisher, NEW f \in Feed PROVE ~req[f].open
    BY <2>2, SnapshotAssumption DEF SnapInv, PublisherInv, AtWork
  <2> QED BY <2>1, <2>2 DEF SnapInv, TargetIsWhole, SnapshotIsWhole
<1> QED BY <1>1, SnapshotAlways, PTL

-----------------------------------------------------------------------------
(* A bundle, built list by list.                                             *)

Copies ==
  [version : Nat, fetchedAt : Nat \cup {Absent, Malformed}, source : Nat \cup {Null, Absent},
   stale : BOOLEAN \cup {Absent}, reason : {Null, "feed", Absent}, obtained : Nat, aliased : BOOLEAN]
Listings == UNION {[S -> Copies] : S \in SUBSET BundleList}
Modes == {"enriched", "records-only"}
Builds ==
  [phase : {"idle", "list", "fetching", "carrying"}, next : Nat, stamp : Nat, carries : BOOLEAN,
   ceiling : Nat \cup {Null}, lists : Listings, reports : SUBSET Modes, carried : SUBSET BundleList]
Origins ==
  [made : Nat, ours : BOOLEAN, lists : [BundleList -> Copies], carried : SUBSET BundleList,
   mode : Modes]

\* A copy as a build of this pipeline makes it: its own age, no younger than its records, and
\* stale exactly if it is carried.
Good(c, carried) ==
  /\ c \in Copies /\ c.fetchedAt \in Nat /\ c.fetchedAt <= c.obtained
  /\ c.source # Absent /\ c.reason # Absent
  /\ c.stale \in BOOLEAN /\ (c.stale = TRUE <=> carried)

\* What was live before may state no age, but none that is too young.
NotYounger(c, made) ==
  LET age == ResolveListAge(c, made) IN age # Null => age.at \in Nat /\ age.at <= c.obtained

\* The build has the lists before the next one, each good; and no report says that the aliases
\* of one are missing unless one is.
ListsInv ==
  /\ pub.next \in 1..Len(Sources) + 1
  /\ DOMAIN pub.lists = {Sources[i] : i \in 1..pub.next - 1}
  /\ pub.carried \subseteq DOMAIN pub.lists
  /\ \A l \in DOMAIN pub.lists : Good(pub.lists[l], l \in pub.carried)
  /\ "records-only" \notin pub.reports =>
       \A l \in DOMAIN pub.lists : l \in Enriching \ pub.carried => pub.lists[l].aliased
  /\ pub.phase \in {"fetching", "carrying"} => pub.next <= Len(Sources) /\ pub.stamp <= clock

OriginInv ==
  /\ \A l \in BundleList : NotYounger(origin.lists[l], origin.made)
  /\ origin.ours =>
       /\ \A l \in BundleList : Good(origin.lists[l], l \in origin.carried)
       /\ origin.mode = "enriched" =>
            \A l \in Enriching \ origin.carried : origin.lists[l].aliased

BuildInv ==
  /\ clock \in Instant /\ builds \in 0..MaxBuilds
  /\ pub \in Builds /\ origin \in Origins /\ ListsInv /\ OriginInv

\* A good copy opens, with the age and the staleness it has.
LEMMA GoodOpens ==
  ASSUME NEW carried \in BOOLEAN, NEW c, Good(c, carried), NEW made
  PROVE  /\ NotYounger(c, made) /\ ResolveListFreshness(c, made) # Null
         /\ ResolveListFreshness(c, made).age.at = c.fetchedAt
         /\ ResolveListFreshness(c, made).stale <=> carried
<1> DEFINE age == Aged(c.fetchedAt, "fetchedAt")
           src == ResolveSource(c.source)
           opened == [age |-> age, stale |-> c.stale = TRUE, source |-> src]
<1>1. /\ c.fetchedAt \in Nat /\ c.fetchedAt \notin {Absent, Malformed, Null}
      /\ c.source \in Nat \cup {Null} /\ c.source # Malformed
      /\ c.stale \in BOOLEAN /\ c.stale # Absent /\ (c.stale = TRUE <=> carried)
      /\ c.reason # Absent /\ c.reason # Malformed /\ c.fetchedAt <= c.obtained
  BY ListAgeAssumption DEF Good, Copies
<1>2. age \in Ages /\ age # Null /\ age.at = c.fetchedAt /\ age.from = "fetchedAt"
  BY <1>1, ListAgeAssumption DEF Aged, Ages
<1>3. ResolveListAge(c, made) = age
  BY <1>1 DEF ResolveListAge, HasFetchedAt, IsListInstant
<1>4. src = c.source /\ src # Malformed /\ src \in Nat \cup {Null} /\ c.source # Absent
  BY <1>1, ListAgeAssumption DEF ResolveSource, Good
<1>5. StalenessProven(c, TRUE)
  BY <1>1 DEF StalenessProven
<1> HIDE DEF age, src
<1>6. (age.from = "fetchedAt") = TRUE
  BY <1>2
<1>7. ResolveListFreshness(c, made) = opened
  BY <1>2, <1>3, <1>4, <1>5, <1>6 DEF ResolveListFreshness, src
<1>8. opened # Null /\ opened.age = age /\ (opened.stale <=> carried)
  <2>1. (c.stale = TRUE) \in BOOLEAN /\ ((c.stale = TRUE) <=> carried)
    BY <1>1
  <2>2. opened \in [age : Ages, stale : BOOLEAN, source : Nat \cup {Null}]
    BY <1>2, <1>4, <2>1
  <2> QED BY <2>1, <2>2, ListAgeAssumption
<1>9. NotYounger(c, made)
  BY <1>1, <1>2, <1>3 DEF NotYounger
<1> QED BY <1>2, <1>7, <1>8, <1>9

LEMMA BuildBounds == MaxClock \in Nat /\ MaxBuilds \in Nat /\ FeedAge \in Nat /\ Len(Sources) \in Nat
BY BuildAssumption

LEMMA RestingFacts ==
  /\ Resting \in Builds /\ Resting.next = 1 /\ DOMAIN Resting.lists = {} /\ Resting.carried = {}
  /\ Resting.phase = "idle" /\ Resting.reports = {}
<1>1. <<>> \in [{} -> Copies] /\ DOMAIN <<>> = {}
  OBVIOUS
<1>2. <<>> \in Listings
  BY <1>1 DEF Listings
<1> QED BY <1>1, <1>2 DEF Resting, Builds

\* A build that starts, or rests.
LEMMA EmptyLists ==
  ASSUME pub'.next = 1, DOMAIN pub'.lists = {}, pub'.carried = {}, pub'.phase \in {"idle", "list"}
  PROVE  ListsInv'
<1>1. 1 \in 1..Len(Sources) + 1 /\ 1..1 - 1 = {}
  BY BuildBounds
<1> QED BY <1>1 DEF ListsInv

LEMMA BuildInitInv == BuildInit => BuildInv
<1> SUFFICES ASSUME BuildInit PROVE BuildInv
  OBVIOUS
<1>1. PICK c \in Earlier :
        origin = [made |-> 0, ours |-> FALSE, lists |-> [l \in BundleList |-> c], carried |-> {},
                  mode |-> "records-only"]
  BY DEF BuildInit
<1>2. c \in Copies /\ NotYounger(c, 0)
  <2>1. LegacyCopy \in Copies /\ LegacyCopy.fetchedAt = Absent /\ LegacyCopy.obtained = 0
    BY DEF LegacyCopy, Copy, Copies
  <2> DEFINE wrong == [LegacyCopy EXCEPT !.fetchedAt = Malformed]
             new == Copy(0, 0, Null, FALSE, Null, 0, TRUE)
  <2>2. wrong \in Copies /\ wrong.fetchedAt = Malformed
    BY <2>1 DEF Copies
  <2>3. new \in Copies /\ new.fetchedAt = 0 /\ new.obtained = 0
    BY DEF Copy, Copies
  <2>4. c = LegacyCopy \/ c = wrong \/ c = new
    BY DEF Earlier
  <2> HIDE DEF wrong, new
  <2>5. c = LegacyCopy => NotYounger(c, 0)
    BY <2>1, ListAgeAssumption DEF NotYounger, ResolveListAge, HasFetchedAt, IsListInstant, Aged
  <2>6. c = wrong => NotYounger(c, 0)
    BY <2>2, ListAgeAssumption DEF NotYounger, ResolveListAge, HasFetchedAt, IsListInstant
  <2>7. c = new => NotYounger(c, 0)
    BY <2>3, ListAgeAssumption DEF NotYounger, ResolveListAge, HasFetchedAt, IsListInstant, Aged
  <2> QED BY <2>1, <2>2, <2>3, <2>4, <2>5, <2>6, <2>7
<1>3. origin \in Origins
  BY <1>1, <1>2 DEF Origins, Modes
<1>4. OriginInv
  BY <1>1, <1>2 DEF OriginInv
<1>5. ListsInv
  <2>1. pub.next = 1 /\ DOMAIN pub.lists = {} /\ pub.carried = {} /\ pub.phase = "idle"
    BY RestingFacts DEF BuildInit
  <2>2. 1 \in 1..Len(Sources) + 1 /\ 1..1 - 1 = {}
    BY BuildBounds
  <2> QED BY <2>1, <2>2 DEF ListsInv
<1> QED BY <1>3, <1>4, <1>5, RestingFacts, BuildBounds DEF BuildInit, BuildInv, Instant

\* What goes into the bundle when the source at hand is staged.
LEMMA StagedKeeps ==
  ASSUME BuildInv, pub.phase \in {"fetching", "carrying"}, NEW copy,
         NEW reports \in SUBSET Modes, pub.reports \subseteq reports,
         NEW carried \in {pub.carried, pub.carried \cup {Source}},
         Good(copy, Source \in carried),
         "records-only" \notin reports => (Source \in Enriching \ carried => copy.aliased),
         NEW p, p = [StagedCopy(copy, reports) EXCEPT !.carried = carried],
         pub' = p, UNCHANGED <<clock, origin, builds>>
  PROVE  BuildInv'
<1> DEFINE lists == [l \in DOMAIN pub.lists \cup {Source} |->
                       IF l = Source THEN copy ELSE pub.lists[l]]
<1>1. /\ pub \in Builds /\ ListsInv /\ pub.next \in 1..Len(Sources) /\ Source \in BundleList
      /\ pub.lists \in Listings
  BY BuildBounds DEF BuildInv, ListsInv, Builds, Source, BundleList
<1>2. PICK S \in SUBSET BundleList : pub.lists \in [S -> Copies]
  BY <1>1 DEF Listings
<1>3. lists \in [S \cup {Source} -> Copies] /\ DOMAIN pub.lists = S
  BY <1>2 DEF Good
<1>4. lists \in Listings /\ DOMAIN lists = S \cup {Source} /\ carried \in SUBSET BundleList
  <2>1. S \cup {Source} \in SUBSET BundleList
    BY <1>1
  <2>2. carried \in SUBSET BundleList
    BY <1>1 DEF Builds
  <2> HIDE DEF lists
  <2> QED BY <1>3, <2>1, <2>2 DEF Listings
<1> HIDE DEF lists
<1>5. /\ p \in Builds /\ p.phase = "list" /\ p.next = pub.next + 1 /\ p.reports = reports
      /\ p.lists = lists /\ p.carried = carried
  <2> DEFINE q1 == [pub EXCEPT !.phase = "list"]
             q2 == [q1 EXCEPT !.next = @ + 1]
             q3 == [q2 EXCEPT !.reports = reports]
             q4 == [q3 EXCEPT !.lists = lists]
             q5 == [q4 EXCEPT !.carried = carried]
  <2>1. p = q5
    BY DEF StagedCopy, lists
  <2>2. q1 \in Builds /\ q1.phase = "list" /\ q1.next = pub.next
    BY <1>1 DEF Builds
  <2> HIDE DEF q1
  <2>3. q2 \in Builds /\ q2.phase = "list" /\ q2.next = pub.next + 1
    BY <2>2 DEF Builds
  <2> HIDE DEF q2
  <2>4. q3 \in Builds /\ q3.phase = "list" /\ q3.next = pub.next + 1 /\ q3.reports = reports
    BY <2>3 DEF Builds
  <2> HIDE DEF q3
  <2>5. q4 \in Builds /\ q4.phase = "list" /\ q4.next = pub.next + 1 /\ q4.reports = reports
        /\ q4.lists = lists
    BY <2>4, <1>4 DEF Builds
  <2> HIDE DEF q4
  <2> QED BY <2>1, <2>5, <1>4 DEF Builds
<1>6. Source \notin S
  BY <1>1, <1>3, BuildAssumption, SMTT(20) DEF ListsInv, Source
<1>7. \A l \in S : l # Source /\ lists[l] = pub.lists[l] /\ (l \in carried <=> l \in pub.carried)
  BY <1>3, <1>4, <1>6 DEF lists
<1>8. lists[Source] = copy
  BY DEF lists
<1>9. ListsInv'
  <2>1. p.next \in 1..Len(Sources) + 1
    BY <1>1, <1>5, BuildBounds
  <2>2. DOMAIN p.lists = {Sources[i] : i \in 1..p.next - 1}
    <3>1. p.next - 1 = pub.next /\ pub.next \in Nat \ {0}
      BY <1>1, <1>5, BuildBounds
    <3>2. 1..pub.next = (1..pub.next - 1) \cup {pub.next}
      BY <3>1
    <3>3. S = {Sources[i] : i \in 1..pub.next - 1}
      BY <1>1, <1>3 DEF ListsInv
    <3> QED BY <1>4, <1>5, <3>1, <3>2, <3>3 DEF Source
  <2>3. p.carried \subseteq DOMAIN p.lists
    BY <1>1, <1>3, <1>4, <1>5 DEF ListsInv
  <2>4. \A l \in DOMAIN p.lists : Good(p.lists[l], l \in p.carried)
    <3> SUFFICES ASSUME NEW l \in S \cup {Source} PROVE Good(lists[l], l \in carried)
      BY <1>4, <1>5
    <3>1. CASE l = Source
      BY <1>8, <3>1
    <3>2. CASE l \in S
      <4>1. Good(pub.lists[l], l \in pub.carried)
        BY <1>1, <1>3, <3>2 DEF ListsInv
      <4>2. lists[l] = pub.lists[l] /\ (l \in carried <=> l \in pub.carried)
        BY <1>7, <3>2
      <4> QED BY <4>1, <4>2 DEF Good
    <3> QED BY <3>1, <3>2
  <2>5. "records-only" \notin p.reports =>
           \A l \in DOMAIN p.lists : l \in Enriching \ p.carried => p.lists[l].aliased
    BY <1>1, <1>3, <1>4, <1>5, <1>7, <1>8 DEF ListsInv
  <2> QED BY <1>5, <2>1, <2>2, <2>3, <2>4, <2>5 DEF ListsInv
<1>10. OriginInv'
  BY DEF BuildInv, OriginInv
<1> QED BY <1>5, <1>9, <1>10 DEF BuildInv

\* A refreshed list has the instant before its feed was asked, and says so.
LEMMA RefreshedKeeps == ASSUME BuildInv, SourceRefreshed PROVE BuildInv'
<1>1. PICK updated \in Instant, ok \in BOOLEAN :
        /\ ok => Source \in Enriching
        /\ pub' = StagedCopy(Copy(builds, pub.stamp, updated, FALSE, Null, clock, ok), EnrichReports(ok))
  BY DEF SourceRefreshed
<1>2. pub.phase = "fetching" /\ UNCHANGED <<clock, origin, builds>>
  BY DEF SourceRefreshed, PubAt
<1> DEFINE copy == Copy(builds, pub.stamp, updated, FALSE, Null, clock, ok)
           reports == EnrichReports(ok)
           p == StagedCopy(copy, reports)
<1>3. /\ pub \in Builds /\ pub.stamp \in Nat /\ clock \in Nat /\ builds \in Nat /\ updated \in Nat
      /\ pub.stamp <= clock /\ pub.reports \in SUBSET Modes /\ pub.carried \in SUBSET BundleList
  BY <1>2, BuildBounds DEF BuildInv, ListsInv, Builds, Instant
<1>4. Source \notin pub.carried
  <2>1. /\ pub.carried \subseteq {Sources[i] : i \in 1..pub.next - 1} /\ pub.next \in 1..Len(Sources)
    BY <1>2, BuildBounds, SMTT(20) DEF BuildInv, ListsInv
  <2> QED BY <2>1, BuildAssumption, SMTT(20) DEF Source
<1>5. /\ copy \in Copies /\ copy.fetchedAt = pub.stamp /\ copy.obtained = clock /\ copy.stale = FALSE
      /\ copy.source = updated /\ copy.reason = Null /\ copy.aliased = ok
  BY <1>3 DEF Copy, Copies
<1>6. Good(copy, Source \in pub.carried)
  BY <1>3, <1>4, <1>5, ListAgeAssumption DEF Good
<1>7. /\ reports \in SUBSET Modes /\ pub.reports \subseteq reports
      /\ "records-only" \notin reports => (Source \in Enriching => ok)
  BY <1>3 DEF EnrichReports, Modes
<1>8. p = [p EXCEPT !.carried = pub.carried]
  <2>1. p.carried = pub.carried
    BY <1>3 DEF StagedCopy, Builds
  <2>2. p = [x \in DOMAIN p |-> p[x]]
    BY DEF StagedCopy
  <2> HIDE DEF p
  <2> QED BY <2>1, <2>2
<1>9. pub' = p /\ copy.aliased = ok
  BY <1>1, <1>5
<1> HIDE DEF copy, reports, p
<1>10. /\ pub.carried \in {pub.carried, pub.carried \cup {Source}}
       /\ "records-only" \notin reports => (Source \in Enriching \ pub.carried => copy.aliased)
  BY <1>7, <1>9
<1>11. p = [StagedCopy(copy, reports) EXCEPT !.carried = pub.carried]
  BY <1>8 DEF p
<1> QED BY <1>2, <1>6, <1>7, <1>9, <1>10, <1>11, StagedKeeps

\* A list that is carried keeps its version and its age, and says it is stale.
LEMMA RecarriesKeeps == ASSUME BuildInv, Recarries PROVE BuildInv'
<1> DEFINE live == origin.lists[Source]
           age == ResolveListAge(live, origin.made)
           copy == CarriedCopy(live, age)
           carried == pub.carried \cup {Source}
           p == [StagedCopy(copy, pub.reports) EXCEPT !.carried = carried]
<1>1. /\ pub.phase = "carrying" /\ age # Null /\ UNCHANGED <<clock, origin, builds>>
      /\ pub' = [StagedCopy(copy, pub.reports) EXCEPT !.carried = @ \cup {Source}]
  BY DEF Recarries, PubAt
<1>2. /\ pub \in Builds /\ Source \in BundleList /\ pub.reports \in SUBSET Modes
  BY <1>1, BuildBounds DEF BuildInv, ListsInv, Builds, Source, BundleList
<1>3. live \in Copies /\ NotYounger(live, origin.made)
  BY <1>2 DEF BuildInv, OriginInv, Origins
<1>4. age.at \in Nat /\ age.at <= live.obtained
  BY <1>1, <1>3 DEF NotYounger
<1> HIDE DEF live, age
<1>5. /\ copy \in Copies /\ copy.fetchedAt = age.at /\ copy.stale = TRUE /\ copy.reason = "feed"
      /\ copy.obtained = live.obtained /\ copy.source # Absent
  <2> DEFINE q1 == [live EXCEPT !.fetchedAt = age.at]
             q2 == [q1 EXCEPT !.stale = TRUE]
             q3 == [q2 EXCEPT !.reason = "feed"]
  <2>1. copy = [q3 EXCEPT !.source = IF @ = Absent THEN Null ELSE @]
    BY DEF CarriedCopy
  <2>2. q1 \in Copies /\ q1.fetchedAt = age.at /\ q1.obtained = live.obtained
    BY <1>3, <1>4 DEF Copies
  <2> HIDE DEF q1
  <2>3. q2 \in Copies /\ q2.fetchedAt = age.at /\ q2.obtained = live.obtained /\ q2.stale = TRUE
    BY <2>2 DEF Copies
  <2> HIDE DEF q2
  <2>4. /\ q3 \in Copies /\ q3.fetchedAt = age.at /\ q3.obtained = live.obtained /\ q3.stale = TRUE
        /\ q3.reason = "feed"
    BY <2>3 DEF Copies
  <2> HIDE DEF q3
  <2> HIDE DEF copy
  <2> QED BY <2>1, <2>4, ListAgeAssumption DEF Copies
<1>6. Good(copy, Source \in carried)
  <2> HIDE DEF copy
  <2> QED BY <1>4, <1>5, ListAgeAssumption DEF Good
<1>7. pub' = p
  <2> DEFINE q == StagedCopy(copy, pub.reports)
  <2>1. q.carried = pub.carried
    BY <1>2 DEF StagedCopy, Builds
  <2> HIDE DEF q
  <2> QED BY <1>1, <2>1 DEF q
<1>8. Source \notin Enriching \ carried
  OBVIOUS
<1> HIDE DEF copy, carried
<1>9. carried \in {pub.carried, pub.carried \cup {Source}} /\ pub.reports \subseteq pub.reports
  BY DEF carried
<1> QED BY <1>1, <1>2, <1>6, <1>7, <1>8, <1>9, StagedKeeps

\* The tree that is deployed has every list.
LEMMA PublishedKeeps == ASSUME BuildInv, BundlePublished PROVE BuildInv'
<1>1. /\ pub.phase = "list" /\ pub.next > Len(Sources) /\ pub' = Resting /\ UNCHANGED <<clock, builds>>
      /\ origin' = [made |-> clock, ours |-> TRUE, lists |-> pub.lists, carried |-> pub.carried,
                    mode |-> AliasMode]
  BY DEF BundlePublished, PubAt
<1>2. /\ pub \in Builds /\ ListsInv /\ clock \in Nat /\ pub.next \in 1..Len(Sources) + 1
  BY BuildBounds DEF BuildInv, Instant, ListsInv
<1>3. DOMAIN pub.lists = BundleList
  <2>1. pub.next - 1 = Len(Sources)
    BY <1>1, <1>2, BuildBounds
  <2> QED BY <1>2, <2>1 DEF ListsInv, BundleList
<1>4. pub.lists \in [BundleList -> Copies]
  <2>1. PICK S \in SUBSET BundleList : pub.lists \in [S -> Copies]
    BY <1>2 DEF Builds, Listings
  <2> QED BY <1>3, <2>1
<1>5. AliasMode \in Modes /\ (AliasMode = "enriched" => "records-only" \notin pub.reports)
  BY DEF AliasMode, Modes
<1>6. origin' \in Origins
  BY <1>1, <1>2, <1>4, <1>5 DEF Origins, Builds
<1>7. \A l \in BundleList : Good(pub.lists[l], l \in pub.carried)
  BY <1>2, <1>3 DEF ListsInv
<1>8. OriginInv'
  <2>1. ASSUME NEW l \in BundleList PROVE NotYounger(pub.lists[l], clock)
    <3> DEFINE carried == l \in pub.carried
    <3>1. carried \in BOOLEAN /\ Good(pub.lists[l], carried)
      BY <1>7
    <3> HIDE DEF carried
    <3> QED BY <3>1, GoodOpens
  <2>2. AliasMode = "enriched" => \A l \in Enriching \ pub.carried : pub.lists[l].aliased
    BY <1>2, <1>3, <1>5, BuildAssumption DEF ListsInv
  <2> QED BY <1>1, <1>7, <2>1, <2>2 DEF OriginInv
<1>9. ListsInv'
  BY <1>1, RestingFacts, EmptyLists
<1> QED BY <1>1, <1>6, <1>8, <1>9, RestingFacts DEF BuildInv

\* A build that ends without a bundle.
LEMMA RestKeeps ==
  ASSUME BuildInv, pub' = Resting, UNCHANGED <<clock, origin, builds>>
  PROVE  BuildInv'
<1>1. ListsInv'
  BY RestingFacts, EmptyLists
<1> QED BY <1>1, RestingFacts DEF BuildInv, OriginInv

LEMMA BeginsBuildKeeps == ASSUME BuildInv, BuildBegins PROVE BuildInv'
<1>1. PICK carries \in BOOLEAN, c \in Ceilings :
        pub' = [Resting EXCEPT !.phase = "list", !.carries = carries, !.ceiling = c]
  BY DEF BuildBegins
<1>2. c \in Nat \cup {Null}
  BY BuildAssumption
<1> DEFINE q1 == [Resting EXCEPT !.phase = "list"]
           q2 == [q1 EXCEPT !.carries = carries]
           q3 == [q2 EXCEPT !.ceiling = c]
<1>3. pub' = q3
  BY <1>1
<1>4. q1 \in Builds /\ q1.phase = "list" /\ q1.next = 1 /\ DOMAIN q1.lists = {} /\ q1.carried = {}
  BY RestingFacts DEF Builds
<1> HIDE DEF q1
<1>5. q2 \in Builds /\ q2.phase = "list" /\ q2.next = 1 /\ DOMAIN q2.lists = {} /\ q2.carried = {}
  BY <1>4 DEF Builds
<1> HIDE DEF q2
<1>6. q3 \in Builds /\ q3.phase = "list" /\ q3.next = 1 /\ DOMAIN q3.lists = {} /\ q3.carried = {}
  BY <1>2, <1>5 DEF Builds
<1> HIDE DEF q3
<1>7. ListsInv'
  BY <1>3, <1>6, EmptyLists
<1>8. builds' \in 0..MaxBuilds
  BY BuildBounds DEF BuildBegins, BuildInv
<1> QED BY <1>3, <1>6, <1>7, <1>8 DEF BuildBegins, BuildInv, OriginInv

\* The build moves on and stages nothing: a source begins, or gives way to its live copy.
LEMMA MovesKeeps ==
  ASSUME BuildInv, NEW phase \in {"fetching", "carrying"}, NEW stamp \in Nat, stamp <= clock,
         NEW reports \in SUBSET Modes, pub.reports \subseteq reports, pub.next <= Len(Sources),
         pub' \in Builds, pub'.phase = phase, pub'.stamp = stamp, pub'.reports = reports,
         pub'.next = pub.next, pub'.lists = pub.lists, pub'.carried = pub.carried,
         UNCHANGED <<clock, origin, builds>>
  PROVE  BuildInv'
<1>1. ListsInv'
  BY DEF BuildInv, ListsInv
<1> QED BY <1>1 DEF BuildInv, OriginInv

LEMMA SourceBeginsKeeps == ASSUME BuildInv, SourceBegins PROVE BuildInv'
<1>1. /\ pub.next <= Len(Sources) /\ UNCHANGED <<clock, origin, builds>>
      /\ pub' = [pub EXCEPT !.phase = "fetching", !.stamp = clock]
  BY DEF SourceBegins
<1>2. pub \in Builds /\ clock \in Nat /\ clock <= clock
  BY BuildBounds DEF BuildInv, Instant
<1> DEFINE q1 == [pub EXCEPT !.phase = "fetching"]
           q2 == [q1 EXCEPT !.stamp = clock]
<1>3. /\ q1 \in Builds /\ q1.phase = "fetching" /\ q1.next = pub.next /\ q1.lists = pub.lists
      /\ q1.carried = pub.carried /\ q1.reports = pub.reports
  BY <1>2 DEF Builds
<1> HIDE DEF q1
<1>4. /\ q2 \in Builds /\ q2.phase = "fetching" /\ q2.next = pub.next /\ q2.lists = pub.lists
      /\ q2.carried = pub.carried /\ q2.reports = pub.reports /\ q2.stamp = clock
  BY <1>2, <1>3 DEF Builds
<1>5. pub' = q2 /\ pub.reports \in SUBSET Modes
  BY <1>1, <1>2 DEF Builds, q1
<1> HIDE DEF q2
<1> QED BY <1>1, <1>2, <1>4, <1>5, MovesKeeps

LEMMA SourceFailedKeeps ==
  ASSUME BuildInv, pub.phase = "fetching", NEW reports \in SUBSET Modes, pub.reports \subseteq reports,
         SourceFailed(reports), UNCHANGED <<clock, origin, builds>>
  PROVE  BuildInv'
<1>1. pub \in Builds /\ pub.stamp \in Nat /\ pub.stamp <= clock /\ pub.next <= Len(Sources)
  BY DEF BuildInv, ListsInv, Builds
<1> DEFINE q1 == [pub EXCEPT !.phase = "carrying"]
           q2 == [q1 EXCEPT !.reports = reports]
<1>2. pub' = q2 \/ pub' = Resting
  BY DEF SourceFailed
<1>3. /\ q1 \in Builds /\ q1.phase = "carrying" /\ q1.next = pub.next /\ q1.lists = pub.lists
      /\ q1.carried = pub.carried /\ q1.stamp = pub.stamp
  BY <1>1 DEF Builds
<1> HIDE DEF q1
<1>4. /\ q2 \in Builds /\ q2.phase = "carrying" /\ q2.next = pub.next /\ q2.lists = pub.lists
      /\ q2.carried = pub.carried /\ q2.reports = reports /\ q2.stamp = pub.stamp
  BY <1>3 DEF Builds
<1> HIDE DEF q2
<1>5. CASE pub' = q2
  BY <1>1, <1>4, <1>5, MovesKeeps
<1> QED BY <1>2, <1>5, RestKeeps

LEMMA BuildStepInv == BuildInv /\ [BuildNext]_buildVars => BuildInv'
<1> SUFFICES ASSUME BuildInv, [BuildNext]_buildVars PROVE BuildInv'
  OBVIOUS
<1>0. pub.reports \in SUBSET Modes
  BY DEF BuildInv, Builds
<1>1. CASE ClockTicks
  <2>1. clock' \in Instant /\ clock \in Nat /\ clock' = clock + 1 /\ UNCHANGED <<pub, origin, builds>>
    BY <1>1, BuildBounds DEF ClockTicks, BuildInv, Instant
  <2>2. pub.stamp \in Nat
    BY DEF BuildInv, Builds
  <2>3. ListsInv'
    BY <2>1, <2>2 DEF BuildInv, ListsInv
  <2> QED BY <2>1, <2>3 DEF BuildInv, OriginInv
<1>2. CASE SourceNotRefreshed
  BY <1>0, <1>2, SourceFailedKeeps DEF SourceNotRefreshed, PubAt
<1>3. CASE StagingFails
  <2>1. PICK ok \in BOOLEAN : SourceFailed(EnrichReports(ok))
    BY <1>3 DEF StagingFails
  <2>2. EnrichReports(ok) \in SUBSET Modes /\ pub.reports \subseteq EnrichReports(ok)
    BY <1>0 DEF EnrichReports, Modes
  <2> QED BY <1>3, <2>1, <2>2, SourceFailedKeeps DEF StagingFails, PubAt
<1>4. CASE CarryRefused \/ BuildFails
  BY <1>4, RestKeeps DEF CarryRefused, BuildFails
<1>5. CASE UNCHANGED buildVars
  BY <1>5 DEF buildVars, BuildInv, ListsInv, OriginInv
<1> QED BY <1>1, <1>2, <1>3, <1>4, <1>5, BeginsBuildKeeps, SourceBeginsKeeps, RefreshedKeeps,
           RecarriesKeeps, PublishedKeeps DEF BuildNext

LEMMA BuildAlways == BuildSpec => []BuildInv
BY BuildInitInv, BuildStepInv, PTL DEF BuildSpec

\* A build is at one of its steps, with lists of the sources only (buildRealBundle.ts).
THEOREM BuildTypeCorrect == BuildSpec => []BuildTypeOK
<1>1. BuildInv => BuildTypeOK
  <2> SUFFICES ASSUME BuildInv PROVE BuildTypeOK
    OBVIOUS
  <2>1. DOMAIN pub.lists \subseteq BundleList
    BY BuildBounds DEF BuildInv, ListsInv, BundleList
  <2>2. DOMAIN origin.lists = BundleList /\ origin.carried \subseteq BundleList
    BY DEF BuildInv, Origins
  <2>3. pub.phase \in {"idle", "list", "fetching", "carrying"}
    BY DEF BuildInv, Builds
  <2> QED BY <2>1, <2>2, <2>3 DEF BuildInv, ListsInv, BuildTypeOK
<1> QED BY <1>1, BuildAlways, PTL

\* Through any number of builds and carries, over whatever was live before: a bundle of this
\* pipeline opens, no list in it looks younger than its records, a list looks stale if and
\* only if it was carried, and the aliases are where the bundle says they are
\* (watchlist.ts:156-165, buildRealBundle.ts:114-116).
THEOREM BundlesSayWhatTheyAre == BuildSpec => []BundleSaysWhatItIs
<1>1. BuildInv => BundleSaysWhatItIs
  <2> SUFFICES ASSUME BuildInv, origin.ours PROVE
        /\ BundleOpens(origin)
        /\ \A l \in BundleList :
             /\ OpenedList(origin, l).age.at <= origin.lists[l].obtained
             /\ OpenedList(origin, l).stale <=> l \in origin.carried
        /\ origin.mode = "enriched" => \A l \in Enriching \ origin.carried : origin.lists[l].aliased
    BY DEF BundleSaysWhatItIs
  <2>1. ASSUME NEW l \in BundleList
        PROVE  /\ OpenedList(origin, l) # Null
               /\ OpenedList(origin, l).age.at <= origin.lists[l].obtained
               /\ OpenedList(origin, l).stale <=> l \in origin.carried
    <3> DEFINE carried == l \in origin.carried
    <3>1. carried \in BOOLEAN /\ Good(origin.lists[l], carried)
      BY DEF BuildInv, OriginInv
    <3> HIDE DEF carried
    <3>2. /\ ResolveListFreshness(origin.lists[l], origin.made) # Null
          /\ ResolveListFreshness(origin.lists[l], origin.made).age.at = origin.lists[l].fetchedAt
          /\ ResolveListFreshness(origin.lists[l], origin.made).stale <=> carried
      BY <3>1, GoodOpens
    <3>3. origin.lists[l].fetchedAt <= origin.lists[l].obtained
      BY <3>1 DEF Good
    <3> QED BY <3>2, <3>3 DEF OpenedList, carried
  <2>2. origin.mode = "enriched" => \A l \in Enriching \ origin.carried : origin.lists[l].aliased
    BY DEF BuildInv, OriginInv
  <2> QED BY <2>1, <2>2 DEF BundleOpens
<1> QED BY <1>1, BuildAlways, PTL

-----------------------------------------------------------------------------
(* The alert.                                                                *)

Issues == [open : BOOLEAN, list : SUBSET Watched]
Jobs ==
  [phase : {"idle", "listing", "labelling", "creating", "commenting", "updating"}, red : BOOLEAN,
   alone : BOOLEAN, issue : Nat, list : SUBSET Watched]
Told == [red : BOOLEAN, sure : BOOLEAN]

Planned(j) == job[j].phase \notin {"idle", "listing"}
Creating(j) == job[j].phase \in {"labelling", "creating"}
Rewriting(j) == job[j].phase \in {"commenting", "updating"}

AlertTypes ==
  /\ failing \subseteq Watched /\ flips \in 0..Flips /\ faults \in 0..Faults /\ overlaps \in 0..Overlaps
  /\ issues \in Seq(Issues) /\ job \in [AlertJob -> Jobs] /\ told \in [Watched -> Told]
  /\ \A j \in AlertJob : job[j].issue \in 0..Len(issues)

\* A plan puts its workflow on the list or takes it off; an issue is made for a red run only.
PlanInv(j) ==
  /\ Planned(j) => (Workflow(j) \in job[j].list <=> job[j].red)
  /\ Creating(j) => job[j].red
  /\ Rewriting(j) => job[j].issue \in DOMAIN issues

\* A job that is still alone finds what it has read.
AloneInv(j) ==
  UnderWay(j) /\ job[j].alone =>
    /\ \A k \in AlertJob : k # j => ~UnderWay(k)
    /\ Creating(j) => OpenIssues = {}
    /\ Rewriting(j) => job[j].issue \in OpenIssues

\* What was surely told of a workflow is so, and no plan of another workflow undoes it: it is
\* on the list of the one open issue, or on no list.
KeptOn(w, n) ==
  /\ OpenIssues = {n} /\ w \in issues[n].list
  /\ \A j \in AlertJob : Planned(j) /\ Workflow(j) # w =>
       Rewriting(j) /\ job[j].issue = n /\ w \in job[j].list
KeptOff(w) ==
  /\ \A n \in OpenIssues : w \notin issues[n].list
  /\ \A j \in AlertJob : Planned(j) /\ Workflow(j) # w => w \notin job[j].list
SureInv(w) ==
  told[w].sure => IF told[w].red THEN \E n \in DOMAIN issues : KeptOn(w, n) ELSE KeptOff(w)

AlertInv ==
  /\ AlertTypes
  /\ \A n \in OpenIssues : issues[n].list # {}
  /\ \A j \in AlertJob : PlanInv(j) /\ AloneInv(j)
  /\ \A w \in Watched : SureInv(w)

-----------------------------------------------------------------------------
(* The open issues.                                                          *)

\* The least of some numbers is one of them: the intervals from 0 are well-founded.
LEMMA LeastOf ==
  ASSUME NEW S \in SUBSET Nat, S # {}
  PROVE  Min(S) \in S /\ \A y \in S : Min(S) <= y
<1> DEFINE T == {0..x : x \in S}
<1>1. \A x \in Nat : 0..x \in FiniteSubsetsOf(Nat)
  BY FS_Interval DEF FiniteSubsetsOf
<1>2. T \subseteq FiniteSubsetsOf(Nat) /\ T # {}
  BY <1>1
<1> HIDE DEF T
<1>3. PICK t \in T : \A u \in T : ~ (<<u, t>> \in StrictSubsetOrdering(Nat))
  BY <1>2, FS_StrictSubsetOrderingWellFounded, WFMin
<1>4. PICK x \in S : t = 0..x
  BY <1>3 DEF T
<1>5. ASSUME NEW y \in S PROVE x <= y
  <2> SUFFICES ASSUME y < x PROVE FALSE
    OBVIOUS
  <2>1. 0..y \in T
    BY DEF T
  <2>2. 0..y \in SUBSET Nat /\ 0..x \in SUBSET Nat /\ 0..y \subseteq 0..x /\ x \in 0..x /\ x \notin 0..y
    OBVIOUS
  <2> QED BY <1>3, <1>4, <2>1, <2>2 DEF StrictSubsetOrdering
<1> QED BY <1>5 DEF Min

LEMMA CurrentFacts ==
  ASSUME AlertTypes
  PROVE  /\ OpenIssues \subseteq 1..Len(issues) /\ IsFiniteSet(OpenIssues) /\ Len(issues) \in Nat
         /\ OpenIssues = {} => Current(OpenIssues) = 0
         /\ OpenIssues # {} => Current(OpenIssues) \in OpenIssues
         /\ \A n \in DOMAIN issues : issues[n] \in Issues
<1>1. /\ OpenIssues \subseteq 1..Len(issues) /\ Len(issues) \in Nat
      /\ \A n \in DOMAIN issues : issues[n] \in Issues
  BY DEF AlertTypes, OpenIssues
<1>2. IsFiniteSet(OpenIssues)
  <2>1. IsFiniteSet(1..Len(issues))
    BY <1>1, FS_Interval
  <2> QED BY <1>1, <2>1, FS_Subset
<1>3. OpenIssues \in SUBSET Nat
  BY <1>1
<1> QED BY <1>1, <1>2, <1>3, LeastOf DEF Current

\* Of no more than one open issue, one that is open is the one.
LEMMA OneOpen ==
  ASSUME AlertTypes, Cardinality(OpenIssues) <= 1, NEW n \in OpenIssues
  PROVE  OpenIssues = {n}
<1>1. IsFiniteSet(OpenIssues \ {n}) /\ Cardinality(OpenIssues \ {n}) = Cardinality(OpenIssues) - 1
  BY CurrentFacts, FS_RemoveElement
<1>2. Cardinality(OpenIssues) \in Nat /\ Cardinality(OpenIssues \ {n}) \in Nat
  BY <1>1, CurrentFacts, FS_CardinalityType
<1>3. OpenIssues \ {n} = {}
  BY <1>1, <1>2, FS_EmptySet
<1> QED BY <1>3

-----------------------------------------------------------------------------
(* The steps.                                                                *)

LEMMA AlertInitInv == AlertInit => AlertInv
<1> SUFFICES ASSUME AlertInit PROVE AlertInv
  OBVIOUS
<1>1. NoPlan \in Jobs /\ NoPlan.phase = "idle" /\ NoPlan.issue = 0
  BY DEF NoPlan, Jobs
<1>2. issues = <<>> /\ Len(issues) = 0 /\ DOMAIN issues = {} /\ issues \in Seq(Issues)
  BY DEF AlertInit
<1>3. /\ job \in [AlertJob -> Jobs] /\ told \in [Watched -> Told]
      /\ \A j \in AlertJob : job[j] = NoPlan
      /\ \A w \in Watched : ~told[w].red
  BY <1>1 DEF AlertInit, Told
<1>4. AlertTypes
  BY <1>1, <1>2, <1>3, AlertAssumption DEF AlertInit, AlertTypes
<1>5. OpenIssues = {}
  BY <1>2 DEF OpenIssues
<1>6. \A j \in AlertJob : ~UnderWay(j) /\ ~Planned(j) /\ ~Creating(j) /\ ~Rewriting(j)
  BY <1>1, <1>3 DEF UnderWay, Planned, Creating, Rewriting
<1> QED BY <1>3, <1>4, <1>5, <1>6 DEF AlertInv, PlanInv, AloneInv, SureInv, KeptOff

\* The issues are appended to, or one that is there is written.
Appended(list) == issues' = Append(issues, [open |-> TRUE, list |-> list])
Rewritten(n, list, red) == issues' = [issues EXCEPT ![n] = Written(@, list, red)]

LEMMA AppendedFacts ==
  ASSUME AlertTypes, NEW list \in SUBSET Watched, Appended(list)
  PROVE  /\ issues' \in Seq(Issues) /\ Len(issues') = Len(issues) + 1
         /\ \A n \in DOMAIN issues : n \in DOMAIN issues' /\ issues'[n] = issues[n]
         /\ OpenIssues' = OpenIssues \cup {Len(issues) + 1} /\ Len(issues) + 1 \notin OpenIssues
         /\ Len(issues) + 1 \in DOMAIN issues' /\ issues'[Len(issues) + 1].list = list
<1> DEFINE new == [open |-> TRUE, list |-> list]
<1>1. new \in Issues /\ new.open /\ new.list = list /\ issues \in Seq(Issues)
  BY DEF Issues, AlertTypes
<1> HIDE DEF new
<1>2. issues' = Append(issues, new)
  BY DEF Appended, new
<1>3. /\ issues' \in Seq(Issues) /\ Len(issues') = Len(issues) + 1 /\ Len(issues) \in Nat
      /\ DOMAIN issues' = 1..Len(issues) + 1 /\ DOMAIN issues = 1..Len(issues)
      /\ \A n \in 1..Len(issues) : issues'[n] = issues[n]
      /\ issues'[Len(issues) + 1] = new
  BY <1>1, <1>2
<1>4. DOMAIN issues' = DOMAIN issues \cup {Len(issues) + 1} /\ Len(issues) + 1 \notin DOMAIN issues
  BY <1>3
<1>5. OpenIssues' = OpenIssues \cup {Len(issues) + 1}
  BY <1>1, <1>3, <1>4 DEF OpenIssues
<1> QED BY <1>1, <1>3, <1>4, <1>5 DEF OpenIssues

LEMMA JobFacts ==
  ASSUME AlertInv, NEW j \in AlertJob
  PROVE  /\ job[j] \in Jobs /\ Workflow(j) \in Watched /\ PlanInv(j) /\ AloneInv(j)
         /\ job[j].list \in SUBSET Watched /\ job[j].red \in BOOLEAN /\ job[j].alone \in BOOLEAN
         /\ job[j].issue \in 0..Len(issues)
<1>1. job[j] \in Jobs /\ PlanInv(j) /\ AloneInv(j) /\ job[j].issue \in 0..Len(issues)
  BY DEF AlertInv, AlertTypes
<1>2. Workflow(j) \in Watched
  BY AlertAssumption DEF Workflow
<1> QED BY <1>1, <1>2 DEF Jobs

LEMMA RewrittenFacts ==
  ASSUME AlertInv, NEW j \in AlertJob, Rewriting(j),
         Rewritten(job[j].issue, job[j].list, job[j].red)
  PROVE  /\ issues' \in Seq(Issues) /\ Len(issues') = Len(issues) /\ DOMAIN issues' = DOMAIN issues
         /\ job[j].issue \in DOMAIN issues
         /\ \A m \in DOMAIN issues : m # job[j].issue => issues'[m] = issues[m]
         /\ issues'[job[j].issue].list = job[j].list
         /\ OpenIssues' = IF job[j].red \/ job[j].list # {} THEN OpenIssues
                                                            ELSE OpenIssues \ {job[j].issue}
<1> DEFINE n == job[j].issue
           new == Written(issues[n], job[j].list, job[j].red)
<1>1. n \in DOMAIN issues /\ job[j].list \in SUBSET Watched /\ AlertTypes
  BY JobFacts DEF PlanInv, AlertInv
<1>2. issues \in Seq(Issues) /\ issues[n] \in Issues /\ issues[n].open \in BOOLEAN
  <2>1. issues \in Seq(Issues) /\ issues[n] \in Issues
    BY <1>1, CurrentFacts DEF AlertTypes
  <2> QED BY <2>1 DEF Issues
<1>3. /\ new \in Issues /\ new.list = job[j].list
      /\ (new.open <=> issues[n].open /\ (job[j].red \/ job[j].list # {}))
  <2>1. (issues[n].open /\ (job[j].red \/ job[j].list # {})) \in BOOLEAN
    OBVIOUS
  <2> QED BY <1>1, <2>1 DEF Written, Issues
<1>4. issues' = [issues EXCEPT ![n] = new]
  BY DEF Rewritten
<1> HIDE DEF new
<1>5. /\ issues' \in Seq(Issues) /\ Len(issues') = Len(issues) /\ DOMAIN issues' = DOMAIN issues
      /\ \A m \in DOMAIN issues : m # n => issues'[m] = issues[m]
      /\ issues'[n] = new
  BY <1>1, <1>2, <1>3, <1>4
<1>6. OpenIssues' = IF job[j].red \/ job[j].list # {} THEN OpenIssues ELSE OpenIssues \ {n}
  BY <1>1, <1>3, <1>5 DEF OpenIssues
<1> QED BY <1>1, <1>3, <1>5, <1>6

\* What the last request of a job makes of the issues.
Effect(j) ==
  \/ UNCHANGED issues
  \/ job[j].phase = "creating" /\ Appended(job[j].list)
  \/ job[j].phase = "updating" /\ Rewritten(job[j].issue, job[j].list, job[j].red)

LEMMA EffectFacts ==
  ASSUME AlertInv, NEW j \in AlertJob, Effect(j)
  PROVE  /\ issues' \in Seq(Issues) /\ Len(issues') \in Nat /\ Len(issues) <= Len(issues')
         /\ DOMAIN issues \subseteq DOMAIN issues'
         /\ \A n \in OpenIssues' : issues'[n].list # {}
<1>1. /\ AlertTypes /\ PlanInv(j) /\ job[j].list \in SUBSET Watched /\ job[j].red \in BOOLEAN
      /\ Len(issues) \in Nat /\ issues \in Seq(Issues)
      /\ \A n \in OpenIssues : n \in DOMAIN issues /\ issues[n].list # {}
  BY JobFacts DEF AlertInv, AlertTypes, OpenIssues
<1>2. CASE UNCHANGED issues
  BY <1>1, <1>2 DEF OpenIssues
<1>3. CASE job[j].phase = "creating" /\ Appended(job[j].list)
  <2>1. job[j].list # {}
    BY <1>1, <1>3 DEF PlanInv, Planned, Creating
  <2> QED BY <1>1, <1>3, <2>1, AppendedFacts
<1>4. CASE job[j].phase = "updating" /\ Rewritten(job[j].issue, job[j].list, job[j].red)
  <2>1. job[j].issue \in DOMAIN issues /\ (job[j].red => job[j].list # {})
    BY <1>1, <1>4 DEF PlanInv, Planned, Rewriting
  <2>2. /\ issues' \in Seq(Issues) /\ Len(issues') = Len(issues) /\ DOMAIN issues' = DOMAIN issues
        /\ \A m \in DOMAIN issues : m # job[j].issue => issues'[m] = issues[m]
        /\ issues'[job[j].issue].list = job[j].list
        /\ OpenIssues' = IF job[j].red \/ job[j].list # {} THEN OpenIssues ELSE OpenIssues \ {job[j].issue}
    BY <1>4, RewrittenFacts DEF Rewriting
  <2> QED BY <1>1, <2>1, <2>2
<1> QED BY <1>2, <1>3, <1>4 DEF Effect

\* The end of one workflow's job undoes nothing that was surely told of another.
LEMMA OthersStaySure ==
  ASSUME AlertInv, NEW j \in AlertJob, Effect(j), job' = [job EXCEPT ![j] = NoPlan],
         NEW w \in Watched, w # Workflow(j), told'[w] = told[w]
  PROVE  SureInv(w)'
<1>1. /\ AlertTypes /\ PlanInv(j) /\ job[j].list \in SUBSET Watched /\ job[j].red \in BOOLEAN
      /\ SureInv(w) /\ Len(issues) \in Nat /\ DOMAIN issues = 1..Len(issues)
  BY JobFacts DEF AlertInv, AlertTypes
<1>2. \A k \in AlertJob : IF k = j THEN job'[k] = NoPlan ELSE job'[k] = job[k]
  BY <1>1 DEF AlertTypes
<1>3. \A k \in AlertJob : Planned(k)' => k # j /\ Planned(k) /\ job'[k] = job[k]
  BY <1>2 DEF Planned, NoPlan
<1>4. ASSUME told[w].sure, told[w].red PROVE \E n \in DOMAIN issues' : KeptOn(w, n)'
  <2>1. PICK n \in DOMAIN issues : KeptOn(w, n)
    BY <1>1, <1>4 DEF SureInv
  <2>2. Planned(j) => Rewriting(j) /\ job[j].issue = n /\ w \in job[j].list
    BY <2>1 DEF KeptOn
  <2>3. n \in DOMAIN issues' /\ OpenIssues' = {n} /\ w \in issues'[n].list
    <3>1. CASE UNCHANGED issues
      BY <2>1, <3>1 DEF KeptOn, OpenIssues
    <3>2. CASE job[j].phase = "creating" /\ Appended(job[j].list)
      BY <2>2, <3>2 DEF Planned, Rewriting
    <3>3. CASE job[j].phase = "updating" /\ Rewritten(job[j].issue, job[j].list, job[j].red)
      <4>1. job[j].issue = n /\ w \in job[j].list
        BY <2>2, <3>3 DEF Planned
      <4>2. /\ DOMAIN issues' = DOMAIN issues /\ issues'[n].list = job[j].list
            /\ OpenIssues' = IF job[j].red \/ job[j].list # {} THEN OpenIssues ELSE OpenIssues \ {n}
        BY <2>1, <3>3, <4>1, RewrittenFacts DEF KeptOn, Rewriting
      <4> QED BY <2>1, <4>1, <4>2 DEF KeptOn
    <3> QED BY <3>1, <3>2, <3>3 DEF Effect
  <2>4. \A k \in AlertJob : Planned(k)' /\ Workflow(k) # w =>
          Rewriting(k)' /\ job'[k].issue = n /\ w \in job'[k].list
    BY <1>3, <2>1 DEF KeptOn, Rewriting
  <2> QED BY <2>3, <2>4 DEF KeptOn
<1>5. ASSUME told[w].sure, ~told[w].red PROVE KeptOff(w)'
  <2>1. KeptOff(w)
    BY <1>1, <1>5 DEF SureInv
  <2>2. Planned(j) => w \notin job[j].list
    BY <2>1 DEF KeptOff
  <2>3. \A n \in OpenIssues' : w \notin issues'[n].list
    <3>0. \A n \in OpenIssues : n \in DOMAIN issues /\ w \notin issues[n].list
      BY <2>1 DEF KeptOff, OpenIssues
    <3>1. CASE UNCHANGED issues
      BY <3>0, <3>1 DEF OpenIssues
    <3>2. CASE job[j].phase = "creating" /\ Appended(job[j].list)
      BY <1>1, <2>2, <3>0, <3>2, AppendedFacts DEF Planned
    <3>3. CASE job[j].phase = "updating" /\ Rewritten(job[j].issue, job[j].list, job[j].red)
      <4> DEFINE i == job[j].issue
      <4>1. w \notin job[j].list /\ i \in DOMAIN issues
        BY <1>1, <2>2, <3>3 DEF Planned, PlanInv, Rewriting
      <4>2. /\ \A m \in DOMAIN issues : m # i => issues'[m] = issues[m]
            /\ issues'[i].list = job[j].list /\ OpenIssues' \subseteq OpenIssues
        BY <3>3, RewrittenFacts DEF Rewriting
      <4> QED BY <3>0, <4>1, <4>2
    <3> QED BY <3>1, <3>2, <3>3 DEF Effect
  <2>4. \A k \in AlertJob : Planned(k)' /\ Workflow(k) # w => w \notin job'[k].list
    BY <1>3, <2>1 DEF KeptOff
  <2> QED BY <2>3, <2>4 DEF KeptOff
<1> QED BY <1>4, <1>5 DEF SureInv

\* A job ends. What it tells is sure if what it was for has come about.
LEMMA EndKeeps ==
  ASSUME AlertInv, NEW j \in AlertJob, UnderWay(j), Effect(j), NEW answered \in BOOLEAN,
         Ends(j, answered), UNCHANGED <<failing, flips, overlaps>>, faults' \in 0..Faults,
         answered /\ job[j].alone /\ Cardinality(OpenIssues) <= 1 =>
           IF job[j].red
           THEN \E n \in DOMAIN issues' : OpenIssues' = {n} /\ Workflow(j) \in issues'[n].list
           ELSE \A n \in OpenIssues' : Workflow(j) \notin issues'[n].list
  PROVE  AlertInv'
<1> DEFINE w == Workflow(j)
           sure == answered /\ job[j].alone /\ Cardinality(OpenIssues) <= 1
<1>1. /\ AlertTypes /\ job[j] \in Jobs /\ w \in Watched /\ AloneInv(j)
      /\ job[j].red \in BOOLEAN /\ job[j].alone \in BOOLEAN
      /\ job \in [AlertJob -> Jobs] /\ told \in [Watched -> Told]
  BY JobFacts DEF AlertInv, AlertTypes
<1>2. /\ job' = [job EXCEPT ![j] = NoPlan]
      /\ told' = [told EXCEPT ![w] = [red |-> job[j].red, sure |-> sure]]
  BY DEF Ends
<1>3. NoPlan \in Jobs /\ NoPlan.phase = "idle" /\ NoPlan.issue = 0
  BY DEF NoPlan, Jobs
<1>4. sure \in BOOLEAN
  BY <1>1
<1> HIDE DEF sure
<1>5. /\ \A k \in AlertJob : IF k = j THEN job'[k] = NoPlan ELSE job'[k] = job[k]
      /\ \A v \in Watched : v # w => told'[v] = told[v]
      /\ told'[w] = [red |-> job[j].red, sure |-> sure]
      /\ job' \in [AlertJob -> Jobs] /\ told' \in [Watched -> Told]
  BY <1>1, <1>2, <1>3, <1>4 DEF Told
<1>6. /\ issues' \in Seq(Issues) /\ Len(issues') \in Nat /\ Len(issues) <= Len(issues')
      /\ DOMAIN issues \subseteq DOMAIN issues' /\ Len(issues) \in Nat
      /\ \A n \in OpenIssues' : issues'[n].list # {}
  BY <1>1, EffectFacts, CurrentFacts
<1>7. AlertTypes'
  <2>1. \A k \in AlertJob : job'[k].issue \in 0..Len(issues')
    BY <1>1, <1>3, <1>5, <1>6 DEF AlertTypes
  <2> QED BY <1>1, <1>5, <1>6, <2>1 DEF AlertTypes
<1>8. ASSUME NEW k \in AlertJob PROVE PlanInv(k)' /\ AloneInv(k)'
  <2>1. CASE k = j
    BY <1>3, <1>5, <2>1 DEF PlanInv, AloneInv, Planned, Creating, Rewriting, UnderWay
  <2>2. CASE k # j
    <3>1. job'[k] = job[k] /\ PlanInv(k) /\ AloneInv(k)
      BY <1>5, <2>2 DEF AlertInv
    <3>2. ~ (UnderWay(k) /\ job[k].alone)
      BY <2>2, <3>1 DEF AloneInv
    <3> QED BY <1>6, <3>1, <3>2 DEF PlanInv, AloneInv, Planned, Creating, Rewriting, UnderWay
  <2> QED BY <2>1, <2>2
<1>9. ASSUME NEW v \in Watched PROVE SureInv(v)'
  <2>1. CASE v # w
    BY <1>2, <1>5, <2>1, OthersStaySure
  <2>2. CASE v = w
    <3> SUFFICES ASSUME sure
                 PROVE  IF job[j].red THEN \E n \in DOMAIN issues' : KeptOn(w, n)' ELSE KeptOff(w)'
      BY <1>5, <2>2 DEF SureInv
    <3>1. \A k \in AlertJob : ~Planned(k)'
      <4>1. \A k \in AlertJob : k # j => ~UnderWay(k)
        BY <1>1 DEF AloneInv, sure
      <4> QED BY <1>3, <1>5, <4>1 DEF Planned, UnderWay
    <3>2. IF job[j].red
          THEN \E n \in DOMAIN issues' : OpenIssues' = {n} /\ w \in issues'[n].list
          ELSE \A n \in OpenIssues' : w \notin issues'[n].list
      BY DEF sure
    <3> QED BY <3>1, <3>2 DEF KeptOn, KeptOff
  <2> QED BY <2>1, <2>2
<1> QED BY <1>6, <1>7, <1>8, <1>9 DEF AlertInv

LEMMA FaultBound == ASSUME AlertInv PROVE faults \in 0..Faults /\ (Faulted => faults' \in 0..Faults)
BY AlertAssumption DEF AlertInv, AlertTypes, Faulted

\* The plan of a green run that is not on the list is to do nothing.
LEMMA ListsEnds ==
  ASSUME AlertInv, NEW j \in AlertJob, job[j].phase = "listing", Ends(j, TRUE), ~job[j].red,
         Workflow(j) \notin IF Current(OpenIssues) = 0 THEN {} ELSE issues[Current(OpenIssues)].list,
         UNCHANGED <<failing, flips, faults, overlaps, issues>>
  PROVE  AlertInv'
<1>1. AlertTypes /\ UnderWay(j)
  BY DEF AlertInv, UnderWay
<1>2. ASSUME Cardinality(OpenIssues) <= 1, NEW n \in OpenIssues PROVE Workflow(j) \notin issues[n].list
  <2>1. OpenIssues = {n}
    BY <1>1, <1>2, OneOpen
  <2>2. Current(OpenIssues) = n /\ n # 0
    BY <1>1, <2>1, CurrentFacts
  <2> QED BY <2>2
<1>3. OpenIssues' = OpenIssues
  BY DEF OpenIssues
<1>4. Cardinality(OpenIssues) <= 1 => \A n \in OpenIssues' : Workflow(j) \notin issues'[n].list
  BY <1>2, <1>3
<1> QED BY <1>1, <1>4, EndKeeps, FaultBound DEF Effect

\* A job goes on, as it has planned.
LEMMA GoesKeeps ==
  ASSUME AlertInv, NEW j \in AlertJob, NEW p \in Jobs, job' = [job EXCEPT ![j] = p],
         p.phase # "idle", p.alone = job[j].alone, p.issue \in 0..Len(issues), UnderWay(j),
         UNCHANGED <<failing, flips, faults, overlaps, issues, told>>,
         PlanInv(j)', job[j].alone /\ Creating(j)' => OpenIssues = {},
         job[j].alone /\ Rewriting(j)' => p.issue \in OpenIssues,
         ASSUME NEW w \in Watched, w # Workflow(j), NEW n, KeptOn(w, n), Planned(j)'
         PROVE  Rewriting(j)' /\ p.issue = n /\ w \in p.list,
         ASSUME NEW w \in Watched, w # Workflow(j), KeptOff(w), Planned(j)'
         PROVE  w \notin p.list
  PROVE  AlertInv'
<1>1. AlertTypes /\ job \in [AlertJob -> Jobs]
  BY DEF AlertInv, AlertTypes
<1>2. /\ job' \in [AlertJob -> Jobs] /\ job'[j] = p
      /\ \A k \in AlertJob : k # j => job'[k] = job[k]
  BY <1>1
<1>3. OpenIssues' = OpenIssues
  BY DEF OpenIssues
<1>4. AlertTypes'
  BY <1>1, <1>2 DEF AlertTypes
<1>5. ASSUME NEW k \in AlertJob PROVE PlanInv(k)' /\ AloneInv(k)'
  <2>1. CASE k = j
    <3>1. (UnderWay(j) /\ job[j].alone)' => \A m \in AlertJob : m # j => ~UnderWay(m)'
      BY <1>2 DEF AlertInv, AloneInv, UnderWay
    <3> QED BY <1>2, <1>3, <2>1, <3>1 DEF AloneInv
  <2>2. CASE k # j
    <3>1. job'[k] = job[k] /\ PlanInv(k) /\ AloneInv(k)
      BY <1>2, <2>2 DEF AlertInv
    <3>2. ~ (UnderWay(k) /\ job[k].alone)
      BY <2>2, <3>1 DEF AloneInv
    <3> QED BY <3>1, <3>2 DEF PlanInv, AloneInv, Planned, Creating, Rewriting, UnderWay
  <2> QED BY <2>1, <2>2
<1>6. ASSUME NEW w \in Watched PROVE SureInv(w)'
  <2>1. SureInv(w) /\ told'[w] = told[w]
    BY DEF AlertInv
  <2>2. ASSUME NEW n \in DOMAIN issues, KeptOn(w, n) PROVE KeptOn(w, n)'
    <3>1. ASSUME NEW k \in AlertJob, Planned(k)', Workflow(k) # w
          PROVE  Rewriting(k)' /\ job'[k].issue = n /\ w \in job'[k].list
      <4>1. CASE k = j
        BY <1>2, <2>2, <3>1, <4>1
      <4>2. CASE k # j
        BY <1>2, <2>2, <3>1, <4>2 DEF KeptOn, Planned, Rewriting
      <4> QED BY <4>1, <4>2
    <3> QED BY <1>3, <2>2, <3>1 DEF KeptOn
  <2>3. ASSUME KeptOff(w) PROVE KeptOff(w)'
    <3>1. ASSUME NEW k \in AlertJob, Planned(k)', Workflow(k) # w PROVE w \notin job'[k].list
      <4>1. CASE k = j
        BY <1>2, <2>3, <3>1, <4>1
      <4>2. CASE k # j
        BY <1>2, <2>3, <3>1, <4>2 DEF KeptOff, Planned
      <4> QED BY <4>1, <4>2
    <3> QED BY <1>3, <2>3, <3>1 DEF KeptOff
  <2> QED BY <2>1, <2>2, <2>3 DEF SureInv
<1>7. \A n \in OpenIssues' : issues'[n].list # {}
  BY <1>3 DEF AlertInv
<1> QED BY <1>4, <1>5, <1>6, <1>7 DEF AlertInv

LEMMA ListsKeeps == ASSUME AlertInv, NEW j \in AlertJob, Lists(j) PROVE AlertInv'
<1> DEFINE n == Current(OpenIssues)
           list == IF n = 0 THEN {} ELSE issues[n].list
           w == Workflow(j)
           next == Changed(list, w, job[j].red)
           q1 == [job[j] EXCEPT !.phase = IF n = 0 THEN "labelling" ELSE "commenting"]
           q2 == [q1 EXCEPT !.issue = n]
           p == [q2 EXCEPT !.list = next]
<1>1. /\ job[j].phase = "listing" /\ UNCHANGED <<failing, flips, faults, overlaps, issues>>
      /\ IF ~job[j].red /\ w \notin list THEN Ends(j, TRUE)
         ELSE /\ job' = [job EXCEPT ![j].phase = IF n = 0 THEN "labelling" ELSE "commenting",
                                    ![j].issue = n, ![j].list = next]
              /\ UNCHANGED told
  BY DEF Lists
<1>2. /\ AlertTypes /\ job[j] \in Jobs /\ w \in Watched /\ PlanInv(j) /\ AloneInv(j) /\ UnderWay(j)
      /\ job[j].red \in BOOLEAN /\ job \in [AlertJob -> Jobs]
  BY <1>1, JobFacts DEF AlertInv, AlertTypes, UnderWay
<1>3. /\ n \in 0..Len(issues) /\ (n = 0 <=> OpenIssues = {})
      /\ n # 0 => n \in OpenIssues /\ n \in DOMAIN issues /\ issues[n] \in Issues
  BY <1>2, CurrentFacts DEF OpenIssues
<1>4. CASE ~job[j].red /\ w \notin list
  BY <1>1, <1>4, ListsEnds
<1>5. CASE job[j].red \/ w \in list
  <2>1. list \in SUBSET Watched /\ next \in SUBSET Watched /\ (w \in next <=> job[j].red)
        /\ \A v \in Watched : v # w => (v \in next <=> v \in list)
    BY <1>2, <1>3 DEF Issues, Changed
  <2>2. n = 0 => job[j].red
    BY <1>5
  <2> HIDE DEF n, list, next
  <2>3. q1 \in Jobs /\ q1.phase = (IF n = 0 THEN "labelling" ELSE "commenting")
        /\ q1.red = job[j].red /\ q1.alone = job[j].alone
    BY <1>2 DEF Jobs
  <2> HIDE DEF q1
  <2>4. q2 \in Jobs /\ q2.phase = (IF n = 0 THEN "labelling" ELSE "commenting")
        /\ q2.red = job[j].red /\ q2.alone = job[j].alone /\ q2.issue = n
    BY <2>3, <1>3, <1>2, CurrentFacts DEF Jobs
  <2> HIDE DEF q2
  <2>5. p \in Jobs /\ p.phase = (IF n = 0 THEN "labelling" ELSE "commenting")
        /\ p.red = job[j].red /\ p.alone = job[j].alone /\ p.issue = n /\ p.list = next
    BY <2>1, <2>4 DEF Jobs
  <2>6. job' = [job EXCEPT ![j] = p]
    BY <1>1, <1>5 DEF p, q2, q1, list
  <2> HIDE DEF p
  <2>7. job'[j] = p
    BY <1>2, <2>6
  <2>8. PlanInv(j)'
    BY <1>1, <1>3, <2>1, <2>2, <2>5, <2>7 DEF PlanInv, Planned, Creating, Rewriting
  <2>9. (Creating(j)' => OpenIssues = {}) /\ (Rewriting(j)' => p.issue \in OpenIssues)
    BY <1>3, <2>5, <2>7 DEF Creating, Rewriting
  <2>10. ASSUME NEW v \in Watched, v # w, NEW m, KeptOn(v, m)
         PROVE  Rewriting(j)' /\ p.issue = m /\ v \in p.list
    <3>1. OpenIssues = {m} /\ v \in issues[m].list
      BY <2>10 DEF KeptOn
    <3>2. n = m /\ n # 0
      BY <1>3, <3>1
    <3>3. v \in list
      BY <3>1, <3>2 DEF list
    <3> QED BY <2>1, <2>5, <2>7, <2>10, <3>2, <3>3 DEF Rewriting
  <2>11. ASSUME NEW v \in Watched, v # w, KeptOff(v) PROVE v \notin p.list
    <3>1. v \notin list
      BY <1>3, <2>11 DEF KeptOff, list
    <3> QED BY <2>1, <2>5, <2>11, <3>1
  <2>12. p.phase # "idle" /\ p.issue \in 0..Len(issues) /\ UNCHANGED told
    BY <1>1, <1>3, <1>5, <2>5 DEF list
  <2> QED BY <1>1, <1>2, <2>5, <2>6, <2>8, <2>9, <2>10, <2>11, <2>12, GoesKeeps
<1> QED BY <1>4, <1>5

\* The label, and the comment, before the issue itself is made or written.
LEMMA GoesOnKeeps ==
  ASSUME AlertInv, NEW j \in AlertJob, Labels(j) \/ Comments(j)
  PROVE  AlertInv'
<1> DEFINE next == IF job[j].phase = "labelling" THEN "creating" ELSE "updating"
           p == [job[j] EXCEPT !.phase = next]
<1>1. /\ job[j].phase \in {"labelling", "commenting"} /\ job' = [job EXCEPT ![j] = p]
      /\ UNCHANGED <<failing, flips, faults, overlaps, issues, told>>
  BY DEF Labels, Comments, Goes
<1>2. /\ job[j] \in Jobs /\ job \in [AlertJob -> Jobs] /\ PlanInv(j) /\ AloneInv(j) /\ UnderWay(j)
      /\ job[j].issue \in 0..Len(issues)
  BY <1>1, JobFacts DEF AlertInv, AlertTypes, UnderWay
<1>3. /\ p \in Jobs /\ p.phase = next /\ p.red = job[j].red /\ p.alone = job[j].alone
      /\ p.issue = job[j].issue /\ p.list = job[j].list
  BY <1>2 DEF Jobs
<1> HIDE DEF p
<1>4. job'[j] = p
  BY <1>1, <1>2
<1>5. Planned(j) /\ (Creating(j)' <=> Creating(j)) /\ (Rewriting(j)' <=> Rewriting(j))
  BY <1>1, <1>3, <1>4 DEF Planned, Creating, Rewriting
<1>6. PlanInv(j)'
  BY <1>1, <1>2, <1>3, <1>4, <1>5 DEF PlanInv
<1>7. /\ job[j].alone /\ Creating(j)' => OpenIssues = {}
      /\ job[j].alone /\ Rewriting(j)' => p.issue \in OpenIssues
  BY <1>2, <1>3, <1>5 DEF AloneInv
<1>8. ASSUME NEW w \in Watched, w # Workflow(j), NEW n, KeptOn(w, n)
      PROVE  Rewriting(j)' /\ p.issue = n /\ w \in p.list
  BY <1>3, <1>5, <1>8 DEF KeptOn
<1>9. ASSUME NEW w \in Watched, w # Workflow(j), KeptOff(w) PROVE w \notin p.list
  BY <1>3, <1>5, <1>9 DEF KeptOff
<1>10. p.phase # "idle"
  BY <1>3
<1> QED BY <1>1, <1>2, <1>3, <1>6, <1>7, <1>8, <1>9, <1>10, GoesKeeps

\* The issue is made.
LEMMA CreatesKeeps ==
  ASSUME AlertInv, NEW j \in AlertJob, job[j].phase = "creating", Opened(job[j].list),
         NEW answered \in BOOLEAN, Ends(j, answered), UNCHANGED <<failing, flips, overlaps>>,
         faults' \in 0..Faults
  PROVE  AlertInv'
<1>1. /\ AlertTypes /\ PlanInv(j) /\ AloneInv(j) /\ UnderWay(j) /\ Creating(j) /\ Planned(j)
      /\ job[j].list \in SUBSET Watched /\ Appended(job[j].list)
  BY JobFacts DEF AlertInv, UnderWay, Creating, Planned, Opened, Appended
<1>2. job[j].red /\ Workflow(j) \in job[j].list
  BY <1>1 DEF PlanInv
<1> DEFINE new == Len(issues) + 1
<1>3. OpenIssues' = OpenIssues \cup {new} /\ new \in DOMAIN issues' /\ issues'[new].list = job[j].list
  BY <1>1, AppendedFacts
<1>4. job[j].alone => \E n \in DOMAIN issues' : OpenIssues' = {n} /\ Workflow(j) \in issues'[n].list
  <2> HIDE DEF new
  <2> QED BY <1>1, <1>2, <1>3 DEF AloneInv
<1>5. Effect(j)
  BY <1>1 DEF Effect
<1> QED BY <1>1, <1>2, <1>4, <1>5, EndKeeps

\* The issue is written, or closed.
LEMMA UpdatesKeeps ==
  ASSUME AlertInv, NEW j \in AlertJob, job[j].phase = "updating",
         issues' = [issues EXCEPT ![job[j].issue] = Written(@, job[j].list, job[j].red)],
         NEW answered \in BOOLEAN, Ends(j, answered), UNCHANGED <<failing, flips, overlaps>>,
         faults' \in 0..Faults
  PROVE  AlertInv'
<1> DEFINE n == job[j].issue
<1>1. /\ AlertTypes /\ PlanInv(j) /\ AloneInv(j) /\ UnderWay(j) /\ Rewriting(j) /\ Planned(j)
      /\ Rewritten(n, job[j].list, job[j].red)
  BY JobFacts DEF AlertInv, UnderWay, Rewriting, Planned, Rewritten
<1>2. /\ DOMAIN issues' = DOMAIN issues /\ n \in DOMAIN issues /\ issues'[n].list = job[j].list
      /\ OpenIssues' = IF job[j].red \/ job[j].list # {} THEN OpenIssues ELSE OpenIssues \ {n}
      /\ (Workflow(j) \in job[j].list <=> job[j].red)
  BY <1>1, RewrittenFacts DEF PlanInv
<1>3. ASSUME job[j].alone, Cardinality(OpenIssues) <= 1
      PROVE  IF job[j].red
             THEN \E m \in DOMAIN issues' : OpenIssues' = {m} /\ Workflow(j) \in issues'[m].list
             ELSE \A m \in OpenIssues' : Workflow(j) \notin issues'[m].list
  <2>1. n \in OpenIssues
    BY <1>1, <1>3 DEF AloneInv
  <2>2. OpenIssues = {n}
    BY <1>1, <1>3, <2>1, OneOpen
  <2> HIDE DEF n
  <2> QED BY <1>2, <2>2
<1>4. Effect(j)
  BY <1>1 DEF Effect
<1> QED BY <1>1, <1>3, <1>4, EndKeeps

\* A job begins, and those it meets are no longer alone.
LEMMA ReportsKeeps == ASSUME AlertInv, NEW j \in AlertJob, Reports(j) PROVE AlertInv'
<1> DEFINE q1 == [NoPlan EXCEPT !.phase = "listing"]
           q2 == [q1 EXCEPT !.red = Workflow(j) \in failing]
           p == [q2 EXCEPT !.alone = AtRest]
<1>1. /\ ~UnderWay(j) /\ UNCHANGED <<failing, flips, faults, issues, told>>
      /\ job' = [k \in AlertJob |-> IF k = j THEN p ELSE [job[k] EXCEPT !.alone = FALSE]]
  BY DEF Reports
<1>2. AlertTypes /\ job \in [AlertJob -> Jobs] /\ Len(issues) \in Nat
  BY CurrentFacts DEF AlertInv, AlertTypes
<1>3. p \in Jobs /\ p.phase = "listing" /\ p.issue = 0 /\ (p.alone = TRUE <=> AtRest)
  <2>1. q1 \in Jobs /\ q1.phase = "listing" /\ q1.issue = 0
    BY DEF NoPlan, Jobs
  <2> HIDE DEF q1
  <2>2. q2 \in Jobs /\ q2.phase = "listing" /\ q2.issue = 0
    <3> DEFINE red == Workflow(j) \in failing
    <3>1. red \in BOOLEAN
      OBVIOUS
    <3>2. q2 = [q1 EXCEPT !.red = red]
      OBVIOUS
    <3> HIDE DEF red, q2
    <3> QED BY <2>1, <3>1, <3>2 DEF Jobs
  <2> HIDE DEF q2
  <2> DEFINE rest == AtRest
  <2>3. rest \in BOOLEAN
    BY DEF AtRest
  <2>4. p = [q2 EXCEPT !.alone = rest]
    OBVIOUS
  <2> HIDE DEF rest, p
  <2>5. p \in Jobs /\ p.phase = "listing" /\ p.issue = 0 /\ (p.alone = TRUE <=> rest)
    BY <2>2, <2>3, <2>4 DEF Jobs
  <2> QED BY <2>5 DEF rest
<1> HIDE DEF p
<1>4. /\ job'[j] = p /\ job' \in [AlertJob -> Jobs]
      /\ \A k \in AlertJob : k # j =>
           /\ job'[k].phase = job[k].phase /\ job'[k].red = job[k].red /\ ~job'[k].alone
           /\ job'[k].issue = job[k].issue /\ job'[k].list = job[k].list
  BY <1>1, <1>2, <1>3 DEF Jobs
<1>5. overlaps' \in 0..Overlaps
  BY AlertAssumption DEF Reports, AlertInv, AlertTypes
<1>6. AlertTypes'
  <2>1. \A k \in AlertJob : job'[k].issue \in 0..Len(issues)
    BY <1>2, <1>3, <1>4 DEF AlertTypes
  <2> QED BY <1>1, <1>2, <1>4, <1>5, <2>1 DEF AlertTypes
<1>7. OpenIssues' = OpenIssues
  BY <1>1 DEF OpenIssues
<1>8. ~Planned(j)' /\ ~Creating(j)' /\ ~Rewriting(j)'
  BY <1>3, <1>4 DEF Planned, Creating, Rewriting
<1>9. \A k \in AlertJob : k # j =>
        /\ (Planned(k)' <=> Planned(k)) /\ (Creating(k)' <=> Creating(k))
        /\ (Rewriting(k)' <=> Rewriting(k)) /\ (UnderWay(k)' <=> UnderWay(k))
  BY <1>4 DEF Planned, Creating, Rewriting, UnderWay
<1>10. ASSUME NEW k \in AlertJob PROVE PlanInv(k)' /\ AloneInv(k)'
  <2>1. CASE k = j
    <3>1. job'[j].alone = TRUE => \A m \in AlertJob : m # j => ~UnderWay(m)'
      BY <1>3, <1>4, <1>9 DEF AtRest
    <3>2. job'[j].alone \in BOOLEAN
      BY <1>3, <1>4 DEF Jobs
    <3> QED BY <1>8, <2>1, <3>1, <3>2 DEF PlanInv, AloneInv
  <2>2. CASE k # j
    <3>1. PlanInv(k)
      BY DEF AlertInv
    <3> QED BY <1>1, <1>4, <1>9, <2>2, <3>1 DEF PlanInv, AloneInv
  <2> QED BY <2>1, <2>2
<1>11. ASSUME NEW w \in Watched PROVE SureInv(w)'
  <2>1. SureInv(w) /\ told'[w] = told[w]
    BY <1>1 DEF AlertInv
  <2>2. \A n \in DOMAIN issues : KeptOn(w, n) => KeptOn(w, n)'
    BY <1>1, <1>4, <1>7, <1>8, <1>9 DEF KeptOn
  <2>3. KeptOff(w) => KeptOff(w)'
    BY <1>1, <1>4, <1>7, <1>8, <1>9 DEF KeptOff
  <2> QED BY <1>1, <2>1, <2>2, <2>3 DEF SureInv
<1>12. \A n \in OpenIssues' : issues'[n].list # {}
  BY <1>1, <1>7 DEF AlertInv
<1> QED BY <1>6, <1>10, <1>11, <1>12 DEF AlertInv

\* A step that leaves the issues, the jobs and what was told.
LEMMA StillKeeps ==
  ASSUME AlertInv, UNCHANGED <<issues, job, told>>, AlertTypes'
  PROVE  AlertInv'
<1>1. OpenIssues' = OpenIssues
  BY DEF OpenIssues
<1>2. \A j \in AlertJob : PlanInv(j)' /\ AloneInv(j)'
  BY <1>1 DEF AlertInv, PlanInv, AloneInv, Planned, Creating, Rewriting, UnderWay
<1>3. \A w \in Watched : SureInv(w)'
  BY <1>1 DEF AlertInv, SureInv, KeptOn, KeptOff, Planned, Rewriting
<1> QED BY <1>1, <1>2, <1>3 DEF AlertInv

LEMMA AlertStepInv == AlertInv /\ [AlertNext]_alertVars => AlertInv'
<1> SUFFICES ASSUME AlertInv, [AlertNext]_alertVars PROVE AlertInv'
  OBVIOUS
<1>1. ASSUME NEW w \in Watched, Breaks(w) PROVE AlertInv'
  <2>1. AlertTypes' /\ UNCHANGED <<issues, job, told>>
    BY <1>1, AlertAssumption DEF Breaks, AlertInv, AlertTypes
  <2> QED BY <2>1, StillKeeps
<1>2. ASSUME NEW j \in AlertJob, AlertStep(j) PROVE AlertInv'
  <2>1. CASE Creates(j)
    BY <2>1, CreatesKeeps, FaultBound DEF Creates
  <2>2. CASE Updates(j)
    BY <2>2, UpdatesKeeps, FaultBound DEF Updates
  <2> QED BY <1>2, <2>1, <2>2, ListsKeeps, GoesOnKeeps DEF AlertStep
<1>3. ASSUME NEW j \in AlertJob, RequestFailed(j) PROVE AlertInv'
  <2>1. Effect(j) /\ UnderWay(j) /\ Ends(j, FALSE) /\ Faulted
    BY <1>3 DEF RequestFailed, Effect
  <2> QED BY <2>1, EndKeeps, FaultBound DEF Faulted
<1>4. ASSUME NEW j \in AlertJob, AnswerLost(j) PROVE AlertInv'
  <2>1. Ends(j, FALSE) /\ faults' \in 0..Faults /\ UNCHANGED <<failing, flips, overlaps>>
    BY <1>4, FaultBound DEF AnswerLost, Faulted
  <2> QED BY <1>4, <2>1, CreatesKeeps, UpdatesKeeps DEF AnswerLost
<1>5. CASE UNCHANGED alertVars
  <2>1. AlertTypes' /\ UNCHANGED <<issues, job, told>>
    BY <1>5 DEF alertVars, AlertInv, AlertTypes
  <2> QED BY <2>1, StillKeeps
<1> QED BY <1>1, <1>2, <1>3, <1>4, <1>5, ReportsKeeps DEF AlertNext

LEMMA AlertAlways == AlertSpec => []AlertInv
BY AlertInitInv, AlertStepInv, PTL DEF AlertSpec

\* A job is at one of its requests, about an issue there is (alert.py).
THEOREM AlertTypeCorrect == AlertSpec => []AlertTypeOK
<1>1. AlertInv => AlertTypeOK
  <2> SUFFICES ASSUME AlertInv PROVE AlertTypeOK
    OBVIOUS
  <2>1. \A n \in DOMAIN issues : issues[n].open \in BOOLEAN /\ issues[n].list \subseteq Watched
    BY CurrentFacts DEF AlertInv, Issues
  <2>2. \A j \in AlertJob :
          /\ job[j].phase \in {"idle", "listing", "labelling", "creating", "commenting", "updating"}
          /\ job[j].list \subseteq Watched
    BY DEF AlertInv, AlertTypes, Jobs
  <2> QED BY <2>1, <2>2 DEF AlertInv, AlertTypes, Told, AlertTypeOK
<1> QED BY <1>1, AlertAlways, PTL

\* For any workflows, alert jobs that overlap, and requests that fail or whose answer is lost:
\* what a job told that was alone and got its answers stays on the list of the open alert, or
\* off it, until its workflow reports again; and an open alert lists a workflow
\* (alert.py:3-6).
THEOREM AlertKeepsItsWord == AlertSpec => []AlertSaysWhatFailed
<1>1. AlertInv => AlertSaysWhatFailed
  <2> SUFFICES ASSUME AlertInv PROVE AlertSaysWhatFailed
    OBVIOUS
  <2>1. ASSUME NEW w \in Watched, told[w].sure PROVE Listed(w) <=> told[w].red
    BY <2>1 DEF AlertInv, SureInv, KeptOn, KeptOff, Listed
  <2> QED BY <2>1 DEF AlertInv, AlertSaysWhatFailed
<1> QED BY <1>1, AlertAlways, PTL

-----------------------------------------------------------------------------
\* What holds of no number before a number where it fails holds of all: there is no first
\* number where it fails.
LEMMA NoFirst ==
  ASSUME NEW S, \A n \in Nat : (\A m \in 0..(n - 1) : m \in S) => n \in S
  PROVE  Nat \subseteq S
<1> DEFINE T == Nat \ S
<1> SUFFICES ASSUME T # {} PROVE FALSE
  OBVIOUS
<1>1. Min(T) \in T
  BY LeastOf
<1>2. \A m \in 0..(Min(T) - 1) : m \in S
  <2>1. \A m \in T : Min(T) <= m
    BY LeastOf
  <2> QED BY <1>1, <2>1
<1> QED BY <1>1, <1>2

\* The parts of a sequence of sequences put together are a sequence.
LEMMA FlattenIsSeq ==
  ASSUME NEW X, NEW ss \in Seq(Seq(X))
  PROVE  FlattenSeq(ss) \in Seq(X)
<1> DEFINE L == Len(ss)
           Rule(f, n) == /\ f \in [1..n -> Seq(X)]
                         /\ \A i \in 1..n : f[i] = IF i = 1 THEN ss[i] ELSE f[i - 1] \o ss[i]
           S == {n \in Nat : n <= L => \E f : Rule(f, n)}
<1>1. L \in Nat /\ \A i \in 1..L : ss[i] \in Seq(X)
  OBVIOUS
<1> HIDE DEF L
<1>2. ASSUME NEW n \in Nat, \A m \in 0..(n - 1) : m \in S PROVE n \in S
  <2> SUFFICES ASSUME n <= L PROVE \E f : Rule(f, n)
    OBVIOUS
  <2>1. CASE n = 0
    <3> DEFINE f == [i \in 1..n |-> ss[1]]
    <3>1. 1..n = {}
      BY <2>1
    <3>2. Rule(f, n)
      BY <3>1
    <3> QED BY <3>2
  <2>2. CASE n = 1
    <3>1. Rule([i \in 1..1 |-> ss[1]], 1)
      BY <1>1, <2>2
    <3> QED BY <2>2, <3>1
  <2>3. CASE n > 1
    <3>1. n - 1 \in 0..(n - 1) /\ n - 1 \in Nat /\ n - 1 <= L
      BY <2>3, <1>1
    <3>2. PICK f : Rule(f, n - 1)
      BY <1>2, <3>1
    <3> DEFINE g == [i \in 1..n |-> IF i < n THEN f[i] ELSE f[n - 1] \o ss[n]]
    <3>3. f[n - 1] \in Seq(X) /\ ss[n] \in Seq(X)
      BY <1>1, <2>3, <3>2
    <3>4. f[n - 1] \o ss[n] \in Seq(X)
      BY <3>3, ConcatProperties
    <3>5. g \in [1..n -> Seq(X)]
      BY <2>3, <3>2, <3>4
    <3>6. ASSUME NEW i \in 1..n PROVE g[i] = IF i = 1 THEN ss[i] ELSE g[i - 1] \o ss[i]
      <4>1. CASE i < n
        <5>1. g[i] = f[i] /\ (i # 1 => g[i - 1] = f[i - 1]) /\ i \in 1..(n - 1)
          BY <2>3, <4>1
        <5> QED BY <3>2, <5>1
      <4>2. CASE i = n
        <5>1. g[i] = f[n - 1] \o ss[n] /\ g[i - 1] = f[n - 1] /\ i # 1
          <6>1. ~(n < n) /\ n - 1 < n /\ n - 1 \in 1..n /\ n \in 1..n /\ n # 1
            BY <2>3
          <6>2. g[n] = f[n - 1] \o ss[n]
            BY <6>1
          <6>3. g[n - 1] = f[n - 1]
            BY <6>1
          <6> QED BY <4>2, <6>1, <6>2, <6>3
        <5> QED BY <4>2, <5>1
      <4> QED BY <4>1, <4>2
    <3> HIDE DEF g
    <3>7. Rule(g, n)
      BY <3>5, <3>6
    <3> QED BY <3>7
  <2>4. n = 0 \/ n = 1 \/ n > 1
    OBVIOUS
  <2> QED BY <2>1, <2>2, <2>3, <2>4
<1>3. L \in S
  <2> HIDE DEF S
  <2> QED BY <1>1, <1>2, NoFirst
<1>4. PICK f : Rule(f, L)
  <2>1. L <= L
    BY <1>1
  <2> QED BY <1>3, <2>1
<1> DEFINE Solves(g) == g = [i \in 1..L |-> IF i = 1 THEN ss[i] ELSE g[i - 1] \o ss[i]]
           flat == CHOOSE g : Solves(g)
<1>5. Solves(f)
  BY <1>4
<1>6. Solves(flat)
  <2> HIDE DEF Solves
  <2> QED BY <1>5
<1> HIDE DEF flat
<1> DEFINE U == {n \in Nat : n \in 1..L => flat[n] \in Seq(X)}
<1>7. ASSUME NEW n \in Nat, \A m \in 0..(n - 1) : m \in U PROVE n \in U
  <2> SUFFICES ASSUME n \in 1..L PROVE flat[n] \in Seq(X)
    OBVIOUS
  <2>1. CASE n = 1
    BY <1>1, <1>6, <2>1
  <2>2. CASE n > 1
    <3>1. n - 1 \in 0..(n - 1) /\ n - 1 \in 1..L
      BY <1>1, <2>2
    <3>2. flat[n - 1] \in Seq(X) /\ ss[n] \in Seq(X)
      BY <1>1, <1>7, <3>1
    <3>3. flat[n] = flat[n - 1] \o ss[n]
      <4>1. n # 1 /\ n \in 1..L
        BY <2>2
      <4> QED BY <1>6, <4>1
    <3> QED BY <3>2, <3>3, ConcatProperties
  <2> QED BY <2>1, <2>2
<1>8. Nat \subseteq U
  <2> HIDE DEF U
  <2> QED BY <1>7, NoFirst
<1>9. CASE L = 0
  BY <1>9 DEF FlattenSeq, L
<1>10. CASE L # 0
  <2>1. FlattenSeq(ss) = flat[L]
    BY <1>10 DEF FlattenSeq, L, flat
  <2> QED BY <1>1, <1>8, <1>10, <2>1
<1> QED BY <1>9, <1>10

\* A finite set listed has each of its elements once.
LEMMA ListedOnce ==
  ASSUME NEW S, IsFiniteSet(S)
  PROVE  SetToSeq(S) \in Seq(S) /\ Range(SetToSeq(S)) = S
<1> DEFINE n == Cardinality(S)
           s == SetToSeq(S)
<1>1. n \in Nat /\ ExistsBijection(1..n, S)
  BY FS_CardinalityType, FS_CountingElements, FS_NatBijection
<1>2. \E f \in [1..n -> S] : IsInjective(f)
  BY <1>1 DEF ExistsBijection, Bijection, Injection, IsInjective
<1>3. s \in [1..n -> S] /\ IsInjective(s)
  BY <1>2 DEF SetToSeq
<1> HIDE DEF s
<1>4. 1..n = DOMAIN s /\ Cardinality(1..n) = n
  BY <1>1, <1>3, FS_Interval
<1>5. s \in Injection(1..n, S)
  BY <1>3 DEF Injection, IsInjective
<1>6. s \in Surjection(1..n, S)
  BY <1>4, <1>5, FS_Injection
<1> HIDE DEF n
<1>7. Range(s) = S
  BY <1>3, <1>6 DEF Range, Surjection
<1>8. s \in Seq(S)
  BY <1>1, <1>3
<1> QED BY <1>7, <1>8 DEF s

-----------------------------------------------------------------------------
(* The tools that read the live origin back.                                 *)

ToolKinds == {"none", "verify", "sequence", "mirror", "carry", "grade"}
ToolPhases == {"raw", "pointer", "manifest", "chunks", "waiting", "writing", "passed", "failed"}
Slots == {NoChunk} \cup {Chunk(h) : h \in STRING}
ToolDirs == {"", "list", "catalog"}
NothingExpected == [version |-> Absent, sequence |-> Absent]
Expectable == Expected \cup {NothingExpected}
GateTools ==
  [kind : ToolKinds, expects : Expectable, limit : AgeLimits \cup Gradings \cup {Absent},
   dir : ToolDirs, phase : ToolPhases, tries : 1..Tries, day : 1..MaxDay, raw : 0..Len(DeployedTrees),
   pointer : 0..Len(DeployedTrees), next : Nat \ {0}, busy : [1..Pool -> Slots], seen : SUBSET STRING,
   result : Nat \cup {Null} \cup {NextSequence(t) : t \in Tree}]
Wires == [file : {"latest", "manifest", "chunk"}, of : 0..Len(DeployedTrees) \cup STRING]

GateTypes ==
  /\ day \in 1..MaxDay /\ held \in SUBSET Tree /\ held # {} /\ deploys \in 0..MaxDeploys
  /\ tool \in GateTools /\ out \in Seq(Wires)
  /\ ToolAt("waiting") => tool.tries < Tries
  /\ tool.kind = "none" => ToolAt("passed")

\* From the pointer on, the tool follows one tree that it admitted.
Follows ==
  tool.kind # "none" /\ (tool.phase \in {"manifest", "chunks", "writing", "passed"} \/ out # <<>>) =>
    tool.pointer \in Tree /\ Admitted(tool.pointer)
ListIsThere ==
  tool.kind \in {"carry", "grade"} /\ tool.phase \in {"chunks", "passed"} => HasList(tool.pointer, tool.dir)

\* What was taken is seen or on its way.
OnItsWay(h) == \E w \in 1..Pool : tool.busy[w] = Chunk(h)
PoolInv ==
  /\ tool.phase \in {"raw", "pointer", "manifest"} => tool.next = 1
  /\ ToolAt("chunks") =>
       \A i \in DOMAIN ChunksAsked(tool) :
         i < tool.next => ChunksAsked(tool)[i] \in tool.seen \/ OnItsWay(ChunksAsked(tool)[i])
Gathered ==
  tool.kind \notin {"none", "sequence"} /\ (tool.phase \in {"writing", "passed"} \/ out # <<>>) => AskedAreSeen

\* What is written is a beginning of what there is to write, and all of it in the end.
WritingInv ==
  /\ ToolAt("writing") => tool.kind = "mirror"
  /\ out # <<>> => tool.kind = "mirror" /\ tool.phase \in {"writing", "passed", "failed"}
  /\ out # <<>> => Len(out) <= Len(Pending) /\ \A i \in DOMAIN out : out[i] = Pending[i]
  /\ tool.kind = "mirror" /\ ToolAt("passed") => Len(out) = Len(Pending)

CarriedInv ==
  tool.kind = "carry" /\ ToolAt("passed") =>
    /\ CarriedAge(tool.pointer) # Null /\ tool.result = CarriedAge(tool.pointer).at
    /\ DeployedTrees[tool.pointer].counted
    /\ DeployedTrees[tool.pointer].unsound \cap {tool.dir, "catalog"} = {}
    /\ Within(tool.day - tool.result, tool.limit)
GradedInv ==
  tool.kind = "grade" => tool.limit \in Gradings /\ (ToolAt("passed") => FreshTree(tool.pointer))

GateInv ==
  /\ GateTypes /\ Follows /\ ListIsThere /\ PoolInv /\ Gathered
  /\ WritingInv /\ CarriedInv /\ GradedInv

-----------------------------------------------------------------------------
(* The chunks that are asked for.                                            *)

LEMMA TreeFacts ==
  ASSUME NEW t \in Tree
  PROVE  /\ Len(DeployedTrees) \in Nat /\ Tree = 1..Len(DeployedTrees) /\ 1 \in Tree
         /\ DeployedTrees[t].files \in Seq(ManifestFiles)
BY GateAssumption DEF Tree

LEMMA FilesFacts ==
  ASSUME NEW t \in Tree
  PROVE  /\ IsFiniteSet(Range(DeployedTrees[t].files))
         /\ \A f \in Range(DeployedTrees[t].files) : f.chunks \in Seq(STRING)
<1> DEFINE files == DeployedTrees[t].files
<1>1. files \in Seq(ManifestFiles)
  BY TreeFacts
<1> HIDE DEF files
<1>2. files \in [1..Len(files) -> ManifestFiles] /\ Len(files) \in Nat
  BY <1>1
<1>3. \A f \in Range(files) : f.chunks \in Seq(STRING)
  BY <1>2 DEF Range, ManifestFiles
<1>4. files \in Surjection(1..Len(files), Range(files))
  BY <1>2 DEF Range, Surjection
<1>5. IsFiniteSet(Range(files))
  <2>1. IsFiniteSet(1..Len(files))
    BY <1>2, FS_Interval
  <2> QED BY <1>4, <2>1, FS_Surjection
<1> QED BY <1>3, <1>5 DEF files

LEMMA ChunksFacts ==
  ASSUME NEW t \in Tree
  PROVE  IsFiniteSet(ChunksOf(t)) /\ ChunksOf(t) \subseteq STRING
<1> DEFINE F == Range(DeployedTrees[t].files)
           R == [f \in F |-> Range(f.chunks)]
           S == {R[f] : f \in F}
<1>1. IsFiniteSet(F) /\ \A f \in F : f.chunks \in Seq(STRING)
  BY FilesFacts
<1>2. ASSUME NEW f \in F PROVE IsFiniteSet(R[f]) /\ R[f] \subseteq STRING
  <2> DEFINE c == f.chunks
  <2>1. c \in [1..Len(c) -> STRING] /\ Len(c) \in Nat
    BY <1>1
  <2> HIDE DEF c
  <2>2. c \in Surjection(1..Len(c), Range(c)) /\ Range(c) \subseteq STRING
    BY <2>1 DEF Range, Surjection
  <2>3. IsFiniteSet(Range(c))
    <3>1. IsFiniteSet(1..Len(c))
      BY <2>1, FS_Interval
    <3> QED BY <2>2, <3>1, FS_Surjection
  <2> QED BY <2>2, <2>3 DEF c
<1>3. ChunksOf(t) = UNION S
  BY DEF ChunksOf
<1> HIDE DEF F, R
<1>4. R \in Surjection(F, S)
  BY DEF Surjection, R
<1>5. IsFiniteSet(S)
  BY <1>1, <1>4, FS_Surjection
<1>6. \A x \in S : IsFiniteSet(x) /\ x \subseteq STRING
  BY <1>2
<1> HIDE DEF S
<1>7. IsFiniteSet(UNION S)
  BY <1>5, <1>6, FS_UNION
<1> QED BY <1>3, <1>6, <1>7

\* A tool asks for a sequence of chunks; the gate and the mirror for each of the tree's.
LEMMA AskedFacts ==
  ASSUME NEW g, g.pointer \in Tree
  PROVE  /\ ChunksAsked(g) \in Seq(STRING)
         /\ g.kind \notin {"carry", "grade"} => Range(ChunksAsked(g)) = ChunksOf(g.pointer)
<1> DEFINE t == g.pointer
<1>1. t \in Tree
  OBVIOUS
<1> HIDE DEF t
<1>2. SetToSeq(ChunksOf(t)) \in Seq(STRING) /\ Range(SetToSeq(ChunksOf(t))) = ChunksOf(t)
  <2>1. SetToSeq(ChunksOf(t)) \in Seq(ChunksOf(t)) /\ Range(SetToSeq(ChunksOf(t))) = ChunksOf(t)
    BY <1>1, ChunksFacts, ListedOnce
  <2>2. ChunksOf(t) \subseteq STRING
    BY <1>1, ChunksFacts
  <2> QED BY <2>1, <2>2
<1>3. ASSUME NEW dirs PROVE ChunksIn(t, dirs) \in Seq(STRING)
  <2> DEFINE files == DeployedTrees[t].files
             parts == [i \in DOMAIN files |-> IF files[i].dir \in dirs THEN files[i].chunks ELSE <<>>]
  <2>1. files \in Seq(ManifestFiles)
    BY <1>1, TreeFacts
  <2> HIDE DEF files
  <2>2. files \in [1..Len(files) -> ManifestFiles] /\ Len(files) \in Nat /\ DOMAIN files = 1..Len(files)
    BY <2>1
  <2>3. <<>> \in Seq(STRING)
    OBVIOUS
  <2>4. \A i \in DOMAIN files : parts[i] \in Seq(STRING)
    BY <2>2, <2>3 DEF ManifestFiles
  <2>5. parts \in [1..Len(files) -> Seq(STRING)]
    BY <2>2, <2>4
  <2> HIDE DEF parts
  <2>6. parts \in Seq(Seq(STRING))
    BY <2>2, <2>5
  <2> QED BY <2>6, FlattenIsSeq DEF ChunksIn, parts, files
<1>4. ChunksAsked(g) = IF g.kind \in {"carry", "grade"} THEN ChunksIn(t, {g.dir, "catalog"}) ELSE SetToSeq(ChunksOf(t))
  BY DEF ChunksAsked, t
<1>5. ChunksIn(t, {g.dir, "catalog"}) \in Seq(STRING)
  BY <1>3
<1> QED BY <1>2, <1>4, <1>5 DEF t

LEMMA SameAsked ==
  ASSUME NEW g, NEW h, g.kind = h.kind, g.pointer = h.pointer, g.dir = h.dir
  PROVE  ChunksAsked(g) = ChunksAsked(h)
BY DEF ChunksAsked

\* A pool that is done has seen all that was asked for.
LEMMA DoneIsSeen ==
  ASSUME GateInv, ToolAt("chunks"), tool.kind # "none", PoolDone(tool)
  PROVE  AskedAreSeen
<1> DEFINE asked == ChunksAsked(tool)
<1>1. asked \in Seq(STRING)
  BY AskedFacts DEF GateInv, Follows, ToolAt
<1>2. \A i \in DOMAIN asked : i < tool.next => asked[i] \in tool.seen \/ OnItsWay(asked[i])
  BY DEF GateInv, PoolInv
<1>3. tool.next > Len(asked) /\ \A w \in 1..Pool : ~tool.busy[w].taken
  BY DEF PoolDone
<1>4. tool.next \in Nat
  BY DEF GateInv, GateTypes, GateTools
<1> HIDE DEF asked
<1>5. \A i \in DOMAIN asked : asked[i] \in tool.seen
  <2>1. \A h : Chunk(h).taken
    BY DEF Chunk
  <2>2. \A h : ~OnItsWay(h)
    BY <1>3, <2>1 DEF OnItsWay
  <2>3. \A i \in DOMAIN asked : i < tool.next
    BY <1>1, <1>3, <1>4
  <2> QED BY <1>2, <2>2, <2>3
<1> QED BY <1>5 DEF AskedAreSeen, Range, asked

-----------------------------------------------------------------------------
(* The steps.                                                                *)

LEMMA ToolFields ==
  ASSUME tool \in GateTools
  PROVE  /\ tool.kind \in ToolKinds /\ tool.phase \in ToolPhases /\ tool.dir \in ToolDirs
         /\ tool.pointer \in 0..Len(DeployedTrees) /\ tool.next \in Nat \ {0}
         /\ tool.busy \in [1..Pool -> Slots] /\ tool.seen \in SUBSET STRING /\ tool.day \in 1..MaxDay
         /\ tool.expects \in Expectable /\ tool.tries \in 1..Tries
         /\ tool.limit \in AgeLimits \cup Gradings \cup {Absent}
BY DEF GateTools

\* What is admitted is so whatever else of the tool moves.
LEMMA AdmittedStays ==
  ASSUME tool'.kind = tool.kind, tool'.expects = tool.expects, tool'.limit = tool.limit,
         tool.kind = "mirror" => tool'.day = tool.day, NEW t \in Tree, Admitted(t)
  PROVE  Admitted(t)'
BY DEF Admitted, IsPointer, BundleAge

\* A step that moves the tool to another phase, and nothing else.
MovesTo(phase) == tool' = [tool EXCEPT !.phase = phase]
LEMMA MoveFields ==
  ASSUME tool \in GateTools, NEW phase \in ToolPhases, MovesTo(phase)
  PROVE  /\ tool' \in GateTools /\ tool'.phase = phase
         /\ tool'.kind = tool.kind /\ tool'.expects = tool.expects /\ tool'.limit = tool.limit
         /\ tool'.dir = tool.dir /\ tool'.day = tool.day /\ tool'.pointer = tool.pointer
         /\ tool'.next = tool.next /\ tool'.busy = tool.busy /\ tool'.seen = tool.seen
         /\ tool'.result = tool.result /\ tool'.raw = tool.raw /\ tool'.tries = tool.tries
         /\ ChunksAsked(tool') = ChunksAsked(tool)
<1>1. tool' \in GateTools
  BY DEF MovesTo, GateTools
<1>2. /\ tool'.phase = phase
      /\ tool'.kind = tool.kind /\ tool'.expects = tool.expects /\ tool'.limit = tool.limit
      /\ tool'.dir = tool.dir /\ tool'.day = tool.day /\ tool'.pointer = tool.pointer
      /\ tool'.next = tool.next /\ tool'.busy = tool.busy /\ tool'.seen = tool.seen
      /\ tool'.result = tool.result /\ tool'.raw = tool.raw /\ tool'.tries = tool.tries
  BY DEF MovesTo, GateTools
<1>3. ChunksAsked(tool') = ChunksAsked(tool)
  BY <1>2, SameAsked
<1> QED BY <1>1, <1>2, <1>3

\* A tool that is neither writing nor at its end has written nothing.
LEMMA NothingWritten ==
  ASSUME GateInv, tool.phase \notin {"writing", "passed", "failed"}
  PROVE  out = <<>>
BY DEF GateInv, WritingInv

LEMMA StopsKeeps ==
  ASSUME GateInv, Quietly, NEW phase \in {"waiting", "failed"}, MovesTo(phase),
         phase = "waiting" => tool.tries < Tries,
         tool.phase \in {"raw", "pointer", "manifest", "chunks"} \/ (ToolAt("writing") /\ phase = "failed")
  PROVE  GateInv'
<1>1. tool \in GateTools /\ GateTypes
  BY DEF GateInv, GateTypes
<1>2. phase \in ToolPhases
  BY DEF ToolPhases
<1>3. /\ tool' \in GateTools /\ tool'.phase = phase
      /\ tool'.kind = tool.kind /\ tool'.expects = tool.expects /\ tool'.limit = tool.limit
      /\ tool'.dir = tool.dir /\ tool'.day = tool.day /\ tool'.pointer = tool.pointer
      /\ tool'.seen = tool.seen /\ tool'.raw = tool.raw /\ tool'.tries = tool.tries
      /\ ChunksAsked(tool') = ChunksAsked(tool)
  BY <1>1, <1>2, MoveFields
<1>4. GateTypes'
  BY <1>1, <1>3 DEF GateTypes, Quietly, ToolAt
<1>5. out' = out /\ (out # <<>> => ToolAt("writing"))
  BY NothingWritten DEF Quietly, ToolAt
<1>6. Follows'
  <2>1. out # <<>> /\ tool.kind # "none" => tool.pointer \in Tree /\ Admitted(tool.pointer)
    BY DEF GateInv, Follows
  <2>2. tool.pointer \in Tree /\ Admitted(tool.pointer) => Admitted(tool.pointer)'
    BY <1>3, AdmittedStays
  <2> QED BY <1>3, <1>5, <2>1, <2>2 DEF Follows
<1>7. ListIsThere' /\ PoolInv' /\ CarriedInv'
  BY <1>3 DEF ListIsThere, PoolInv, CarriedInv, ToolAt
<1>8. Gathered'
  BY <1>3, <1>5 DEF GateInv, Gathered, AskedAreSeen
<1>9. Pending' = Pending
  BY <1>3 DEF Pending
<1>10. WritingInv'
  <2>1. out' # <<>> => Len(out') <= Len(Pending') /\ \A i \in DOMAIN out' : out'[i] = Pending'[i]
    BY <1>5, <1>9 DEF GateInv, WritingInv
  <2>2. out' # <<>> => tool'.kind = "mirror" /\ tool'.phase \in {"writing", "passed", "failed"}
    BY <1>3, <1>5 DEF GateInv, WritingInv, ToolAt
  <2> QED BY <1>3, <2>1, <2>2 DEF WritingInv, ToolAt
<1>11. GradedInv'
  BY <1>3 DEF GateInv, GradedInv, ToolAt
<1> QED BY <1>4, <1>6, <1>7, <1>8, <1>10, <1>11 DEF GateInv

LEMMA AbortsKeeps ==
  ASSUME GateInv, Quietly, Aborts, tool.phase \in {"raw", "pointer", "manifest", "chunks"}
  PROVE  GateInv'
<1> DEFINE phase == Retried
<1>1. phase \in {"waiting", "failed"} /\ (phase = "waiting" => tool.tries < Tries)
  BY DEF Retried
<1>2. MovesTo(phase)
  BY DEF Aborts, MovesTo
<1> HIDE DEF phase
<1> QED BY <1>1, <1>2, StopsKeeps

\* The origin moves, or nothing does.
LEMMA OriginKeeps ==
  ASSUME GateInv, UNCHANGED <<tool, out>>, day' \in 1..MaxDay, deploys' \in 0..MaxDeploys,
         held' \in SUBSET Tree, held' # {}
  PROVE  GateInv'
<1>1. GateTypes'
  BY DEF GateInv, GateTypes, ToolAt
<1>2. Follows' /\ ListIsThere' /\ PoolInv'
  BY DEF GateInv, Follows, Admitted, IsPointer, BundleAge, ListIsThere, PoolInv, OnItsWay, ToolAt
<1>3. Gathered' /\ WritingInv'
  BY DEF GateInv, Gathered, AskedAreSeen, WritingInv, Pending, ToolAt
<1>4. CarriedInv'
  BY DEF GateInv, CarriedInv, ToolAt, CarriedAge, Within
<1>5. FreshTree(tool.pointer)' = FreshTree(tool.pointer)
  BY DEF FreshTree, FreshnessBreach, GradedAge
<1>6. GradedInv'
  BY <1>5 DEF GateInv, GradedInv, ToolAt
<1> QED BY <1>1, <1>2, <1>3, <1>4, <1>6 DEF GateInv

Limits == AgeLimits \cup Gradings \cup {Absent}
LEMMA NewToolFacts ==
  ASSUME day \in 1..MaxDay, NEW k \in ToolKinds, NEW e \in Expectable, NEW l \in Limits, NEW d \in ToolDirs
  PROVE  /\ NewTool(k, e, l, d) \in GateTools /\ NewTool(k, e, l, d).next = 1
         /\ NewTool(k, e, l, d).kind = k /\ NewTool(k, e, l, d).limit = l /\ NewTool(k, e, l, d).phase = "pointer"
<1>1. 1 \in 1..Tries /\ 0 \in 0..Len(DeployedTrees)
  BY GateAssumption
<1>2. [w \in 1..Pool |-> NoChunk] \in [1..Pool -> Slots]
  BY DEF Slots
<1> QED BY <1>1, <1>2 DEF NewTool, GateTools, ToolPhases, Limits

LEMMA InvokesKeeps == ASSUME GateInv, NEW call \in Calls, Invokes(call) PROVE GateInv'
<1> DEFINE phase == IF ~ArgumentsParse(call) THEN "failed" ELSE IF call.kind = "mirror" THEN "raw" ELSE "pointer"
<1>1. phase \in {"failed", "raw", "pointer"} /\ tool' = [call EXCEPT !.phase = phase]
  BY DEF Invokes
<1> HIDE DEF phase
<1>2. PICK k \in ToolKinds \ {"none"}, e \in Expectable, l \in Limits, d \in ToolDirs :
        call = NewTool(k, e, l, d) /\ (k = "grade" => l \in Gradings)
  <2>2. /\ {"verify", "sequence", "mirror", "carry", "grade"} \subseteq ToolKinds \ {"none"} /\ {"", "list", "catalog"} \subseteq ToolDirs
        /\ Expected \subseteq Expectable /\ NothingExpected \in Expectable
        /\ Absent \in Limits /\ AgeLimits \subseteq Limits /\ Gradings \subseteq Limits
    <3>1. {"verify", "sequence", "mirror", "carry", "grade"} \subseteq ToolKinds \ {"none"}
      BY DEF ToolKinds
    <3>2. {"", "list", "catalog"} \subseteq ToolDirs
      BY DEF ToolDirs
    <3>3. /\ Expected \subseteq Expectable /\ NothingExpected \in Expectable
          /\ Absent \in Limits /\ AgeLimits \subseteq Limits /\ Gradings \subseteq Limits
      BY DEF Limits, Expectable
    <3> QED BY <3>1, <3>2, <3>3
  <2>3. \/ \E e \in Expected : call = NewTool("verify", e, Absent, "")
        \/ call = NewTool("sequence", NothingExpected, Absent, "")
        \/ \E l \in AgeLimits : call = NewTool("mirror", NothingExpected, l, "")
        \/ \E l \in AgeLimits : call = NewTool("carry", NothingExpected, l, "list")
        \/ \E g \in Gradings : call = NewTool("grade", NothingExpected, g, "catalog")
    BY DEF Calls, NothingExpected
  <2>4. CASE \E e \in Expected : call = NewTool("verify", e, Absent, "")
    BY <2>2, <2>4
  <2>5. CASE call = NewTool("sequence", NothingExpected, Absent, "")
    BY <2>2, <2>5
  <2>6. CASE \E l \in AgeLimits : call = NewTool("mirror", NothingExpected, l, "")
    BY <2>2, <2>6
  <2>7. CASE \E l \in AgeLimits : call = NewTool("carry", NothingExpected, l, "list")
    BY <2>2, <2>7
  <2>8. CASE \E g \in Gradings : call = NewTool("grade", NothingExpected, g, "catalog")
    BY <2>2, <2>8
  <2> QED BY <2>3, <2>4, <2>5, <2>6, <2>7, <2>8
<1>3. call \in GateTools /\ call.next = 1 /\ call.kind # "none" /\ (call.kind = "grade" => call.limit \in Gradings)
  <2>1. day \in 1..MaxDay
    BY DEF GateInv, GateTypes
  <2> QED BY <1>2, <2>1, NewToolFacts
<1>4. tool' \in GateTools /\ tool'.phase = phase /\ tool'.kind = call.kind /\ tool'.limit = call.limit /\ tool'.next = 1
  BY <1>1, <1>3 DEF GateTools, ToolPhases
<1>5. out = <<>> /\ out' = <<>>
  BY DEF GateInv, WritingInv, Invokes, Quietly
<1>6. GateTypes'
  BY <1>3, <1>4, <1>5 DEF GateInv, GateTypes, Invokes, Quietly, ToolAt
<1> QED BY <1>1, <1>3, <1>4, <1>5, <1>6
        DEF GateInv, Follows, ListIsThere, PoolInv, Gathered, WritingInv, CarriedInv, GradedInv, ToolAt

LEMMA TriesAgainKeeps == ASSUME GateInv, TriesAgain PROVE GateInv'
<1>1. tool \in GateTools /\ tool.phase = "waiting" /\ tool.tries \in 1..Tries /\ tool.tries < Tries
  BY DEF GateInv, GateTypes, TriesAgain, ToolAt, GateTools
<1> DEFINE fresh == NewTool(tool.kind, tool.expects, tool.limit, tool.dir)
<1>2. /\ fresh \in GateTools /\ fresh.next = 1 /\ fresh.kind = tool.kind /\ fresh.limit = tool.limit
      /\ fresh.phase = "pointer"
  <2>1. /\ tool.kind \in ToolKinds /\ tool.expects \in Expectable
        /\ tool.limit \in Limits /\ tool.dir \in ToolDirs
    BY <1>1, ToolFields DEF Limits
  <2> DEFINE k == tool.kind  e == tool.expects  l == tool.limit  d == tool.dir
  <2>2. k \in ToolKinds /\ e \in Expectable /\ l \in Limits /\ d \in ToolDirs
    BY <2>1
  <2>3. fresh = NewTool(k, e, l, d)
    OBVIOUS
  <2> HIDE DEF k, e, l, d, fresh
  <2>4. /\ NewTool(k, e, l, d) \in GateTools /\ NewTool(k, e, l, d).next = 1
        /\ NewTool(k, e, l, d).kind = k /\ NewTool(k, e, l, d).limit = l /\ NewTool(k, e, l, d).phase = "pointer"
    <3>1. day \in 1..MaxDay
      BY DEF GateInv, GateTypes
    <3> QED BY <2>2, <3>1, NewToolFacts
  <2> QED BY <2>3, <2>4 DEF k, l
<1>3. tool' = [fresh EXCEPT !.tries = tool.tries + 1]
  BY DEF TriesAgain
<1> HIDE DEF fresh
<1>4. tool.tries + 1 \in 1..Tries
  BY <1>1, GateAssumption
<1>5. tool' \in GateTools /\ tool'.phase = "pointer" /\ tool'.kind = tool.kind /\ tool'.limit = tool.limit /\ tool'.next = 1
  BY <1>2, <1>3, <1>4 DEF GateTools
<1>6. out = <<>> /\ out' = <<>>
  BY <1>1, NothingWritten DEF TriesAgain, Quietly
<1>7. GateTypes'
  BY <1>5, <1>6 DEF GateInv, GateTypes, TriesAgain, Quietly, ToolAt
<1> QED BY <1>5, <1>6, <1>7
        DEF GateInv, Follows, ListIsThere, PoolInv, Gathered, WritingInv, CarriedInv, GradedInv, ToolAt

LEMMA ReadsRawKeeps == ASSUME GateInv, ReadsRaw PROVE GateInv'
<1>1. tool \in GateTools /\ tool.phase = "raw" /\ held \subseteq Tree
  BY DEF GateInv, GateTypes, ReadsRaw, ToolAt
<1>2. PICK t \in Tree : tool' = [tool EXCEPT !.raw = t, !.phase = "pointer"]
  BY <1>1 DEF ReadsRaw
<1>3. t \in 0..Len(DeployedTrees)
  BY TreeFacts
<1>4. /\ tool' \in GateTools /\ tool'.phase = "pointer" /\ tool'.kind = tool.kind /\ tool'.limit = tool.limit
      /\ tool'.next = tool.next
  BY <1>1, <1>2, <1>3 DEF GateTools, ToolPhases
<1>5. out = <<>> /\ out' = <<>>
  BY <1>1, NothingWritten DEF ReadsRaw, Quietly
<1>6. GateTypes'
  BY <1>4, <1>5 DEF GateInv, GateTypes, ReadsRaw, Quietly, ToolAt
<1> QED BY <1>1, <1>4, <1>5, <1>6
        DEF GateInv, Follows, ListIsThere, PoolInv, Gathered, WritingInv, CarriedInv, GradedInv, ToolAt

LEMMA PointerKeeps == ASSUME GateInv, NEW t \in Tree, PointerComes(t) PROVE GateInv'
<1>1. tool \in GateTools /\ GateTypes /\ tool.phase = "pointer" /\ Quietly
  BY DEF GateInv, GateTypes, PointerComes, ToolAt
<1>2. CASE ~Admitted(t)
  BY <1>1, <1>2, AbortsKeeps DEF PointerComes
<1>3. CASE Admitted(t)
  <2> DEFINE phase == IF tool.kind = "sequence" THEN "passed" ELSE "manifest"
             result == IF tool.kind = "sequence" THEN NextSequence(t) ELSE tool.result
             placed == [tool EXCEPT !.pointer = t]
             moved == [placed EXCEPT !.phase = phase]
  <2>1. phase \in ToolPhases /\ (phase = "passed" => tool.kind = "sequence") /\ phase \in {"passed", "manifest"}
    BY DEF ToolPhases
  <2>2. result \in Nat \cup {Null} \cup {NextSequence(u) : u \in Tree}
    BY <1>1 DEF GateTools
  <2>3. t \in 0..Len(DeployedTrees)
    BY TreeFacts
  <2>4. /\ placed \in GateTools /\ placed.pointer = t /\ placed.phase = tool.phase /\ placed.kind = tool.kind
        /\ placed.expects = tool.expects /\ placed.limit = tool.limit /\ placed.dir = tool.dir
        /\ placed.day = tool.day /\ placed.next = tool.next /\ placed.result = tool.result
    BY <1>1, <2>3 DEF GateTools
  <2>5. tool' = [moved EXCEPT !.result = result]
    <3>1. CASE tool.kind = "sequence"
      BY <1>3, <3>1 DEF PointerComes
    <3>2. CASE tool.kind # "sequence"
      <4>1. tool' = moved
        BY <1>3, <3>2 DEF PointerComes
      <4> HIDE DEF placed
      <4>2. moved \in GateTools /\ moved.result = result
        BY <2>1, <2>4, <3>2 DEF GateTools
      <4> HIDE DEF moved, result
      <4>3. moved = [moved EXCEPT !.result = result]
        BY <4>2 DEF GateTools
      <4> QED BY <4>1, <4>3
    <3> QED BY <3>1, <3>2
  <2> HIDE DEF phase, result, placed
  <2>6. /\ moved \in GateTools /\ moved.pointer = t /\ moved.phase = phase /\ moved.kind = tool.kind
        /\ moved.expects = tool.expects /\ moved.limit = tool.limit /\ moved.dir = tool.dir
        /\ moved.day = tool.day /\ moved.next = tool.next
    BY <2>1, <2>4 DEF GateTools
  <2> HIDE DEF moved
  <2>7. /\ tool' \in GateTools /\ tool'.pointer = t /\ tool'.phase = phase /\ tool'.kind = tool.kind
        /\ tool'.expects = tool.expects /\ tool'.limit = tool.limit /\ tool'.dir = tool.dir
        /\ tool'.day = tool.day /\ tool'.next = tool.next
    BY <2>2, <2>5, <2>6 DEF GateTools
  <2>8. out = <<>> /\ out' = <<>>
    BY <1>1, NothingWritten DEF Quietly
  <2>9. GateTypes'
    BY <1>1, <2>1, <2>7, <2>8 DEF GateTypes, Quietly, ToolAt
  <2>10. Admitted(t)'
    BY <1>3, <2>7, AdmittedStays
  <2>11. Follows'
    BY <2>7, <2>10 DEF Follows
  <2>12. tool.next = 1 /\ (tool.kind = "grade" => tool.limit \in Gradings)
    BY <1>1 DEF GateInv, PoolInv, GradedInv
  <2> QED BY <2>1, <2>7, <2>8, <2>9, <2>11, <2>12
          DEF GateInv, ListIsThere, PoolInv, Gathered, WritingInv, CarriedInv, GradedInv, ToolAt
<1> QED BY <1>2, <1>3

LEMMA ManifestKeeps == ASSUME GateInv, NEW t \in Tree, ManifestComes(t) PROVE GateInv'
<1>1. tool \in GateTools /\ GateTypes /\ tool.phase = "manifest" /\ Quietly
  BY DEF GateInv, GateTypes, ManifestComes, ToolAt
<1> DEFINE Wrong == ~Addressed(tool.pointer, t) \/ (tool.kind \in {"carry", "grade"} /\ ~HasList(t, tool.dir))
<1>2. CASE Wrong
  BY <1>1, <1>2, AbortsKeeps DEF ManifestComes
<1>3. CASE ~Wrong
  <2>1. MovesTo("chunks") /\ "chunks" \in ToolPhases
    BY <1>3 DEF ManifestComes, MovesTo, ToolPhases
  <2>2. tool.kind \in {"carry", "grade"} => HasList(tool.pointer, tool.dir)
    BY <1>3 DEF Addressed
  <2>3. /\ tool' \in GateTools /\ tool'.phase = "chunks"
        /\ tool'.kind = tool.kind /\ tool'.expects = tool.expects /\ tool'.limit = tool.limit
        /\ tool'.dir = tool.dir /\ tool'.day = tool.day /\ tool'.pointer = tool.pointer
        /\ tool'.next = tool.next /\ ChunksAsked(tool') = ChunksAsked(tool)
    BY <1>1, <2>1, MoveFields
  <2>4. out = <<>> /\ out' = <<>>
    BY <1>1, NothingWritten DEF Quietly
  <2>5. GateTypes'
    BY <1>1, <2>3, <2>4 DEF GateTypes, Quietly, ToolAt
  <2>6. Follows'
    <3>1. tool.kind # "none" => tool.pointer \in Tree /\ Admitted(tool.pointer)
      BY <1>1 DEF GateInv, Follows
    <3>2. tool.pointer \in Tree /\ Admitted(tool.pointer) => Admitted(tool.pointer)'
      BY <2>3, AdmittedStays
    <3> QED BY <2>3, <3>1, <3>2 DEF Follows
  <2>7. ListIsThere'
    BY <2>2, <2>3 DEF ListIsThere
  <2>8. tool.next = 1 /\ (tool.kind = "grade" => tool.limit \in Gradings)
    BY <1>1 DEF GateInv, PoolInv, GradedInv
  <2>9. PoolInv'
    <3>1. tool.kind # "none" => tool.pointer \in Tree
      BY <1>1 DEF GateInv, Follows
    <3>2. DOMAIN ChunksAsked(tool) \subseteq Nat \ {0}
      BY <3>1, AskedFacts
    <3> QED BY <2>3, <2>8, <3>2 DEF PoolInv, ToolAt
  <2> QED BY <2>3, <2>4, <2>5, <2>6, <2>7, <2>8, <2>9
          DEF GateInv, Gathered, WritingInv, CarriedInv, GradedInv, ToolAt
<1> QED BY <1>2, <1>3

LEMMA TakesKeeps == ASSUME GateInv, NEW w \in 1..Pool, TakesChunk(w) PROVE GateInv'
<1>0. PICK asked, next, h : asked = ChunksAsked(tool) /\ next = tool.next /\ h = asked[next]
  OBVIOUS
<1> DEFINE loaded == [tool EXCEPT !.busy[w] = Chunk(h)]
<1>1. tool \in GateTools /\ GateTypes /\ tool.phase = "chunks" /\ Quietly /\ ~tool.busy[w].taken
  BY DEF GateInv, GateTypes, TakesChunk, ToolAt, Idle
<1>2. tool.kind # "none" /\ tool.pointer \in Tree /\ Admitted(tool.pointer)
  BY <1>1 DEF GateInv, GateTypes, Follows, ToolAt
<1>3. asked \in Seq(STRING) /\ next \in Nat \ {0} /\ next <= Len(asked)
  BY <1>0, <1>1, <1>2, AskedFacts, ToolFields DEF TakesChunk
<1>4. h \in STRING /\ next \in DOMAIN asked
  BY <1>0, <1>3
<1>5. tool' = [loaded EXCEPT !.next = next + 1]
  BY <1>0 DEF TakesChunk
<1>6. Chunk(h) \in Slots /\ tool.busy \in [1..Pool -> Slots]
  BY <1>1, <1>4, ToolFields DEF Slots
<1>7. /\ loaded \in GateTools /\ loaded.phase = "chunks" /\ loaded.kind = tool.kind
      /\ loaded.expects = tool.expects /\ loaded.limit = tool.limit /\ loaded.dir = tool.dir
      /\ loaded.day = tool.day /\ loaded.pointer = tool.pointer /\ loaded.seen = tool.seen
      /\ loaded.busy = [tool.busy EXCEPT ![w] = Chunk(h)]
  BY <1>1, <1>6 DEF GateTools
<1> HIDE DEF loaded
<1>8. /\ tool' \in GateTools /\ tool'.phase = "chunks" /\ tool'.kind = tool.kind
      /\ tool'.expects = tool.expects /\ tool'.limit = tool.limit /\ tool'.dir = tool.dir
      /\ tool'.day = tool.day /\ tool'.pointer = tool.pointer /\ tool'.seen = tool.seen
      /\ tool'.busy = [tool.busy EXCEPT ![w] = Chunk(h)] /\ tool'.next = next + 1
  <2>1. next + 1 \in Nat \ {0}
    BY <1>3
  <2> QED BY <1>5, <1>7, <2>1 DEF GateTools
<1>9. ChunksAsked(tool') = asked
  BY <1>0, <1>8, SameAsked
<1>10. out = <<>> /\ out' = <<>>
  BY <1>1, NothingWritten DEF Quietly
<1>11. GateTypes'
  BY <1>1, <1>2, <1>8, <1>10 DEF GateTypes, Quietly, ToolAt
<1>12. Follows'
  <2>1. Admitted(tool.pointer)'
    BY <1>2, <1>8, AdmittedStays
  <2> QED BY <1>2, <1>8, <2>1 DEF Follows
<1>13. ListIsThere'
  BY <1>1, <1>8 DEF GateInv, ListIsThere
<1>14. PoolInv'
  <2>1. \A g : g # h /\ OnItsWay(g) => OnItsWay(g)'
    <3> SUFFICES ASSUME NEW g, NEW v \in 1..Pool, tool.busy[v] = Chunk(g) PROVE OnItsWay(g)'
      BY DEF OnItsWay
    <3>1. v # w
      BY <1>1 DEF Chunk
    <3>2. tool'.busy[v] = Chunk(g)
      BY <1>6, <1>8, <3>1
    <3> QED BY <3>2 DEF OnItsWay
  <2>2. OnItsWay(h)'
    BY <1>6, <1>8 DEF OnItsWay
  <2>3. \A i \in DOMAIN asked : i < next => asked[i] \in tool.seen \/ OnItsWay(asked[i])
    BY <1>0, <1>1 DEF GateInv, PoolInv, ToolAt
  <2>4. \A i \in DOMAIN asked : i < next + 1 => i < next \/ i = next
    BY <1>3
  <2>5. \A i \in DOMAIN asked : i < next + 1 => asked[i] \in tool.seen \/ OnItsWay(asked[i])'
    BY <1>0, <2>1, <2>2, <2>3, <2>4
  <2>6. \A i \in DOMAIN ChunksAsked(tool') :
          i < tool'.next => ChunksAsked(tool')[i] \in tool'.seen \/ (\E v \in 1..Pool : tool'.busy[v] = Chunk(ChunksAsked(tool')[i]))
    BY <1>8, <1>9, <2>5 DEF OnItsWay
  <2> QED BY <1>8, <2>6 DEF PoolInv, OnItsWay
<1>15. tool.kind = "grade" => tool.limit \in Gradings
  BY DEF GateInv, GradedInv
<1> QED BY <1>8, <1>10, <1>11, <1>12, <1>13, <1>14, <1>15
        DEF GateInv, Gathered, WritingInv, CarriedInv, GradedInv, ToolAt

LEMMA SeenKeeps == ASSUME GateInv, NEW w \in 1..Pool, ChunkSeen(w) PROVE GateInv'
<1>0. PICK asked, next, h : asked = ChunksAsked(tool) /\ next = tool.next /\ h = tool.busy[w].hash
  OBVIOUS
<1> DEFINE freed == [tool EXCEPT !.busy[w] = NoChunk]
<1>1. tool \in GateTools /\ GateTypes /\ tool.phase = "chunks" /\ Quietly /\ tool.busy[w].taken
  BY DEF GateInv, GateTypes, ChunkSeen, ToolAt, Idle
<1>2. tool.kind # "none" /\ tool.pointer \in Tree /\ Admitted(tool.pointer)
  BY <1>1 DEF GateInv, GateTypes, Follows, ToolAt
<1>3. tool' = [freed EXCEPT !.seen = tool.seen \cup {h}]
  BY <1>0 DEF ChunkSeen
<1>4. NoChunk \in Slots /\ tool.busy \in [1..Pool -> Slots] /\ tool.seen \in SUBSET STRING
  BY <1>1, ToolFields DEF Slots
<1>5. tool.busy[w] = Chunk(h) /\ h \in STRING
  <2>1. tool.busy[w] \in Slots /\ tool.busy[w] # NoChunk
    <3>1. ~NoChunk.taken
      BY DEF NoChunk
    <3>2. tool.busy[w] \in Slots
      BY <1>4
    <3> QED BY <1>1, <3>1, <3>2
  <2>2. PICK g \in STRING : tool.busy[w] = Chunk(g)
    BY <2>1 DEF Slots
  <2>3. Chunk(g).hash = g
    BY DEF Chunk
  <2> QED BY <1>0, <2>2, <2>3
<1>6. /\ freed \in GateTools /\ freed.phase = "chunks" /\ freed.kind = tool.kind
      /\ freed.expects = tool.expects /\ freed.limit = tool.limit /\ freed.dir = tool.dir
      /\ freed.day = tool.day /\ freed.pointer = tool.pointer /\ freed.next = tool.next
      /\ freed.busy = [tool.busy EXCEPT ![w] = NoChunk]
  BY <1>1, <1>4 DEF GateTools
<1> HIDE DEF freed
<1>7. /\ tool' \in GateTools /\ tool'.phase = "chunks" /\ tool'.kind = tool.kind
      /\ tool'.expects = tool.expects /\ tool'.limit = tool.limit /\ tool'.dir = tool.dir
      /\ tool'.day = tool.day /\ tool'.pointer = tool.pointer /\ tool'.seen = tool.seen \cup {h}
      /\ tool'.busy = [tool.busy EXCEPT ![w] = NoChunk] /\ tool'.next = tool.next
  BY <1>3, <1>4, <1>5, <1>6 DEF GateTools
<1>8. ChunksAsked(tool') = asked
  BY <1>0, <1>7, SameAsked
<1>9. out = <<>> /\ out' = <<>>
  BY <1>1, NothingWritten DEF Quietly
<1>10. GateTypes'
  BY <1>1, <1>2, <1>7, <1>9 DEF GateTypes, Quietly, ToolAt
<1>11. Follows'
  <2>1. Admitted(tool.pointer)'
    BY <1>2, <1>7, AdmittedStays
  <2> QED BY <1>2, <1>7, <2>1 DEF Follows
<1>12. ListIsThere'
  BY <1>1, <1>7 DEF GateInv, ListIsThere
<1>13. PoolInv'
  <2>1. \A g : OnItsWay(g) => g = h \/ OnItsWay(g)'
    <3> SUFFICES ASSUME NEW g, NEW v \in 1..Pool, tool.busy[v] = Chunk(g), g # h PROVE OnItsWay(g)'
      BY DEF OnItsWay
    <3>1. v # w
      BY <1>5 DEF Chunk
    <3>2. tool'.busy[v] = Chunk(g)
      BY <1>4, <1>7, <3>1
    <3> QED BY <3>2 DEF OnItsWay
  <2>2. \A i \in DOMAIN asked : i < next => asked[i] \in tool.seen \/ OnItsWay(asked[i])
    BY <1>0, <1>1 DEF GateInv, PoolInv, ToolAt
  <2>3. \A i \in DOMAIN ChunksAsked(tool') :
          i < tool'.next => ChunksAsked(tool')[i] \in tool'.seen \/ (\E v \in 1..Pool : tool'.busy[v] = Chunk(ChunksAsked(tool')[i]))
    BY <1>0, <1>7, <1>8, <2>1, <2>2 DEF OnItsWay
  <2> QED BY <1>7, <2>3 DEF PoolInv, OnItsWay
<1>14. tool.kind = "grade" => tool.limit \in Gradings
  BY DEF GateInv, GradedInv
<1> QED BY <1>7, <1>9, <1>10, <1>11, <1>12, <1>13, <1>14
        DEF GateInv, Gathered, WritingInv, CarriedInv, GradedInv, ToolAt

\* A pool that is done: what a tool may conclude from it.
LEMMA PoolFacts ==
  ASSUME GateInv, ToolAt("chunks"), PoolDone(tool)
  PROVE  /\ tool \in GateTools /\ GateTypes /\ tool.kind # "none" /\ out = <<>> /\ AskedAreSeen
         /\ tool.pointer \in Tree /\ Admitted(tool.pointer)
<1>1. tool \in GateTools /\ GateTypes /\ tool.kind # "none"
  BY DEF GateInv, GateTypes, ToolAt
<1>2. AskedAreSeen
  BY <1>1, DoneIsSeen
<1>3. out = <<>>
  BY NothingWritten DEF ToolAt
<1> QED BY <1>1, <1>2, <1>3 DEF GateInv, Follows, ToolAt

\* A tool that moves on from a pool that is done.
LEMMA PassesOn ==
  ASSUME GateInv, ToolAt("chunks"), PoolDone(tool), Quietly, NEW phase \in {"passed", "writing"}, MovesTo(phase)
  PROVE  /\ GateTypes' /\ Follows' /\ ListIsThere' /\ PoolInv' /\ Gathered'
         /\ out = <<>> /\ out' = <<>> /\ tool'.phase = phase /\ tool'.kind = tool.kind /\ tool'.limit = tool.limit
         /\ tool'.pointer = tool.pointer /\ tool'.day = tool.day
<1>1. /\ tool \in GateTools /\ GateTypes /\ tool.kind # "none" /\ out = <<>> /\ AskedAreSeen
      /\ tool.pointer \in Tree /\ Admitted(tool.pointer)
  BY PoolFacts
<1>2. phase \in ToolPhases
  BY DEF ToolPhases
<1>3. /\ tool' \in GateTools /\ tool'.phase = phase
      /\ tool'.kind = tool.kind /\ tool'.expects = tool.expects /\ tool'.limit = tool.limit
      /\ tool'.dir = tool.dir /\ tool'.day = tool.day /\ tool'.pointer = tool.pointer
      /\ tool'.seen = tool.seen /\ ChunksAsked(tool') = ChunksAsked(tool)
  BY <1>1, <1>2, MoveFields
<1>4. out' = <<>>
  BY <1>1 DEF Quietly
<1>5. GateTypes'
  BY <1>1, <1>3, <1>4 DEF GateTypes, Quietly, ToolAt
<1>6. Admitted(tool.pointer)'
  BY <1>1, <1>3, AdmittedStays
<1>7. Follows'
  BY <1>1, <1>3, <1>6 DEF Follows
<1>8. ListIsThere' /\ PoolInv' /\ Gathered'
  BY <1>1, <1>3 DEF GateInv, ListIsThere, PoolInv, Gathered, AskedAreSeen, ToolAt
<1> QED BY <1>1, <1>3, <1>4, <1>5, <1>7, <1>8

LEMMA GateKeeps == ASSUME GateInv, GatePasses PROVE GateInv'
<1>1. MovesTo("passed") /\ ToolAt("chunks") /\ PoolDone(tool) /\ Quietly /\ tool.kind = "verify"
  BY DEF GatePasses, MovesTo
<1>2. /\ GateTypes' /\ Follows' /\ ListIsThere' /\ PoolInv' /\ Gathered'
      /\ out' = <<>> /\ tool'.phase = "passed" /\ tool'.kind = tool.kind
  BY <1>1, PassesOn
<1> QED BY <1>1, <1>2 DEF GateInv, WritingInv, CarriedInv, GradedInv, ToolAt

LEMMA FlushesKeeps == ASSUME GateInv, MirrorFlushes PROVE GateInv'
<1>1. MovesTo("writing") /\ ToolAt("chunks") /\ PoolDone(tool) /\ Quietly /\ tool.kind = "mirror"
  BY DEF MirrorFlushes, MovesTo
<1>2. /\ GateTypes' /\ Follows' /\ ListIsThere' /\ PoolInv' /\ Gathered'
      /\ out' = <<>> /\ tool'.phase = "writing" /\ tool'.kind = tool.kind
  BY <1>1, PassesOn
<1> QED BY <1>1, <1>2 DEF GateInv, WritingInv, CarriedInv, GradedInv, ToolAt

LEMMA GradeKeeps == ASSUME GateInv, GradeEnds PROVE GateInv'
<1>1. ToolAt("chunks") /\ PoolDone(tool) /\ Quietly /\ tool.kind = "grade"
  BY DEF GradeEnds
<1>2. CASE FreshTree(tool.pointer)
  <2>1. MovesTo("passed")
    BY <1>2 DEF GradeEnds, MovesTo
  <2>2. /\ GateTypes' /\ Follows' /\ ListIsThere' /\ PoolInv' /\ Gathered'
        /\ out' = <<>> /\ tool'.phase = "passed" /\ tool'.kind = tool.kind /\ tool'.limit = tool.limit
        /\ tool'.pointer = tool.pointer /\ tool'.day = tool.day
    BY <1>1, <2>1, PassesOn
  <2>3. FreshTree(tool.pointer)'
    BY <1>2, <2>2 DEF FreshTree, FreshnessBreach, GradedAge
  <2>4. GradedInv'
    BY <1>1, <2>2, <2>3 DEF GateInv, GradedInv
  <2> QED BY <1>1, <2>2, <2>4 DEF GateInv, WritingInv, CarriedInv, ToolAt
<1>3. CASE ~FreshTree(tool.pointer)
  <2>1. MovesTo("failed")
    BY <1>3 DEF GradeEnds, MovesTo
  <2> QED BY <1>1, <2>1, StopsKeeps DEF ToolAt
<1> QED BY <1>2, <1>3

LEMMA CarryKeeps == ASSUME GateInv, CarryEnds PROVE GateInv'
<1>1. ToolAt("chunks") /\ PoolDone(tool) /\ Quietly /\ tool.kind = "carry"
  BY DEF CarryEnds
<1>2. CASE ~Carryable(tool.pointer, tool.limit)
  <2>1. MovesTo("failed")
    BY <1>2 DEF CarryEnds, MovesTo
  <2> QED BY <1>1, <2>1, StopsKeeps DEF ToolAt
<1>3. CASE Carryable(tool.pointer, tool.limit)
  <2> DEFINE age == CarriedAge(tool.pointer)
             dated == [tool EXCEPT !.phase = "passed", !.day = day]
  <2>1. /\ tool \in GateTools /\ GateTypes /\ out = <<>> /\ AskedAreSeen
        /\ tool.pointer \in Tree /\ Admitted(tool.pointer)
    BY <1>1, PoolFacts
  <2>2. /\ age # Null /\ Within(day - age.at, tool.limit) /\ DeployedTrees[tool.pointer].counted
        /\ DeployedTrees[tool.pointer].unsound \cap {tool.dir, "catalog"} = {}
    BY <1>3 DEF Carryable
  <2>3. tool' = [dated EXCEPT !.result = age.at]
    BY <1>3 DEF CarryEnds
  <2>4. age.at \in Nat
    <3> DEFINE e == DeployedTrees[tool.pointer].lists[tool.dir]
               made == DeployedTrees[tool.pointer].made
    <3>1. made \in Stamps /\ e \in ListEntries
      BY <1>3, <2>1, GateAssumption DEF Carryable
    <3>2. e.fetchedAt \in Stamps
      BY <3>1 DEF ListEntries
    <3>3. \A v \in Stamps : IsListInstant(v) => v \in Nat
      BY DEF Stamps, IsListInstant
    <3>4. age = ResolveListAge(e, made) /\ age # Null
      BY <2>2 DEF CarriedAge
    <3> HIDE DEF age, e, made
    <3>5. \/ IsListInstant(e.fetchedAt) /\ age = Aged(e.fetchedAt, "fetchedAt")
          \/ IsListInstant(made) /\ age = Aged(made, "generatedAt")
      BY <3>4 DEF ResolveListAge
    <3> QED BY <3>1, <3>2, <3>3, <3>5 DEF Aged
  <2> HIDE DEF age
  <2>5. /\ dated \in GateTools /\ dated.phase = "passed" /\ dated.day = day /\ dated.kind = tool.kind
        /\ dated.expects = tool.expects /\ dated.limit = tool.limit /\ dated.dir = tool.dir
        /\ dated.pointer = tool.pointer /\ dated.seen = tool.seen
    BY <2>1 DEF GateTools, GateTypes, ToolPhases
  <2> HIDE DEF dated
  <2>6. /\ tool' \in GateTools /\ tool'.phase = "passed" /\ tool'.day = day /\ tool'.kind = tool.kind
        /\ tool'.expects = tool.expects /\ tool'.limit = tool.limit /\ tool'.dir = tool.dir
        /\ tool'.pointer = tool.pointer /\ tool'.seen = tool.seen /\ tool'.result = age.at
    BY <2>3, <2>4, <2>5 DEF GateTools
  <2>7. ChunksAsked(tool') = ChunksAsked(tool)
    BY <2>6, SameAsked
  <2>8. out' = <<>> /\ CarriedAge(tool.pointer)' = age
    BY <1>1, <2>1, <2>6 DEF Quietly, age, CarriedAge
  <2>9. GateTypes'
    BY <1>1, <2>1, <2>6, <2>8 DEF GateTypes, Quietly, ToolAt
  <2>10. Admitted(tool.pointer)'
    BY <1>1, <2>1, <2>6, AdmittedStays
  <2>11. Follows'
    BY <2>1, <2>6, <2>10 DEF Follows
  <2>12. ListIsThere' /\ PoolInv' /\ Gathered'
    BY <1>1, <2>1, <2>6, <2>7 DEF GateInv, ListIsThere, PoolInv, Gathered, AskedAreSeen, ToolAt
  <2>13. CarriedInv'
    <3>1. Within(tool'.day - tool'.result, tool'.limit)
      BY <2>2, <2>6
    <3>2. CarriedAge(tool.pointer)' # Null /\ tool'.result = CarriedAge(tool.pointer)'.at
      BY <2>2, <2>6, <2>8
    <3>3. /\ DeployedTrees[tool'.pointer].counted
          /\ DeployedTrees[tool'.pointer].unsound \cap {tool'.dir, "catalog"} = {}
      BY <2>2, <2>6
    <3> QED BY <3>1, <3>2, <3>3 DEF CarriedInv, Within
  <2> QED BY <1>1, <2>6, <2>8, <2>9, <2>11, <2>12, <2>13 DEF GateInv, WritingInv, GradedInv, ToolAt
<1> QED BY <1>2, <1>3

-----------------------------------------------------------------------------
(* The mirror writes.                                                        *)

LEMMA PendingFacts ==
  ASSUME GateInv, tool.pointer \in Tree
  PROVE  /\ Pending \in Seq(Wires) /\ Len(Pending) = 2 + Len(ChunksAsked(tool))
         /\ \A i \in 1..Len(Pending) :
              Pending[i] = IF i = 1 THEN [file |-> "latest", of |-> tool.raw]
                           ELSE IF i = 2 THEN [file |-> "manifest", of |-> tool.pointer]
                           ELSE [file |-> "chunk", of |-> ChunksAsked(tool)[i - 2]]
<1> DEFINE asked == ChunksAsked(tool)
           head == <<[file |-> "latest", of |-> tool.raw], [file |-> "manifest", of |-> tool.pointer]>>
           tail == [i \in 1..Len(asked) |-> [file |-> "chunk", of |-> asked[i]]]
<1>1. asked \in Seq(STRING)
  BY AskedFacts
<1>2. tool.raw \in 0..Len(DeployedTrees) /\ tool.pointer \in 0..Len(DeployedTrees)
  BY DEF GateInv, GateTypes, GateTools
<1> HIDE DEF asked
<1>3. [file |-> "latest", of |-> tool.raw] \in Wires /\ [file |-> "manifest", of |-> tool.pointer] \in Wires
  BY <1>2 DEF Wires
<1>4. \A h \in STRING : [file |-> "chunk", of |-> h] \in Wires
  BY DEF Wires
<1>5. Len(asked) \in Nat /\ \A i \in 1..Len(asked) : asked[i] \in STRING
  BY <1>1
<1>6. head \in Seq(Wires) /\ Len(head) = 2 /\ head[1] = [file |-> "latest", of |-> tool.raw]
      /\ head[2] = [file |-> "manifest", of |-> tool.pointer]
  BY <1>3
<1>7. tail \in [1..Len(asked) -> Wires]
  BY <1>4, <1>5
<1>8. tail \in Seq(Wires) /\ Len(tail) = Len(asked)
  BY <1>5, <1>7
<1>9. \A i \in 1..Len(asked) : tail[i] = [file |-> "chunk", of |-> asked[i]]
  OBVIOUS
<1>10. Pending = head \o tail
  BY DEF Pending, asked
<1> HIDE DEF head, tail
<1>11. Pending \in Seq(Wires) /\ Len(Pending) = 2 + Len(asked)
  <2>1. head \o tail \in Seq(Wires) /\ Len(head \o tail) = Len(head) + Len(tail)
    BY <1>6, <1>8, ConcatProperties
  <2>2. Len(head) + Len(tail) = 2 + Len(asked)
    BY <1>6, <1>8
  <2> QED BY <1>10, <2>1, <2>2
<1>12. \A i \in 1..Len(Pending) : Pending[i] = IF i <= 2 THEN head[i] ELSE tail[i - 2]
  <2>1. \A i \in 1..(Len(head) + Len(tail)) :
          (head \o tail)[i] = IF i <= Len(head) THEN head[i] ELSE tail[i - Len(head)]
    BY <1>6, <1>8, ConcatProperties
  <2>2. Len(Pending) = Len(head) + Len(tail) /\ Len(head) = 2
    BY <1>6, <1>8, <1>11
  <2> QED BY <1>10, <2>1, <2>2
<1>13. ASSUME NEW i \in 1..Len(Pending)
       PROVE  Pending[i] = IF i = 1 THEN [file |-> "latest", of |-> tool.raw]
                           ELSE IF i = 2 THEN [file |-> "manifest", of |-> tool.pointer]
                           ELSE [file |-> "chunk", of |-> asked[i - 2]]
  <2>1. CASE i <= 2
    <3>1. i = 1 \/ i = 2
      BY <2>1
    <3> QED BY <1>6, <1>12, <2>1, <3>1
  <2>2. CASE i > 2
    <3>1. i - 2 \in 1..Len(asked) /\ ~(i <= 2) /\ i # 1 /\ i # 2
      BY <1>5, <1>11, <2>2
    <3> QED BY <1>9, <1>12, <3>1
  <2> QED BY <2>1, <2>2
<1> QED BY <1>11, <1>13 DEF asked

LEMMA WritesKeeps == ASSUME GateInv, MirrorWrites PROVE GateInv'
<1>1. /\ tool \in GateTools /\ GateTypes /\ tool.phase = "writing" /\ tool.kind = "mirror"
      /\ tool.pointer \in Tree /\ Admitted(tool.pointer) /\ AskedAreSeen
      /\ UNCHANGED <<day, held, deploys>>
  BY DEF GateInv, GateTypes, WritingInv, Follows, Gathered, MirrorWrites, ToolAt
<1>2. Pending \in Seq(Wires) /\ Len(Pending) \in Nat \ {0}
  BY <1>1, PendingFacts, AskedFacts
<1>3. out \in Seq(Wires) /\ Len(out) \in Nat /\ (out = <<>> => Len(out) = 0)
  BY <1>1 DEF GateTypes
<1>4. Len(out) <= Len(Pending) /\ \A i \in DOMAIN out : out[i] = Pending[i]
  BY <1>2, <1>3 DEF GateInv, WritingInv
<1>5. CASE Len(out) < Len(Pending)
  <2>1. out' = Append(out, Pending[Len(out) + 1]) /\ tool' = tool
    BY <1>5 DEF MirrorWrites
  <2>2. Len(out) + 1 \in 1..Len(Pending)
    BY <1>2, <1>3, <1>5
  <2>3. Pending[Len(out) + 1] \in Wires
    BY <1>2, <2>2
  <2>4. out' \in Seq(Wires) /\ Len(out') = Len(out) + 1 /\ DOMAIN out' = 1..(Len(out) + 1)
    BY <1>3, <2>1, <2>3, AppendProperties
  <2>5. Pending' = Pending
    BY <2>1 DEF Pending
  <2>6. \A i \in DOMAIN out' : out'[i] = Pending[i]
    BY <1>3, <1>4, <2>1, <2>3, <2>4, AppendProperties
  <2>7. Len(out') <= Len(Pending)
    BY <1>3, <2>2, <2>4
  <2>8. GateTypes'
    BY <1>1, <2>1, <2>4 DEF GateTypes, ToolAt
  <2>9. Follows'
    <3>1. Admitted(tool.pointer)'
      BY <1>1, <2>1, AdmittedStays
    <3> QED BY <1>1, <2>1, <3>1 DEF Follows
  <2>10. ListIsThere' /\ PoolInv' /\ Gathered'
    BY <1>1, <2>1 DEF ListIsThere, PoolInv, Gathered, AskedAreSeen, ToolAt
  <2>11. WritingInv'
    BY <1>1, <2>1, <2>5, <2>6, <2>7 DEF WritingInv, ToolAt
  <2> QED BY <1>1, <2>1, <2>8, <2>9, <2>10, <2>11 DEF GateInv, CarriedInv, GradedInv, ToolAt
<1>6. CASE ~(Len(out) < Len(Pending))
  <2>1. MovesTo("passed") /\ out' = out
    BY <1>6 DEF MirrorWrites, MovesTo
  <2>2. "passed" \in ToolPhases
    BY DEF ToolPhases
  <2>3. /\ tool' \in GateTools /\ tool'.phase = "passed"
        /\ tool'.kind = tool.kind /\ tool'.expects = tool.expects /\ tool'.limit = tool.limit
        /\ tool'.dir = tool.dir /\ tool'.day = tool.day /\ tool'.pointer = tool.pointer
        /\ tool'.seen = tool.seen /\ tool'.raw = tool.raw /\ ChunksAsked(tool') = ChunksAsked(tool)
    BY <1>1, <2>1, <2>2, MoveFields
  <2>4. GateTypes'
    BY <1>1, <2>1, <2>3 DEF GateTypes, ToolAt
  <2>5. Follows'
    <3>1. Admitted(tool.pointer)'
      BY <1>1, <2>3, AdmittedStays
    <3> QED BY <1>1, <2>3, <3>1 DEF Follows
  <2>6. ListIsThere' /\ PoolInv' /\ Gathered'
    BY <1>1, <2>3 DEF ListIsThere, PoolInv, Gathered, AskedAreSeen, ToolAt
  <2>7. Pending' = Pending
    BY <2>3 DEF Pending
  <2>8. Len(out) = Len(Pending)
    BY <1>2, <1>3, <1>4, <1>6
  <2>9. WritingInv'
    BY <1>1, <1>4, <2>1, <2>3, <2>7, <2>8 DEF WritingInv, ToolAt
  <2> QED BY <1>1, <2>3, <2>4, <2>5, <2>6, <2>9 DEF GateInv, CarriedInv, GradedInv, ToolAt
<1> QED BY <1>5, <1>6

-----------------------------------------------------------------------------
(* The specification.                                                        *)

LEMMA GateInitInv == GateInit => GateInv
<1> SUFFICES ASSUME GateInit PROVE GateInv
  OBVIOUS
<1> DEFINE first == NewTool("none", NothingExpected, Absent, "")
<1>1. /\ 1 \in 1..MaxDay /\ 1 \in 1..Tries /\ 0 \in 0..MaxDeploys /\ 0 \in 0..Len(DeployedTrees) /\ 1 \in Tree
  BY GateAssumption DEF Tree
<1>2. /\ day \in 1..MaxDay /\ "none" \in ToolKinds /\ "" \in ToolDirs
      /\ NothingExpected \in Expectable /\ Absent \in Limits
  BY <1>1 DEF GateInit, ToolKinds, ToolDirs, Limits, Expectable
<1>3. first \in GateTools /\ first.kind = "none"
  <2>1. \A k \in ToolKinds, e \in Expectable, l \in Limits, d \in ToolDirs :
          NewTool(k, e, l, d) \in GateTools /\ NewTool(k, e, l, d).kind = k
    <3> SUFFICES ASSUME NEW k \in ToolKinds, NEW e \in Expectable, NEW l \in Limits,
                        NEW d \in ToolDirs
                 PROVE  NewTool(k, e, l, d) \in GateTools /\ NewTool(k, e, l, d).kind = k
      OBVIOUS
    <3>1. day \in 1..MaxDay
      BY <1>2
    <3> HIDE DEF first
    <3> QED BY <3>1, NewToolFacts
  <2> QED BY <1>2, <2>1
<1>4. tool = [first EXCEPT !.phase = "passed"]
  BY DEF GateInit, NothingExpected
<1> HIDE DEF first
<1>5. tool \in GateTools /\ tool.kind = "none" /\ tool.phase = "passed"
  BY <1>3, <1>4 DEF GateTools, ToolPhases
<1>6. GateTypes
  <2>1. out \in Seq(Wires) /\ held \in SUBSET Tree /\ held # {} /\ deploys \in 0..MaxDeploys
    <3>1. out = <<>> /\ held = {1} /\ deploys = 0
      BY DEF GateInit
    <3>2. <<>> \in Seq(Wires)
      OBVIOUS
    <3> QED BY <1>1, <3>1, <3>2
  <2> QED BY <1>2, <1>5, <2>1 DEF GateTypes, ToolAt
<1> QED BY <1>5, <1>6
        DEF GateInit, GateInv, Follows, ListIsThere, PoolInv, Gathered, WritingInv, CarriedInv, GradedInv, ToolAt

LEMMA GateStepInv == GateInv /\ [GateNext]_gateVars => GateInv'
<1> SUFFICES ASSUME GateInv, [GateNext]_gateVars PROVE GateInv'
  OBVIOUS
<1>1. ASSUME NEW t \in Tree, Deploys(t) \/ Spreads(t) PROVE GateInv'
  <2>1. /\ day' \in 1..MaxDay /\ deploys' \in 0..MaxDeploys
        /\ held' \in SUBSET Tree /\ held' # {} /\ UNCHANGED <<tool, out>>
    BY <1>1, GateAssumption DEF GateInv, GateTypes, Deploys, Spreads
  <2> QED BY <2>1, OriginKeeps
<1>2. CASE DayPasses
  <2>1. /\ day' \in 1..MaxDay /\ deploys' \in 0..MaxDeploys
        /\ held' \in SUBSET Tree /\ held' # {} /\ UNCHANGED <<tool, out>>
    BY <1>2, GateAssumption DEF GateInv, GateTypes, DayPasses
  <2> QED BY <2>1, OriginKeeps
<1>3. CASE UNCHANGED gateVars
  <2>1. /\ day' \in 1..MaxDay /\ deploys' \in 0..MaxDeploys
        /\ held' \in SUBSET Tree /\ held' # {} /\ UNCHANGED <<tool, out>>
    BY <1>3 DEF GateInv, GateTypes, gateVars
  <2> QED BY <2>1, OriginKeeps
<1>4. CASE RequestFails
  BY <1>4, AbortsKeeps DEF RequestFails
<1>5. CASE DiskFull
  <2>1. MovesTo("failed")
    BY <1>5 DEF DiskFull, MovesTo
  <2> QED BY <1>5, <2>1, StopsKeeps DEF DiskFull
<1> QED
  BY <1>1, <1>2, <1>3, <1>4, <1>5, InvokesKeeps, TriesAgainKeeps, ReadsRawKeeps, PointerKeeps, ManifestKeeps,
     TakesKeeps, SeenKeeps, GateKeeps, CarryKeeps, GradeKeeps, FlushesKeeps, WritesKeeps DEF GateNext

LEMMA GateAlways == GateSpec => []GateInv
BY GateInitInv, GateStepInv, PTL DEF GateSpec

\* A tool that reads the origin back is one of the five, at one of its steps, and follows a
\* deployment there was.
THEOREM GateTypeCorrect == GateSpec => []GateTypeOK
<1>1. GateInv => GateTypeOK
  BY DEF GateInv, GateTypes, GateTypeOK, GateTools, ToolKinds, ToolPhases
<1> QED BY <1>1, GateAlways, PTL

LEMMA ListFacts ==
  ASSUME NEW t \in Tree, NEW l \in DOMAIN DeployedTrees[t].lists, FreshTree(t), tool.limit \in Gradings, tool.day \in Nat
  PROVE  ListIsFresh(DeployedTrees[t].lists[l], DeployedTrees[t].made)
<1> DEFINE e == DeployedTrees[t].lists[l]
           made == DeployedTrees[t].made
           age == ResolveListAge(e, made)
           known == ResolveListFreshness(e, made)
<1>1. e \in ListEntries /\ made \in Stamps
  BY GateAssumption
<1>2. ~FreshnessBreach(e, made) /\ ~ShapeBreach(e)
  BY DEF FreshTree
<1>3. /\ tool.limit.age \in Nat /\ tool.limit.carry \in Nat \cup {Absent}
  BY GateAssumption
<1> HIDE DEF e, made
<1>4. GradedAge(e, made) # Null
  BY <1>2 DEF FreshnessBreach, Past
<1>5. age # Null /\ GradedAge(e, made) = tool.day - age.at
  BY <1>4 DEF GradedAge
<1>6. e.stale = TRUE => tool.limit.carry # Absent
  BY <1>2 DEF FreshnessBreach
<1>7. \/ HasFetchedAt(e) /\ IsListInstant(e.fetchedAt) /\ age = Aged(e.fetchedAt, "fetchedAt")
      \/ ~HasFetchedAt(e) /\ IsListInstant(made) /\ age = Aged(made, "generatedAt")
  BY <1>5 DEF ResolveListAge
<1>8. /\ e.fetchedAt \in Stamps /\ e.source \in Stamps /\ e.stale \in BOOLEAN \cup {Absent, Malformed}
      /\ e.reason \in {"feed", Null, Absent, Malformed}
  BY <1>1 DEF ListEntries
<1>9. age \in Ages /\ age.at \in Nat
  BY <1>1, <1>7, <1>8 DEF Aged, Ages, IsListInstant, Stamps
<1> DEFINE bar == IF e.stale = TRUE THEN tool.limit.carry ELSE tool.limit.age
<1>10. tool.day - age.at <= bar
  <2>1. ~Past(tool.day - age.at, bar)
    BY <1>2, <1>5, <1>6 DEF FreshnessBreach
  <2>2. bar \in Nat
    BY <1>3, <1>6
  <2>3. tool.day - age.at \in Int
    BY <1>9
  <2> HIDE DEF bar, age
  <2> QED BY <2>1, <2>2, <2>3 DEF Past
<1> DEFINE source == ResolveSource(e.source)
           rejected == \/ age.from = "fetchedAt" /\ e.source = Absent
                       \/ source = Malformed
                       \/ ~StalenessProven(e, age.from = "fetchedAt")
           opened == [age |-> age, stale |-> e.stale = TRUE, source |-> source]
<1>11. known = IF rejected THEN Null ELSE opened
  BY <1>5 DEF ResolveListFreshness
<1> HIDE DEF age
<1>12. ~rejected => opened # Null
  <2> SUFFICES ASSUME ~rejected PROVE opened # Null
    OBVIOUS
  <2>1. source \in Nat \cup {Null}
    BY <1>8 DEF ResolveSource, Stamps
  <2>2. opened \in [age : Ages, stale : BOOLEAN, source : Nat \cup {Null}]
    BY <1>9, <2>1
  <2> QED BY <2>2, ListAgeAssumption
<1>13. rejected => Unlooked(e)
  <2> SUFFICES ASSUME rejected PROVE Unlooked(e)
    OBVIOUS
  <2>1. source = Malformed => e.source = Malformed
    BY ListAgeAssumption DEF ResolveSource
  <2>2. CASE HasFetchedAt(e)
    <3>1. age.from = "fetchedAt"
      BY <1>7, <2>2 DEF Aged
    <3>2. e.stale \notin {Absent, Malformed} /\ e.reason \notin {Absent, Malformed}
      BY <1>2, <2>2 DEF ShapeBreach
    <3>3. StalenessProven(e, TRUE)
      BY <1>8, <3>2 DEF StalenessProven
    <3> QED BY <2>1, <2>2, <3>1, <3>3 DEF Unlooked
  <2>3. CASE ~HasFetchedAt(e)
    <3>1. age.from # "fetchedAt"
      BY <1>7, <2>3 DEF Aged
    <3>2. StalenessProven(e, FALSE) \/ e.stale = Malformed \/ e.reason = Malformed
      BY <1>8 DEF StalenessProven
    <3> QED BY <2>1, <2>3, <3>1, <3>2 DEF Unlooked
  <2> QED BY <2>2, <2>3
<1>14. IF known = Null THEN Unlooked(e) ELSE known.age = age /\ known.stale = (e.stale = TRUE)
  <2>1. opened.age = age /\ opened.stale = (e.stale = TRUE)
    OBVIOUS
  <2> HIDE DEF rejected, opened, known
  <2> QED BY <1>11, <1>12, <1>13, <2>1
<1> QED BY <1>5, <1>6, <1>10, <1>14 DEF ListIsFresh, age, e, made

\* Gates of the live origin (verifyPublishedOrigin.ts, mirrorPublishedOrigin.ts,
\* carryForwardList.ts, checkPublishedFreshness.ts): for any deployments, edges that answer
\* from any of them, and limits, what a tool accepts is one bundle under our signature, of
\* which every chunk it needs was verified; the mirror writes that bundle and no older one
\* than its ceiling, a list is carried with its own age, and what is graded fresh is.
THEOREM GatesStaySound == GateSpec => []GateIsSound
<1>1. ASSUME GateInv PROVE GateIsSound
  <2> DEFINE t == tool.pointer
  <2>1. tool \in GateTools /\ tool.day \in Nat
    BY <1>1, GateAssumption DEF GateInv, GateTypes, GateTools
  <2>2. ToolAt("passed") /\ tool.kind # "none" => t \in Tree /\ Admitted(t)
    BY <1>1 DEF GateInv, Follows, ToolAt
  <2>3. ASSUME t \in Tree, Admitted(t) PROVE DeployedTrees[t].signed
    BY <2>3 DEF Admitted, IsPointer
  <2>4. tool.kind \in {"verify", "mirror"} /\ t \in Tree => Range(ChunksAsked(tool)) = ChunksOf(t)
    BY AskedFacts
  <2>5. tool.kind \notin {"none", "sequence"} /\ ToolAt("passed") => AskedAreSeen
    BY <1>1 DEF GateInv, Gathered, ToolAt
  <2>6. CASE tool.kind = "verify" /\ ToolAt("passed")
    <3>1. DeployedTrees[t].signed /\ AsExpected(t, tool.expects)
      BY <2>2, <2>3, <2>6 DEF Admitted
    <3>2. Whole(t)
      BY <2>2, <2>4, <2>5, <2>6 DEF Whole, AskedAreSeen
    <3> QED BY <2>6, <3>1, <3>2 DEF GateIsSound
  <2>7. CASE tool.kind = "mirror" /\ (out # <<>> \/ ToolAt("passed"))
    <3>1. t \in Tree /\ Admitted(t) /\ AskedAreSeen /\ Range(ChunksAsked(tool)) = ChunksOf(t)
      BY <1>1, <2>4, <2>7 DEF GateInv, Follows, Gathered, ToolAt
    <3>2. DeployedTrees[t].signed /\ Whole(t) /\ Within(BundleAge(t), tool.limit)
      BY <2>3, <2>7, <3>1 DEF Whole, AskedAreSeen, Admitted
    <3> DEFINE asked == ChunksAsked(tool)
    <3>3. asked \in Seq(STRING) /\ Len(Pending) = 2 + Len(asked)
          /\ \A i \in 1..Len(Pending) :
               Pending[i] = IF i = 1 THEN [file |-> "latest", of |-> tool.raw]
                            ELSE IF i = 2 THEN [file |-> "manifest", of |-> t]
                            ELSE [file |-> "chunk", of |-> asked[i - 2]]
      BY <1>1, <3>1, AskedFacts, PendingFacts
    <3>4. /\ out \in Seq(Wires) /\ Len(out) <= Len(Pending)
          /\ \A i \in DOMAIN out : out[i] = Pending[i]
          /\ ToolAt("passed") => Len(out) = Len(Pending)
      BY <1>1, <2>7, <3>3 DEF GateInv, GateTypes, WritingInv
    <3> HIDE DEF asked, t
    <3>5. \A i \in DOMAIN out : i \in 1..Len(Pending)
      BY <3>3, <3>4
    <3>6. ASSUME NEW i \in DOMAIN out, out[i].file = "manifest" PROVE out[i].of = t
      BY <3>3, <3>4, <3>5, <3>6
    <3>7. ASSUME NEW i \in DOMAIN out, out[i].file = "chunk" PROVE out[i].of \in Range(asked)
      <4>1. i > 2 /\ out[i].of = asked[i - 2]
        BY <3>3, <3>4, <3>5, <3>7
      <4>2. i - 2 \in DOMAIN asked
        BY <3>3, <3>5, <4>1
      <4> QED BY <4>1, <4>2 DEF Range
    <3>8. ASSUME ToolAt("passed"), NEW n \in DOMAIN asked
          PROVE  \E i \in DOMAIN out : out[i].file = "chunk" /\ out[i].of = asked[n]
      <4>1. n \in 1..Len(asked) /\ Len(asked) \in Nat /\ Len(out) = 2 + Len(asked)
        BY <3>3, <3>4, <3>8
      <4>2. n + 2 \in DOMAIN out /\ n + 2 \in 1..Len(Pending) /\ n + 2 # 1 /\ n + 2 # 2 /\ (n + 2) - 2 = n
        BY <3>3, <3>4, <4>1
      <4>3. out[n + 2] = [file |-> "chunk", of |-> asked[n]]
        BY <3>3, <3>4, <4>2
      <4> QED BY <4>2, <4>3
    <3>9. WrittenOf("manifest") \subseteq {t} /\ WrittenOf("chunk") \subseteq Range(asked)
      BY <3>6, <3>7 DEF WrittenOf
    <3>10. ToolAt("passed") => Range(asked) \subseteq WrittenOf("chunk")
      BY <3>8 DEF WrittenOf, Range
    <3> QED BY <2>7, <3>1, <3>2, <3>9, <3>10 DEF GateIsSound, t, asked
  <2>8. CASE tool.kind = "carry" /\ ToolAt("passed")
    <3>1. /\ DeployedTrees[t].signed /\ AskedAreSeen /\ HasList(t, tool.dir)
      BY <1>1, <2>2, <2>3, <2>5, <2>8 DEF GateInv, ListIsThere, ToolAt
    <3> QED BY <1>1, <2>8, <3>1 DEF GateIsSound, GateInv, CarriedInv, CarriedAge
  <2>9. CASE tool.kind = "grade" /\ ToolAt("passed")
    <3>1. DeployedTrees[t].signed /\ AskedAreSeen /\ t \in Tree
      BY <2>2, <2>3, <2>5, <2>9
    <3>2. tool.limit \in Gradings /\ FreshTree(t)
      BY <1>1, <2>9 DEF GateInv, GradedInv
    <3>3. \A l \in DOMAIN DeployedTrees[t].lists : ListIsFresh(DeployedTrees[t].lists[l], DeployedTrees[t].made)
      BY <2>1, <3>1, <3>2, ListFacts
    <3>4. \A l \in tool.limit.expect : l \in DOMAIN DeployedTrees[t].lists /\ DeployedTrees[t].lists[l].count > 0
      <4> SUFFICES ASSUME NEW l \in tool.limit.expect
                   PROVE  l \in DOMAIN DeployedTrees[t].lists /\ DeployedTrees[t].lists[l].count > 0
        OBVIOUS
      <4>1. ~Uncovered(DeployedTrees[t].lists, l)
        BY <3>2 DEF FreshTree
      <4>2. /\ l \in DOMAIN DeployedTrees[t].lists /\ DeployedTrees[t].lists[l].count # Absent
            /\ DeployedTrees[t].lists[l].count # 0
        BY <4>1 DEF Uncovered
      <4>3. DeployedTrees[t].lists[l] \in ListEntries
        BY <3>1, <4>2, GateAssumption
      <4>4. DeployedTrees[t].lists[l].count \in Nat
        BY <4>2, <4>3 DEF ListEntries
      <4> QED BY <4>2, <4>4
    <3> QED BY <2>9, <3>1, <3>3, <3>4 DEF GateIsSound
  <2> QED BY <2>6, <2>7, <2>8, <2>9 DEF GateIsSound
<1> QED BY <1>1, GateAlways, PTL

-----------------------------------------------------------------------------
(* The stream of the aliases.                                                *)

\* The names of r that the feed holds behind b, up to c.
NamesBetween(f, known, r, b, c) ==
  {n \in Script \ ({Latin} \cap known) :
     \E k \in 1..Len(f) : /\ b < k /\ k <= c /\ f[k] = n
                          /\ \E o \in 1..k : Holds(f, o, k) /\ f[o + Len(PartyOpen)] = r}

\* No party is open at b, and no complete one lies between b and h.
NoneOpenAt(f, b) ==
  \A o \in TagsIn(f, PartyOpen) : o <= b => \E d \in TagsIn(f, PartyClose) : o < d /\ d < b
Exhausted(f, b, h) ==
  \A o \in TagsIn(f, PartyOpen), d \in TagsIn(f, PartyClose) : b < o /\ o < d => ~(d < h)

\* The window s holds the feed behind b, up to h.
Shows(s, f, b, h) == s \in Seq(STRING) /\ Len(s) = h - b /\ \A k \in 1..Len(s) : s[k] = f[b + k]

Found == [PartyRefs -> SUBSET Script]

\* What draining yields, from the place q of the feed on: all that is complete, once.
Drains(res, f, known, found, q, h) ==
  \E b \in q..h :
    /\ Shows(res.left, f, b, h) /\ NoneOpenAt(f, b) /\ Exhausted(f, b, h)
    /\ \A r \in PartyRefs : res.found[r] = found[r] \cup NamesBetween(f, known, r, q, b)

\* The names of the party that begins at i and ends at j.
BlockOf(f, known, i, j) ==
  {n \in Script \ ({Latin} \cap known) : \E k \in 1..Len(f) : i + 2 < k /\ k < j /\ f[k] = n}

LEMMA TagLength == Len(PartyOpen) = 2 /\ Len(PartyClose) = 2
BY DEF PartyOpen, PartyClose

\* The first of the tags is one of them.
LEMMA FirstFromIs ==
  ASSUME NEW s \in Seq(STRING), NEW tag, NEW i \in Nat
  PROVE  LET k == FirstFrom(s, tag, i)
         IN \/ k = 0 /\ \A j \in TagsIn(s, tag) : ~(i <= j)
            \/ k \in TagsIn(s, tag) /\ i <= k /\ \A j \in TagsIn(s, tag) : i <= j => k <= j
<1> DEFINE hits == {k \in TagsIn(s, tag) : k >= i}
<1>1. hits \in SUBSET Nat /\ \A j : j \in hits <=> j \in TagsIn(s, tag) /\ i <= j
  BY DEF TagsIn
<1>2. FirstFrom(s, tag, i) = IF hits = {} THEN 0 ELSE Min(hits)
  BY DEF FirstFrom, Min
<1> HIDE DEF hits
<1>3. hits # {} => Min(hits) \in hits /\ \A j \in hits : Min(hits) <= j
  BY <1>1, LeastOf
<1> QED BY <1>1, <1>2, <1>3

\* The tags in a window are those of the feed that end in it.
LEMMA WindowTags ==
  ASSUME NEW f \in Seq(STRING), NEW b \in Nat, NEW h \in Nat, b <= h, h <= Len(f), NEW s, Shows(s, f, b, h),
         NEW tag, NEW k \in Int
  PROVE  /\ k \in TagsIn(s, tag) => b + k \in TagsIn(f, tag) /\ b < b + k /\ b + k < h /\ k \in 1..Len(s) - 1
         /\ b < k /\ k < h /\ k \in TagsIn(f, tag) => k - b \in TagsIn(s, tag)
<1>1. ASSUME k \in TagsIn(s, tag)
      PROVE  b + k \in TagsIn(f, tag) /\ b < b + k /\ b + k < h /\ k \in 1..Len(s) - 1
  <2>1. k \in 1..Len(s) - 1 /\ s[k] = tag[1] /\ s[k + 1] = tag[2]
    BY <1>1 DEF TagsIn
  <2>2. k \in 1..Len(s) /\ k + 1 \in 1..Len(s) /\ Len(s) = h - b
    BY <2>1 DEF Shows
  <2>3. s[k] = f[b + k] /\ s[k + 1] = f[b + (k + 1)]
    BY <2>2 DEF Shows
  <2>4. b + (k + 1) = (b + k) + 1 /\ b + k \in 1..Len(f) - 1 /\ b + k < h /\ b < b + k
    BY <2>1, <2>2
  <2> QED BY <2>1, <2>3, <2>4 DEF TagsIn
<1>2. ASSUME b < k, k < h, k \in TagsIn(f, tag) PROVE k - b \in TagsIn(s, tag)
  <2>1. k \in 1..Len(f) - 1 /\ f[k] = tag[1] /\ f[k + 1] = tag[2]
    BY <1>2 DEF TagsIn
  <2>2. k - b \in 1..Len(s) - 1 /\ k - b \in 1..Len(s) /\ (k - b) + 1 \in 1..Len(s)
    BY <1>2 DEF Shows
  <2>3. s[k - b] = f[b + (k - b)] /\ s[(k - b) + 1] = f[b + ((k - b) + 1)]
    BY <2>2 DEF Shows
  <2>4. b + (k - b) = k /\ b + ((k - b) + 1) = k + 1
    OBVIOUS
  <2> QED BY <2>1, <2>2, <2>3, <2>4 DEF TagsIn
<1> QED BY <1>1, <1>2

\* Tags do not overlap, and no name is part of one.
LEMMA TagsApart ==
  ASSUME NEW f \in Seq(STRING), NEW o \in TagsIn(f, PartyOpen), NEW d \in TagsIn(f, PartyClose)
  PROVE  /\ o \in Nat \ {0} /\ d \in Nat \ {0} /\ o < Len(f) /\ d < Len(f)
         /\ o # d /\ o # d + 1 /\ d # o + 1
         /\ \A k \in Nat : f[k] \in Script => k # d /\ k # d + 1
<1>1. f[o] = "<" /\ f[o + 1] = "P" /\ f[d] = "/" /\ f[d + 1] = "P" /\ o \in 1..Len(f) - 1 /\ d \in 1..Len(f) - 1
  BY DEF TagsIn, PartyOpen, PartyClose
<1> QED BY <1>1 DEF Script

\* Where no party begins between q and c, there is no name, and none is open at c if none is at q.
LEMMA NothingTaken ==
  ASSUME NEW f \in Seq(STRING), NEW q \in Nat, NEW c \in Nat, q <= c, NoneOpenAt(f, q),
         \A o \in TagsIn(f, PartyOpen) : ~(q < o /\ o <= c)
  PROVE  NoneOpenAt(f, c) /\ \A r, known : NamesBetween(f, known, r, q, c) = {}
<1>0. \A t : TagsIn(f, t) \subseteq Nat
  BY DEF TagsIn
<1>1. NoneOpenAt(f, c)
  BY <1>0 DEF NoneOpenAt
<1>2. ASSUME NEW k \in 1..Len(f), NEW o \in 1..k, q < k, k <= c, Holds(f, o, k) PROVE FALSE
  <2>1. /\ o \in TagsIn(f, PartyOpen) /\ o + 2 < k
        /\ \A d \in TagsIn(f, PartyClose) : ~(o < d /\ d < k)
    BY <1>2, TagLength DEF Holds
  <2>2. o <= q
    BY <2>1, <1>2
  <2>3. PICK d \in TagsIn(f, PartyClose) : o < d /\ d < q
    BY <2>1, <2>2 DEF NoneOpenAt
  <2> QED BY <1>0, <1>2, <2>1, <2>3
<1>3. ASSUME NEW r, NEW known, NEW n, n \in NamesBetween(f, known, r, q, c) PROVE FALSE
  BY <1>2, <1>3 DEF NamesBetween
<1> QED BY <1>1, <1>3

\* A party that begins first after q, and its close: its names are those of the block.
LEMMA PartyTaken ==
  ASSUME NEW f \in Seq(STRING), NEW q \in Nat, NoneOpenAt(f, q),
         NEW i \in TagsIn(f, PartyOpen), q < i, \A o \in TagsIn(f, PartyOpen) : ~(q < o /\ o < i),
         NEW j \in TagsIn(f, PartyClose), i < j, \A d \in TagsIn(f, PartyClose) : ~(i < d /\ d < j)
  PROVE  /\ NoneOpenAt(f, j + 1)
         /\ \A r, known : NamesBetween(f, known, r, q, j + 1) =
              IF f[i + 2] = r THEN BlockOf(f, known, i, j) ELSE {}
<1>0. \A t : TagsIn(f, t) \subseteq Nat \ {0}
  BY DEF TagsIn
<1>1. NoneOpenAt(f, j + 1)
  <2> SUFFICES ASSUME NEW o \in TagsIn(f, PartyOpen), o <= j + 1
               PROVE \E d \in TagsIn(f, PartyClose) : o < d /\ d < j + 1
    BY DEF NoneOpenAt
  <2>1. o # j /\ o # j + 1 /\ o \in Nat /\ j \in Nat /\ q \in Nat
    BY <1>0, TagsApart
  <2>2. CASE o <= q
    <3>1. PICK d \in TagsIn(f, PartyClose) : o < d /\ d < q
      BY <2>2 DEF NoneOpenAt
    <3> QED BY <1>0, <3>1
  <2>3. CASE q < o
    BY <1>0, <2>1
  <2> QED BY <2>1, <2>2, <2>3
<1>2. Begins(f, i)
  <2> SUFFICES ASSUME NEW p \in TagsIn(f, PartyOpen), p < i
               PROVE \E d \in TagsIn(f, PartyClose) : p < d /\ d < i
    BY DEF Begins
  <2>1. p <= q
    BY <1>0
  <2>2. PICK d \in TagsIn(f, PartyClose) : p < d /\ d < q
    BY <2>1 DEF NoneOpenAt
  <2> QED BY <1>0, <2>2
<1>3. ASSUME NEW k \in 1..Len(f), i + 2 < k, k < j PROVE i \in 1..k /\ Holds(f, i, k)
  <2>1. i \in Nat \ {0} /\ j \in Nat /\ \A d \in TagsIn(f, PartyClose) : d \in Nat
    BY <1>0
  <2>2. \A d \in TagsIn(f, PartyClose) : ~(i < d /\ d < k)
    BY <2>1, <1>3
  <2> QED BY <1>2, <1>3, <2>1, <2>2, TagLength DEF Holds
<1>4. ASSUME NEW k \in 1..Len(f), NEW o \in 1..k, q < k, k <= j + 1, f[k] \in Script, Holds(f, o, k)
      PROVE  o = i /\ i + 2 < k /\ k < j
  <2>1. /\ o \in TagsIn(f, PartyOpen) /\ o + 2 < k /\ Begins(f, o)
        /\ \A d \in TagsIn(f, PartyClose) : ~(o < d /\ d < k)
    BY <1>4, TagLength DEF Holds
  <2>2. k # j /\ k # j + 1 /\ j \in Nat /\ i \in Nat /\ k \in Nat
    BY <1>0, <1>4, TagsApart
  <2>3. k < j
    BY <1>4, <2>2
  <2>4. q < o
    <3> SUFFICES ASSUME o <= q PROVE FALSE
      BY <1>0
    <3>1. PICK d \in TagsIn(f, PartyClose) : o < d /\ d < q
      BY <2>1 DEF NoneOpenAt
    <3> QED BY <1>0, <1>4, <2>1, <3>1
  <2>5. i <= o
    BY <1>0, <2>1, <2>4
  <2>6. o = i
    <3> SUFFICES ASSUME i < o PROVE FALSE
      BY <1>0, <2>5
    <3>1. PICK d \in TagsIn(f, PartyClose) : i < d /\ d < o
      BY <2>1 DEF Begins
    <3> QED BY <1>0, <2>1, <2>2, <2>3, <3>1
  <2> QED BY <2>1, <2>3, <2>6
<1>5. ASSUME NEW r, NEW known
      PROVE NamesBetween(f, known, r, q, j + 1) =
              IF f[i + 2] = r THEN BlockOf(f, known, i, j) ELSE {}
  <2>1. ASSUME NEW n \in NamesBetween(f, known, r, q, j + 1)
        PROVE  /\ n \in Script \ ({Latin} \cap known) /\ f[i + 2] = r
               /\ \E k \in 1..Len(f) : i + 2 < k /\ k < j /\ f[k] = n
    <3>1. PICK k \in 1..Len(f) : /\ n \in Script \ ({Latin} \cap known) /\ q < k /\ k <= j + 1 /\ f[k] = n
                                 /\ \E o \in 1..k : Holds(f, o, k) /\ f[o + 2] = r
      BY <2>1, TagLength DEF NamesBetween
    <3>2. PICK o \in 1..k : Holds(f, o, k) /\ f[o + 2] = r
      BY <3>1
    <3>3. o = i /\ i + 2 < k /\ k < j
      BY <1>4, <3>1, <3>2
    <3> QED BY <3>1, <3>2, <3>3
  <2>2. ASSUME NEW n \in Script \ ({Latin} \cap known), f[i + 2] = r,
               NEW k \in 1..Len(f), i + 2 < k, k < j, f[k] = n
        PROVE  n \in NamesBetween(f, known, r, q, j + 1)
    <3>1. i \in 1..k /\ Holds(f, i, k)
      BY <1>3, <2>2
    <3>2. q < k /\ k <= j + 1
      BY <1>0, <2>2
    <3> QED BY <2>2, <3>1, <3>2, TagLength DEF NamesBetween
  <2> QED BY <2>1, <2>2 DEF BlockOf
<1> QED BY <1>1, <1>5

\* What lies behind q lies up to m or behind m.
LEMMA NamesSplit ==
  ASSUME NEW f \in Seq(STRING), NEW q \in Nat, NEW m \in Nat, NEW c \in Nat, q <= m, m <= c, NEW r, NEW known
  PROVE  NamesBetween(f, known, r, q, c) = NamesBetween(f, known, r, q, m) \cup NamesBetween(f, known, r, m, c)
<1>1. \A k \in 1..Len(f) : q < k /\ k <= c <=> (q < k /\ k <= m) \/ (m < k /\ k <= c)
  OBVIOUS
<1> QED BY <1>1 DEF NamesBetween

\* What is kept of a window in which no party begins from i on.
LEMMA LeftoverIs ==
  ASSUME NEW s \in Seq(STRING), NEW i \in 1..Len(s) + 1
  PROVE  \E n \in 0..Len(s) : /\ n = i - 1 \/ (n = Len(s) - 2 /\ i <= n + 1)
                              /\ Leftover(s, i) = SubSeq(s, n + 1, Len(s))
<1> DEFINE keep == Len(s) - 2 + 1
<1>1. Leftover(s, i) = SubSeq(s, IF keep > i THEN keep ELSE i, Len(s))
  BY TagLength DEF Leftover
<1>2. CASE keep > i
  <2>1. Leftover(s, i) = SubSeq(s, (Len(s) - 2) + 1, Len(s)) /\ Len(s) - 2 \in 0..Len(s) /\ i <= (Len(s) - 2) + 1
    BY <1>1, <1>2
  <2> QED BY <2>1
<1>3. CASE ~(keep > i)
  <2>1. Leftover(s, i) = SubSeq(s, (i - 1) + 1, Len(s)) /\ i - 1 \in 0..Len(s)
    BY <1>1, <1>3
  <2> QED BY <2>1
<1> QED BY <1>2, <1>3

\* The tail of a window shows the feed from a later place on.
LEMMA TailShows ==
  ASSUME NEW f \in Seq(STRING), NEW b \in Nat, NEW h \in Nat, b <= h, h <= Len(f), NEW s, Shows(s, f, b, h),
         NEW n \in 0..Len(s)
  PROVE  Shows(SubSeq(s, n + 1, Len(s)), f, b + n, h) /\ b + n \in b..h
<1> DEFINE t == SubSeq(s, n + 1, Len(s))
<1>1. s \in Seq(STRING) /\ Len(s) = h - b
  BY DEF Shows
<1>2. t \in Seq(STRING) /\ Len(t) = Len(s) - n /\ \A k \in 1..Len(t) : t[k] = s[n + k]
  <2>1. n + 1 \in 1..Len(s) + 1 /\ Len(s) \in 0..Len(s) /\ n + 1 <= Len(s) + 1
    BY <1>1
  <2>2. Len(t) = IF n + 1 <= Len(s) THEN Len(s) - (n + 1) + 1 ELSE 0
    BY <1>1, <2>1, SubSeqProperties
  <2>3. \A k \in 1..(Len(s) - (n + 1) + 1) : t[k] = s[(n + 1) + k - 1]
    BY <1>1, <2>1, SubSeqProperties
  <2>4. t \in Seq(STRING)
    BY <1>1, <2>1, SubSeqProperties
  <2>5. Len(t) = Len(s) - n
    BY <1>1, <2>2
  <2>6. ASSUME NEW k \in 1..Len(t) PROVE t[k] = s[n + k]
    <3>1. k \in 1..(Len(s) - (n + 1) + 1) /\ (n + 1) + k - 1 = n + k
      BY <1>1, <2>5
    <3> QED BY <2>3, <3>1
  <2> QED BY <2>4, <2>5, <2>6
<1> HIDE DEF t
<1>3. ASSUME NEW k \in 1..Len(t) PROVE t[k] = f[(b + n) + k]
  <2>1. n + k \in 1..Len(s) /\ b + (n + k) = (b + n) + k
    BY <1>1, <1>2
  <2> QED BY <1>2, <2>1 DEF Shows
<1>4. Len(t) = h - (b + n) /\ b + n \in b..h
  BY <1>1, <1>2
<1> QED BY <1>2, <1>3, <1>4 DEF Shows, t

\* The names of a block of a window are those of the feed.
LEMMA BlockNames ==
  ASSUME NEW f \in Seq(STRING), NEW b \in Nat, NEW h \in Nat, b <= h, h <= Len(f), NEW s, Shows(s, f, b, h),
         NEW i \in Nat \ {0}, NEW j \in Nat, i + 2 <= j, j < Len(s), NEW known
  PROVE  /\ NamesIn(SubSeq(s, i + 2 + 1, j - 1), known) = BlockOf(f, known, b + i, b + j)
         /\ s[i + 2] = f[b + i + 2]
<1> DEFINE t == SubSeq(s, i + 2 + 1, j - 1)
<1>1. s \in Seq(STRING) /\ Len(s) = h - b
  BY DEF Shows
<1>2. Len(t) = (IF i + 2 < j THEN j - 1 - (i + 2) ELSE 0) /\ \A k \in 1..Len(t) : t[k] = s[i + 2 + k]
  <2> DEFINE m == i + 2 + 1
             n == j - 1
  <2>1. m \in 1..Len(s) + 1 /\ n \in 0..Len(s) /\ m <= n + 2
    BY <1>1
  <2>2. Len(t) = IF m <= n THEN n - m + 1 ELSE 0
    BY <1>1, <2>1, SubSeqProperties
  <2>3. \A k \in 1..(n - m + 1) : t[k] = s[m + k - 1]
    BY <1>1, <2>1, SubSeqProperties
  <2>4. Len(t) = IF i + 2 < j THEN j - 1 - (i + 2) ELSE 0
    BY <1>1, <2>2
  <2>5. ASSUME NEW k \in 1..Len(t) PROVE t[k] = s[i + 2 + k]
    <3>1. k \in 1..(n - m + 1) /\ m + k - 1 = i + 2 + k
      BY <1>1, <2>4
    <3> QED BY <2>3, <3>1
  <2> QED BY <2>4, <2>5
<1> HIDE DEF t
<1>3. \A k \in 1..Len(s) : s[k] = f[b + k]
  BY DEF Shows
<1>4. ASSUME NEW k \in 1..Len(t)
      PROVE b + i + 2 + k \in 1..Len(f) /\ b + i + 2 < b + i + 2 + k /\ b + i + 2 + k < b + j /\ f[b + i + 2 + k] = t[k]
  <2>1. i + 2 + k \in 1..Len(s) /\ b + (i + 2 + k) = b + i + 2 + k
    BY <1>1, <1>2
  <2> QED BY <1>1, <1>2, <1>3, <2>1
<1>5. ASSUME NEW k \in 1..Len(f), b + i + 2 < k, k < b + j
      PROVE k - (b + i + 2) \in 1..Len(t) /\ t[k - (b + i + 2)] = f[k]
  <2>1. k - (b + i + 2) \in 1..Len(t)
    <3>1. i + 2 < j /\ Len(t) = j - 1 - (i + 2)
      BY <1>2, <1>5
    <3> QED BY <1>5, <3>1
  <2>2. b + i + 2 + (k - (b + i + 2)) = k
    OBVIOUS
  <2> QED BY <1>4, <2>1, <2>2
<1>6. NamesIn(t, known) = ({t[k] : k \in 1..Len(t)} \cap Script) \ ({Latin} \cap known)
  BY DEF NamesIn
<1>7. {t[k] : k \in 1..Len(t)} = {f[k] : k \in {k \in 1..Len(f) : b + i + 2 < k /\ k < b + j}}
  <2> DEFINE P == {k \in 1..Len(f) : b + i + 2 < k /\ k < b + j}
  <2>1. ASSUME NEW k \in 1..Len(t) PROVE t[k] \in {f[m] : m \in P}
    <3>1. b + i + 2 + k \in P /\ f[b + i + 2 + k] = t[k]
      BY <1>4
    <3> HIDE DEF P
    <3> QED BY <3>1
  <2>2. ASSUME NEW k \in P PROVE f[k] \in {t[m] : m \in 1..Len(t)}
    <3>1. k - (b + i + 2) \in 1..Len(t) /\ t[k - (b + i + 2)] = f[k]
      BY <1>5
    <3> QED BY <3>1
  <2> HIDE DEF P
  <2>3. {t[k] : k \in 1..Len(t)} = {f[k] : k \in P}
    BY <2>1, <2>2
  <2> QED BY <2>3 DEF P
<1>8. s[i + 2] = f[b + i + 2]
  <2>1. i + 2 \in 1..Len(s) /\ b + (i + 2) = b + i + 2
    BY <1>1
  <2> QED BY <1>3, <2>1
<1>9. NamesIn(t, known) = BlockOf(f, known, b + i, b + j)
  BY <1>6, <1>7 DEF BlockOf
<1> QED BY <1>8, <1>9 DEF t

\* Draining is a recursion that ends: at every place the parties from there on are taken.
Drain(g, s, known, found, i) ==
  LET start == FirstFrom(s, PartyOpen, i)
      end == FirstFrom(s, PartyClose, start)
      ref == s[start + Len(PartyOpen)]
      block == SubSeq(s, start + Len(PartyOpen) + 1, end - 1)
  IN IF start = 0 THEN [left |-> Leftover(s, i), found |-> found]
     ELSE IF end = 0 THEN [left |-> SubSeq(s, start, Len(s)), found |-> found]
     ELSE [left |-> g[end + Len(PartyClose)].left,
           found |-> [g[end + Len(PartyClose)].found EXCEPT ![ref] = @ \cup NamesIn(block, known)]]

DrainsAll(g, s, known, found) == g = [i \in 1..Len(s) + 1 |-> Drain(g, s, known, found, i)]

\* A drain looks ahead: it goes on behind the party it takes.
LEMMA DrainPlaces ==
  ASSUME NEW s \in Seq(STRING), NEW i \in 1..Len(s) + 1
  PROVE  LET start == FirstFrom(s, PartyOpen, i)
             end == FirstFrom(s, PartyClose, start)
         IN /\ start = 0 \/ (start \in i..Len(s) /\ start + 1 \in i..Len(s))
            /\ start # 0 /\ end # 0 => start + 2 <= end /\ end < Len(s) /\ end + 2 \in (i + 1)..(Len(s) + 1)
<1> DEFINE start == FirstFrom(s, PartyOpen, i)
           end == FirstFrom(s, PartyClose, start)
<1>1. start = 0 \/ (start \in TagsIn(s, PartyOpen) /\ i <= start)
  BY FirstFromIs
<1>2. start \in Nat /\ (start = 0 \/ (start \in i..Len(s) /\ start + 1 \in i..Len(s)))
  BY <1>1 DEF TagsIn
<1>3. end = 0 \/ (end \in TagsIn(s, PartyClose) /\ start <= end)
  BY <1>2, FirstFromIs
<1> HIDE DEF start, end
<1>4. ASSUME start # 0, end # 0 PROVE start + 2 <= end /\ end < Len(s) /\ end + 2 \in (i + 1)..(Len(s) + 1)
  <2>1. start \in TagsIn(s, PartyOpen) /\ end \in TagsIn(s, PartyClose) /\ i <= start /\ start <= end
    BY <1>1, <1>3, <1>4
  <2>2. start # end /\ end # start + 1 /\ end < Len(s) /\ end \in Nat
    BY <2>1, TagsApart
  <2> QED BY <1>2, <2>1, <2>2
<1> QED BY <1>2, <1>4 DEF start, end

\* Each place needs only places behind it, so that there is a function of them all: there is
\* no first number of places, counted from the end, for which there is none.
LEMMA DrainedIs ==
  ASSUME NEW s \in Seq(STRING), NEW known, NEW found
  PROVE  \E g : DrainsAll(g, s, known, found) /\ Drained(s, known, found) = g[1]
<1> DEFINE L == Len(s)
           Step(g, i) == Drain(g, s, known, found, i)
           Rule(g, n) == g = [i \in (L + 2 - n)..(L + 1) |-> Step(g, i)]
           U == {n \in Nat : n <= L + 1 => \E g : Rule(g, n)}
<1>1. L \in Nat
  OBVIOUS
<1>2. ASSUME NEW g, NEW h, NEW i \in 1..L + 1, \A k \in (i + 1)..(L + 1) : g[k] = h[k]
      PROVE  Step(g, i) = Step(h, i)
  <2> DEFINE start == FirstFrom(s, PartyOpen, i)
             end == FirstFrom(s, PartyClose, start)
  <2>1. start # 0 /\ end # 0 => g[end + 2] = h[end + 2]
    BY <1>2, DrainPlaces
  <2> QED BY <2>1, TagLength DEF Drain
<1>3. ASSUME NEW n \in Nat, \A m \in 0..(n - 1) : m \in U PROVE n \in U
  <2> SUFFICES ASSUME n <= L + 1 PROVE \E g : Rule(g, n)
    OBVIOUS
  <2>1. CASE n = 0
    <3>1. Rule([i \in (L + 2 - n)..(L + 1) |-> 0], n)
      <4>1. (L + 2 - n)..(L + 1) = {}
        BY <2>1, <1>1
      <4> QED BY <4>1
    <3> QED BY <3>1
  <2>2. CASE n # 0
    <3>1. n - 1 \in 0..(n - 1) /\ n - 1 <= L + 1 /\ n - 1 \in Nat
      BY <1>1, <2>2
    <3>2. PICK g : Rule(g, n - 1)
      BY <1>3, <3>1
    <3> DEFINE D == (L + 2 - n)..(L + 1)
               h == [i \in D |-> IF i = L + 2 - n THEN Step(g, i) ELSE g[i]]
    <3>3. ASSUME NEW i \in D PROVE h[i] = Step(h, i)
      <4>1. i \in 1..L + 1 /\ \A k \in (i + 1)..(L + 1) : k \in D /\ k # L + 2 - n
        BY <1>1
      <4>2. \A k \in (i + 1)..(L + 1) : g[k] = h[k]
        BY <4>1
      <4>3. Step(g, i) = Step(h, i)
        <5> HIDE DEF Step, h
        <5> QED BY <1>2, <4>1, <4>2
      <4>4. CASE i = L + 2 - n
        <5> HIDE DEF Step
        <5> QED BY <4>3, <4>4
      <4>5. CASE i # L + 2 - n
        <5>1. i \in (L + 2 - (n - 1))..(L + 1)
          BY <1>1, <4>5
        <5>2. g[i] = Step(g, i)
          <6> HIDE DEF Step
          <6> QED BY <3>2, <5>1
        <5>3. h[i] = g[i]
          BY <4>5
        <5> QED BY <4>3, <5>2, <5>3
      <4> QED BY <4>4, <4>5
    <3>4. h = [i \in D |-> h[i]]
      OBVIOUS
    <3> HIDE DEF h, Step
    <3>5. h = [i \in D |-> Step(h, i)]
      BY <3>3, <3>4
    <3>6. Rule(h, n)
      BY <3>5
    <3> QED BY <3>6
  <2> QED BY <2>1, <2>2
<1>4. L + 1 \in U
  <2> HIDE DEF U
  <2> QED BY <1>1, <1>3, NoFirst
<1>5. PICK g : Rule(g, L + 1)
  <2> HIDE DEF Rule
  <2> QED BY <1>1, <1>4
<1> DEFINE Solves(d) == d = [i \in 1..Len(s) + 1 |-> Step(d, i)]
           drain == CHOOSE d : Solves(d)
<1>6. Solves(g)
  <2>1. L + 2 - (L + 1) = 1
    BY <1>1
  <2> HIDE DEF Step
  <2> QED BY <1>5, <2>1
<1>7. Solves(drain)
  <2> HIDE DEF Solves
  <2> QED BY <1>6
<1>8. Drained(s, known, found) = drain[1]
  BY DEF Drained, Drain
<1> HIDE DEF drain
<1> QED BY <1>7, <1>8 DEF DrainsAll

\* What holds of a place whenever it holds of all behind it holds everywhere.
LEMMA Backwards ==
  ASSUME NEW L \in Nat, NEW S, \A i \in 1..L + 1 : (\A k \in (i + 1)..(L + 1) : k \in S) => i \in S
  PROVE  1..L + 1 \subseteq S
<1> DEFINE U == {n \in Nat : L + 1 - n \in 1..L + 1 => L + 1 - n \in S}
<1>1. ASSUME NEW n \in Nat, \A m \in 0..(n - 1) : m \in U PROVE n \in U
  <2> SUFFICES ASSUME L + 1 - n \in 1..L + 1 PROVE L + 1 - n \in S
    OBVIOUS
  <2>1. ASSUME NEW k \in (L + 1 - n + 1)..(L + 1) PROVE k \in S
    <3>1. L + 1 - k \in 0..(n - 1) /\ L + 1 - (L + 1 - k) = k /\ k \in 1..L + 1
      OBVIOUS
    <3>2. L + 1 - k \in U
      BY <1>1, <3>1
    <3> QED BY <3>1, <3>2
  <2> QED BY <2>1
<1>2. Nat \subseteq U
  <2> HIDE DEF U
  <2> QED BY <1>1, NoFirst
<1>3. ASSUME NEW i \in 1..L + 1 PROVE i \in S
  <2>1. L + 1 - i \in Nat /\ L + 1 - (L + 1 - i) = i
    OBVIOUS
  <2>2. L + 1 - i \in U
    BY <1>2, <2>1
  <2> QED BY <2>1, <2>2
<1> QED BY <1>3

\* What is left is a sequence of symbols, and what is found are names.
LEMMA PlacesTyped ==
  ASSUME NEW s \in Seq(STRING), NEW known, NEW found \in Found,
         NEW g, DrainsAll(g, s, known, found)
  PROVE  \A i \in 1..Len(s) + 1 : g[i].left \in Seq(STRING) /\ g[i].found \in Found
<1> DEFINE Typed(r) == r.left \in Seq(STRING) /\ r.found \in Found
           S == {i \in 1..Len(s) + 1 : Typed(g[i])}
<1>2. ASSUME NEW i \in 1..Len(s) + 1, \A k \in (i + 1)..(Len(s) + 1) : k \in S PROVE i \in S
  <2>1. g[i] = Drain(g, s, known, found, i)
    BY DEF DrainsAll
  <2> SUFFICES Typed(g[i])
    OBVIOUS
  <2> DEFINE start == FirstFrom(s, PartyOpen, i)
             end == FirstFrom(s, PartyClose, start)
             ref == s[start + 2]
             block == SubSeq(s, start + 2 + 1, end - 1)
             new == NamesIn(block, known)
             rest == g[end + 2]
  <2>2. CASE start = 0
    <3>1. g[i] = [left |-> Leftover(s, i), found |-> found]
      BY <2>1, <2>2 DEF Drain
    <3>2. PICK n \in 0..Len(s) : Leftover(s, i) = SubSeq(s, n + 1, Len(s))
      BY LeftoverIs
    <3>3. Shows(s, s, 0, Len(s))
      BY DEF Shows
    <3>4. Leftover(s, i) \in Seq(STRING)
      BY <3>2, <3>3, TailShows DEF Shows
    <3> QED BY <3>1, <3>4
  <2>3. CASE start # 0 /\ end = 0
    <3>1. g[i] = [left |-> SubSeq(s, start, Len(s)), found |-> found]
      BY <2>1, <2>3 DEF Drain
    <3>2. start \in 1..Len(s) /\ start - 1 \in 0..Len(s) /\ start - 1 + 1 = start
      BY <2>3, DrainPlaces
    <3>3. Shows(s, s, 0, Len(s))
      BY DEF Shows
    <3> HIDE DEF start
    <3>4. SubSeq(s, start, Len(s)) \in Seq(STRING)
      BY <3>2, <3>3, TailShows DEF Shows
    <3> QED BY <3>1, <3>4
  <2>4. CASE start # 0 /\ end # 0
    <3>1. g[i] = [left |-> rest.left, found |-> [rest.found EXCEPT ![ref] = @ \cup new]]
      BY <2>1, <2>4, TagLength DEF Drain
    <3>2. end + 2 \in (i + 1)..(Len(s) + 1)
      BY <2>4, DrainPlaces
    <3>3. rest.left \in Seq(STRING) /\ rest.found \in Found
      BY <1>2, <3>2
    <3>4. new \subseteq Script
      BY DEF NamesIn
    <3> HIDE DEF rest, new, ref
    <3>5. [rest.found EXCEPT ![ref] = @ \cup new] \in Found
      BY <3>3, <3>4 DEF Found
    <3> QED BY <3>1, <3>3, <3>5
  <2> QED BY <2>2, <2>3, <2>4
<1>3. 1..Len(s) + 1 \subseteq S
  <2> HIDE DEF S
  <2>1. Len(s) \in Nat
    OBVIOUS
  <2> QED BY <1>2, <2>1, Backwards
<1> QED BY <1>3

LEMMA DrainedTypes ==
  ASSUME NEW s \in Seq(STRING), NEW known, NEW found \in Found
  PROVE  Drained(s, known, found).left \in Seq(STRING) /\ Drained(s, known, found).found \in Found
<1>1. PICK g : DrainsAll(g, s, known, found) /\ Drained(s, known, found) = g[1]
  BY DrainedIs
<1>2. 1 \in 1..Len(s) + 1
  OBVIOUS
<1> QED BY <1>1, <1>2, PlacesTyped

\* Where a party begins behind place i of the window, seen in the feed.
LEMMA FirstInFeed ==
  ASSUME NEW f \in Seq(STRING), NEW b \in Nat, NEW h \in Nat, b <= h, h <= Len(f), NEW s, Shows(s, f, b, h),
         NEW tag, NEW i \in Nat \ {0}
  PROVE  LET k == FirstFrom(s, tag, i)
         IN /\ k = 0 => \A o \in TagsIn(f, tag) : ~(b + i <= o /\ o < h)
            /\ k # 0 => /\ k \in Nat /\ i <= k /\ b + k \in TagsIn(f, tag) /\ b + k < h
                        /\ \A o \in TagsIn(f, tag) : ~(b + i <= o /\ o < b + k)
<1> DEFINE k == FirstFrom(s, tag, i)
<1>1. s \in Seq(STRING)
  BY DEF Shows
<1>2. \/ k = 0 /\ \A j \in TagsIn(s, tag) : ~(i <= j)
      \/ k # 0 /\ k \in TagsIn(s, tag) /\ i <= k /\ \A j \in TagsIn(s, tag) : i <= j => k <= j
  <2>1. i \in Nat /\ \A j \in TagsIn(s, tag) : j \in Nat \ {0}
    BY DEF TagsIn
  <2> QED BY <1>1, <2>1, FirstFromIs
<1>3. k \in Int /\ \A o \in TagsIn(f, tag) : o \in Int
  BY <1>2 DEF TagsIn
<1> HIDE DEF k
<1>4. ASSUME NEW o \in TagsIn(f, tag), b + i <= o, o < h PROVE o - b \in TagsIn(s, tag) /\ i <= o - b
  BY <1>3, <1>4, WindowTags
<1>5. CASE k = 0
  BY <1>2, <1>4, <1>5 DEF k
<1>6. CASE k # 0
  <2>1. b + k \in TagsIn(f, tag) /\ b + k < h /\ i <= k
    BY <1>2, <1>3, <1>6, WindowTags
  <2>2. ASSUME NEW o \in TagsIn(f, tag), b + i <= o, o < b + k PROVE FALSE
    <3>1. o < h
      BY <1>3, <2>1, <2>2
    <3>2. k <= o - b
      BY <1>2, <1>4, <1>6, <2>2, <3>1
    <3> QED BY <1>3, <2>2, <3>2
  <2>3. k \in Nat
    BY <1>3, <2>1
  <2> QED BY <1>6, <2>1, <2>2, <2>3 DEF k
<1> QED BY <1>5, <1>6

\* Draining takes what is complete in the window, and nothing else.
LEMMA DrainTakes ==
  ASSUME NEW f \in Seq(STRING), NEW b \in Nat, NEW h \in Nat, b <= h, h <= Len(f), NEW s, Shows(s, f, b, h),
         NoneOpenAt(f, b), NEW known, NEW found \in Found
  PROVE  Drains(Drained(s, known, found), f, known, found, b, h)
<1>1. s \in Seq(STRING) /\ Len(s) = h - b
  BY DEF Shows
<1>2. PICK g : DrainsAll(g, s, known, found) /\ Drained(s, known, found) = g[1]
  BY <1>1, DrainedIs
<1> DEFINE Taken(i) == NoneOpenAt(f, b + i - 1) => Drains(g[i], f, known, found, b + i - 1, h)
           S == {i \in 1..Len(s) + 1 : Taken(i)}
<1>3. ASSUME NEW i \in 1..Len(s) + 1, \A k \in (i + 1)..(Len(s) + 1) : k \in S PROVE i \in S
  <2> SUFFICES ASSUME NoneOpenAt(f, b + i - 1) PROVE Drains(g[i], f, known, found, b + i - 1, h)
    OBVIOUS
  <2>1. g[i] = Drain(g, s, known, found, i)
    BY <1>2 DEF DrainsAll
  <2> DEFINE start == FirstFrom(s, PartyOpen, i)
             end == FirstFrom(s, PartyClose, start)
             ref == s[start + 2]
             block == SubSeq(s, start + 2 + 1, end - 1)
             new == NamesIn(block, known)
             rest == g[end + 2]
  <2>2. PICK q \in Nat : q = b + i - 1 /\ q <= h
    BY <1>1
  <2>3. q + 1 = b + i /\ i \in Nat \ {0} /\ NoneOpenAt(f, q)
    BY <2>2
  <2>4. \A t : TagsIn(f, t) \subseteq Nat
    BY DEF TagsIn
  <2>5. CASE start = 0
    <3>1. g[i] = [left |-> Leftover(s, i), found |-> found]
      BY <2>1, <2>5 DEF Drain
    <3>2. PICK n \in 0..Len(s) : (n = i - 1 \/ (n = Len(s) - 2 /\ i <= n + 1)) /\ Leftover(s, i) = SubSeq(s, n + 1, Len(s))
      BY <1>1, LeftoverIs
    <3>3. Shows(Leftover(s, i), f, b + n, h) /\ b + n \in b..h
      BY <3>2, TailShows
    <3>4. PICK c \in Nat : c = b + n /\ c \in q..h /\ (c = q \/ c < h - 1)
      BY <1>1, <2>2, <3>2, <3>3
    <3>5. \A o \in TagsIn(f, PartyOpen) : ~(q < o /\ o < h)
      <4>1. \A o \in TagsIn(f, PartyOpen) : ~(b + i <= o /\ o < h)
        BY <2>3, <2>5, FirstInFeed
      <4> QED BY <2>3, <2>4, <4>1
    <3>6. NoneOpenAt(f, c) /\ \A r : NamesBetween(f, known, r, q, c) = {}
      <4>1. \A o \in TagsIn(f, PartyOpen) : ~(q < o /\ o <= c)
        BY <2>4, <3>4, <3>5
      <4>2. q <= c
        BY <3>4
      <4> QED BY <2>3, <4>1, <4>2, NothingTaken
    <3>7. Exhausted(f, c, h)
      BY <2>4, <3>4, <3>5 DEF Exhausted
    <3>8. \A r \in PartyRefs : found[r] = found[r] \cup NamesBetween(f, known, r, q, c)
      BY <3>6
    <3> QED BY <2>2, <3>1, <3>3, <3>4, <3>6, <3>7, <3>8 DEF Drains
  <2>6. CASE start # 0
    <3>1. /\ start \in Nat /\ i <= start /\ b + start \in TagsIn(f, PartyOpen) /\ b + start < h
          /\ \A o \in TagsIn(f, PartyOpen) : ~(b + i <= o /\ o < b + start)
      BY <2>3, <2>6, FirstInFeed
    <3>2. PICK o1 \in TagsIn(f, PartyOpen) : /\ o1 = b + start /\ o1 \in Nat /\ q < o1 /\ o1 < h
                                             /\ \A o \in TagsIn(f, PartyOpen) : ~(q < o /\ o < o1)
      <4>1. b + start \in Nat /\ q < b + start
        BY <2>3, <3>1
      <4>2. \A o \in TagsIn(f, PartyOpen) : ~(q < o /\ o < b + start)
        BY <2>3, <2>4, <3>1
      <4> QED BY <3>1, <4>1, <4>2
    <3>3. start \in Nat \ {0} /\ start - 1 \in 0..Len(s) /\ start - 1 + 1 = start /\ b + (start - 1) = o1 - 1
      <4> HIDE DEF start
      <4>1. start \in Nat /\ start # 0 /\ o1 = b + start /\ b + start < h
        BY <2>3, <3>1, <3>2
      <4> QED BY <1>1, <4>1
    <3>4. CASE end = 0
      <4>1. g[i] = [left |-> SubSeq(s, start, Len(s)), found |-> found]
        BY <2>1, <2>6, <3>4 DEF Drain
      <4>2. Shows(SubSeq(s, start, Len(s)), f, o1 - 1, h)
        <5> HIDE DEF start
        <5>1. Shows(SubSeq(s, (start - 1) + 1, Len(s)), f, b + (start - 1), h)
          BY <3>3, TailShows
        <5> QED BY <3>3, <5>1
      <4>3. o1 - 1 \in q..h /\ o1 - 1 \in Nat /\ q <= o1 - 1
        BY <2>2, <3>2
      <4>4. NoneOpenAt(f, o1 - 1) /\ \A r : NamesBetween(f, known, r, q, o1 - 1) = {}
        <5>1. \A o \in TagsIn(f, PartyOpen) : ~(q < o /\ o <= o1 - 1)
          BY <2>4, <3>2
        <5> QED BY <2>3, <4>3, <5>1, NothingTaken
      <4>5. Exhausted(f, o1 - 1, h)
        <5>1. \A d \in TagsIn(f, PartyClose) : ~(o1 <= d /\ d < h)
          <6> HIDE DEF start
          <6> QED BY <3>2, <3>3, <3>4, FirstInFeed
        <5> QED BY <2>4, <3>2, <5>1 DEF Exhausted
      <4>6. \A r \in PartyRefs : found[r] = found[r] \cup NamesBetween(f, known, r, q, o1 - 1)
        BY <4>4
      <4> QED BY <2>2, <4>1, <4>2, <4>3, <4>4, <4>5, <4>6 DEF Drains
    <3>5. CASE end # 0
      <4>1. g[i] = [left |-> rest.left, found |-> [rest.found EXCEPT ![ref] = @ \cup new]]
        BY <2>1, <2>6, <3>5, TagLength DEF Drain
      <4>2. end + 2 \in (i + 1)..(Len(s) + 1) /\ start + 2 <= end /\ end < Len(s)
        BY <1>1, <2>6, <3>5, DrainPlaces
      <4>3. /\ end \in Nat /\ start <= end /\ b + end \in TagsIn(f, PartyClose) /\ b + end < h
            /\ \A o \in TagsIn(f, PartyClose) : ~(b + start <= o /\ o < b + end)
        <5> HIDE DEF start
        <5> QED BY <3>3, <3>5, FirstInFeed
      <4>4. PICK d1 \in TagsIn(f, PartyClose) : /\ d1 = b + end /\ d1 \in Nat /\ o1 < d1 /\ d1 < h
                                               /\ \A d \in TagsIn(f, PartyClose) : ~(o1 < d /\ d < d1)
        <5>1. b + end \in Nat /\ o1 < b + end
          <6> HIDE DEF start, end
          <6> QED BY <3>2, <3>3, <4>2, <4>3
        <5>2. \A d \in TagsIn(f, PartyClose) : ~(o1 < d /\ d < b + end)
          BY <2>4, <3>2, <4>3
        <5> QED BY <4>3, <5>1, <5>2
      <4>5. /\ NoneOpenAt(f, d1 + 1)
            /\ \A r : NamesBetween(f, known, r, q, d1 + 1) =
                 IF f[o1 + 2] = r THEN BlockOf(f, known, o1, d1) ELSE {}
        <5> HIDE DEF start, end, ref, block, new, rest, S, Taken
        <5>1. NoneOpenAt(f, q) /\ q < o1 /\ \A o \in TagsIn(f, PartyOpen) : ~(q < o /\ o < o1)
          BY <2>3, <3>2
        <5>2. o1 < d1 /\ \A d \in TagsIn(f, PartyClose) : ~(o1 < d /\ d < d1)
          BY <4>4
        <5> QED BY ONLY f \in Seq(STRING), q \in Nat, o1 \in TagsIn(f, PartyOpen), d1 \in TagsIn(f, PartyClose),
                        <5>1, <5>2, PartyTaken
      <4>6. Drains(rest, f, known, found, d1 + 1, h)
        <5>1. end + 2 \in S
          <6> HIDE DEF S, end
          <6> QED BY <1>3, <4>2
        <5>2. b + (end + 2) - 1 = d1 + 1
          <6> HIDE DEF end
          <6> QED BY <4>3, <4>4
        <5> QED BY <4>5, <5>1, <5>2
      <4>7. PICK c \in (d1 + 1)..h :
              /\ Shows(rest.left, f, c, h) /\ NoneOpenAt(f, c) /\ Exhausted(f, c, h)
              /\ \A r \in PartyRefs : rest.found[r] = found[r] \cup NamesBetween(f, known, r, d1 + 1, c)
        BY <4>6 DEF Drains
      <4>8. c \in q..h /\ c \in Nat /\ q <= d1 + 1 /\ d1 + 1 <= c /\ d1 + 1 \in Nat
        BY <2>2, <3>2, <4>4, <4>7
      <4>9. new = BlockOf(f, known, o1, d1) /\ ref = f[o1 + 2]
        <5> HIDE DEF start, end
        <5> QED BY <3>2, <3>3, <4>2, <4>3, <4>4, BlockNames
      <4>10. \A r : NamesBetween(f, known, r, q, d1 + 1) = IF ref = r THEN new ELSE {}
        BY <4>5, <4>9
      <4>11. rest.found \in Found
        <5>1. \A k \in 1..Len(s) + 1 : g[k].found \in Found
          BY <1>1, <1>2, PlacesTyped
        <5> QED BY <4>2, <5>1
      <4> HIDE DEF rest, new, ref
      <4>12. \A r \in PartyRefs : [rest.found EXCEPT ![ref] = @ \cup new][r]
                                    = rest.found[r] \cup NamesBetween(f, known, r, q, d1 + 1)
        BY <4>10, <4>11 DEF Found
      <4>13. ASSUME NEW r \in PartyRefs
             PROVE [rest.found EXCEPT ![ref] = @ \cup new][r] = found[r] \cup NamesBetween(f, known, r, q, c)
        <5>1. NamesBetween(f, known, r, q, c)
                = NamesBetween(f, known, r, q, d1 + 1) \cup NamesBetween(f, known, r, d1 + 1, c)
          BY <4>8, NamesSplit
        <5> QED BY <4>7, <4>12, <5>1
      <4> QED BY <2>2, <4>1, <4>7, <4>8, <4>13 DEF Drains
    <3> QED BY <3>4, <3>5
  <2> QED BY <2>5, <2>6
<1>4. 1..Len(s) + 1 \subseteq S
  <2> HIDE DEF S
  <2>1. Len(s) \in Nat
    BY <1>1
  <2> QED BY <1>3, <2>1, Backwards
<1>5. Taken(1) /\ b + 1 - 1 = b
  BY <1>1, <1>4
<1> QED BY <1>2, <1>5

\* The scripts that the reference data of a feed names.
KnownOf(f) == ScriptNames(SubSeq(f, 1, FirstFrom(f, ScriptsClose, 1) - 1))

\* Where the reading stands: the window shows the feed from some place on; before the
\* reference data has passed, that is the start; after, every party up to that place is
\* collected and no complete one lies behind it.
ReadTo(b) ==
  /\ Shows(window, feed, b, at)
  /\ scripts = NotRead =>
       b = 0 /\ aliases = NoAliases /\ \A k \in TagsIn(feed, ScriptsClose) : ~(k < at)
  /\ scripts # NotRead =>
       /\ scripts = KnownOf(feed) /\ NoneOpenAt(feed, b) /\ Exhausted(feed, b, at)
       /\ \A r \in PartyRefs : aliases[r] = NamesBetween(feed, scripts, r, 0, b)
StreamInv ==
  /\ StreamTypeOK
  /\ outcome = "reading" => \E b \in 0..at : ReadTo(b)
  /\ StreamFindsTheWhole

\* What has been read off is not mistaken for what has not.
LEMMA KnownAreScripts ==
  ASSUME NEW s
  PROVE  ScriptNames(s) \subseteq Script /\ ScriptNames(s) # NotRead
BY DEF ScriptNames, Script, NotRead

\* What the feed says is what it holds from its start to its end.
LEMMA SaidIs ==
  ASSUME NEW f \in Seq(STRING), NEW r
  PROVE  Said(f, r) = NamesBetween(f, KnownOf(f), r, 0, Len(f))
<1>1. \A k \in 1..Len(f) : 0 < k /\ k <= Len(f)
  OBVIOUS
<1> QED BY <1>1 DEF Said, NamesBetween, KnownOf

\* A window that grows by a chunk shows the feed up to its end.
LEMMA GrownShows ==
  ASSUME NEW f \in Seq(STRING), NEW b \in Nat, NEW h \in Nat, b <= h, NEW s, Shows(s, f, b, h),
         NEW n \in Nat \ {0}, h + n <= Len(f)
  PROVE  Shows(s \o SubSeq(f, h + 1, h + n), f, b, h + n)
<1> DEFINE t == SubSeq(f, h + 1, h + n)
<1>1. s \in Seq(STRING) /\ Len(s) = h - b
  BY DEF Shows
<1>2. t \in Seq(STRING) /\ Len(t) = n /\ \A k \in 1..n : t[k] = f[h + k]
  <2>1. h + 1 \in Int /\ h + n \in Int /\ h + 1 <= h + n /\ (h + n) - (h + 1) + 1 = n
    OBVIOUS
  <2>2. \A k \in (h + 1)..(h + n) : f[k] \in STRING
    OBVIOUS
  <2>3. \A k \in 1..n : (h + 1) + k - 1 = h + k
    OBVIOUS
  <2> QED BY <2>1, <2>2, <2>3, SubSeqProperties
<1> HIDE DEF t
<1>3. s \o t \in Seq(STRING) /\ Len(s \o t) = (h + n) - b
  <2>1. s \o t \in Seq(STRING) /\ Len(s \o t) = Len(s) + Len(t)
    <3>1. s \in Seq(STRING) /\ t \in Seq(STRING)
      BY <1>1, <1>2
    <3> QED BY <3>1, ConcatProperties
  <2> QED BY <1>1, <1>2, <2>1
<1>4. ASSUME NEW k \in 1..Len(s \o t) PROVE (s \o t)[k] = f[b + k]
  <2>1. (s \o t)[k] = IF k <= Len(s) THEN s[k] ELSE t[k - Len(s)]
    BY <1>1, <1>2, <1>3, ConcatProperties
  <2>2. CASE k <= Len(s)
    <3>1. k \in 1..Len(s)
      BY <2>2
    <3> QED BY <2>1, <2>2, <3>1 DEF Shows
  <2>3. CASE ~(k <= Len(s))
    <3>1. k - Len(s) \in 1..n /\ h + (k - Len(s)) = b + k
      BY <1>1, <1>2, <1>3, <2>3
    <3> QED BY <1>2, <2>1, <2>3, <3>1
  <2> QED BY <2>2, <2>3
<1> QED BY <1>3, <1>4 DEF Shows, t

\* The head of a window that shows the feed from its start is the head of the feed.
LEMMA HeadRead ==
  ASSUME NEW f \in Seq(STRING), NEW h \in Nat, h <= Len(f), NEW s, Shows(s, f, 0, h)
  PROVE  LET close == FirstFrom(s, ScriptsClose, 1)
         IN /\ close = 0 => \A k \in TagsIn(f, ScriptsClose) : ~(k < h)
            /\ close # 0 => ScriptNames(SubSeq(s, 1, close - 1)) = KnownOf(f)
<1> DEFINE close == FirstFrom(s, ScriptsClose, 1)
           whole == FirstFrom(f, ScriptsClose, 1)
<1>0. TagsIn(f, ScriptsClose) \subseteq Nat \ {0}
  BY DEF TagsIn
<1>1. /\ close = 0 => \A k \in TagsIn(f, ScriptsClose) : ~(0 + 1 <= k /\ k < h)
      /\ close # 0 => /\ close \in Nat /\ 1 <= close /\ 0 + close \in TagsIn(f, ScriptsClose) /\ 0 + close < h
                      /\ \A k \in TagsIn(f, ScriptsClose) : ~(0 + 1 <= k /\ k < 0 + close)
  BY FirstInFeed
<1>2. \/ whole = 0 /\ \A j \in TagsIn(f, ScriptsClose) : ~(1 <= j)
      \/ whole \in TagsIn(f, ScriptsClose) /\ 1 <= whole /\ \A j \in TagsIn(f, ScriptsClose) : 1 <= j => whole <= j
  BY FirstFromIs
<1> HIDE DEF close, whole
<1>3. ASSUME close # 0 PROVE ScriptNames(SubSeq(s, 1, close - 1)) = ScriptNames(SubSeq(f, 1, whole - 1))
  <2>1. whole = close /\ close \in 1..h
    BY <1>0, <1>1, <1>2, <1>3
  <2> DEFINE n == close - 1
             u == SubSeq(s, 1, n)
             v == SubSeq(f, 1, n)
  <2>2. n \in Nat /\ \A k \in 1..n : k \in 1..Len(s) /\ s[k] = f[k] /\ s[k] \in STRING /\ f[k] \in STRING
    <3>1. s \in Seq(STRING) /\ Len(s) = h /\ \A k \in 1..Len(s) : s[k] = f[0 + k]
      BY DEF Shows
    <3>2. n \in Nat /\ n < h
      BY <2>1
    <3> HIDE DEF n
    <3>3. \A k \in 1..n : k \in 1..Len(s) /\ 0 + k = k
      BY <3>1, <3>2
    <3> QED BY <3>1, <3>2, <3>3
  <2> HIDE DEF n
  <2>3. 1 \in Int /\ n \in Int /\ (1 <= n <=> n # 0) /\ n - 1 + 1 = n /\ \A k \in 1..n : 1 + k - 1 = k
    BY <2>2
  <2>4. Len(u) = n /\ \A k \in 1..n : u[k] = s[k]
    BY <2>2, <2>3, SubSeqProperties
  <2>5. Len(v) = n /\ \A k \in 1..n : v[k] = f[k]
    BY <2>2, <2>3, SubSeqProperties
  <2> HIDE DEF u, v
  <2>6. {u[k] : k \in 1..Len(u)} = {v[k] : k \in 1..Len(v)}
    BY <2>2, <2>4, <2>5
  <2>7. ScriptNames(u) = ScriptNames(v)
    BY <2>6 DEF ScriptNames
  <2> QED BY <2>1, <2>7 DEF u, v, n
<1> QED BY <1>0, <1>1, <1>3 DEF KnownOf, close, whole

\* The types of the stream stay.
LEMMA StreamTypeSteps ==
  ASSUME StreamTypeOK, [StreamNext]_streamVars
  PROVE  StreamTypeOK'
<1>1. feed \in Seq(STRING) /\ MaxChunk \in Nat
  BY AliasAssumption DEF StreamTypeOK
<1>2. aliases \in Found
  BY DEF StreamTypeOK, Found
<1>3. ASSUME NEW n \in 1..MaxChunk, StreamChunk(n) PROVE StreamTypeOK'
  <2> DEFINE grown == window \o SubSeq(feed, at + 1, at + n)
             close == FirstFrom(grown, ScriptsClose, 1)
             known == IF scripts # NotRead THEN scripts
                      ELSE IF close = 0 THEN NotRead ELSE ScriptNames(SubSeq(grown, 1, close - 1))
             next == IF known = NotRead THEN [left |-> grown, found |-> aliases]
                                        ELSE Drained(grown, known, aliases)
  <2>1. at \in Nat /\ n \in Nat \ {0} /\ at + n <= Len(feed) /\ at' = at + n /\ feed' = feed
    BY <1>1, <1>3 DEF StreamChunk, StreamTypeOK
  <2>2. grown \in Seq(STRING)
    <3>1. \A k \in (at + 1)..(at + n) : feed[k] \in STRING
      BY <1>1, <2>1
    <3>2. SubSeq(feed, at + 1, at + n) \in Seq(STRING)
      BY <2>1, <3>1, SubSeqProperties
    <3> QED BY <3>2, ConcatProperties DEF StreamTypeOK
  <2>3. known = NotRead \/ known \subseteq Script
    BY KnownAreScripts DEF StreamTypeOK
  <2> HIDE DEF grown
  <2>4. next.left \in Seq(STRING) /\ next.found \in Found
    BY <1>2, <2>2, DrainedTypes
  <2>5. \/ outcome' = "refused" /\ UNCHANGED <<window, scripts, aliases>>
        \/ /\ window' = next.left /\ scripts' = known /\ aliases' = next.found
           /\ outcome' \in {"reading", "refused"}
    BY <1>3 DEF StreamChunk, grown
  <2> HIDE DEF next, known
  <2>6. at' \in 0..Len(feed')
    BY <1>1, <2>1
  <2> QED BY <2>1, <2>3, <2>4, <2>5, <2>6 DEF StreamTypeOK, Found
<1>4. ASSUME StreamEnds PROVE StreamTypeOK'
  <2>1. window \in Seq(STRING)
    BY DEF StreamTypeOK
  <2>2. aliases' \in Found
    BY <1>2, <1>4, <2>1, DrainedTypes DEF StreamEnds
  <2> QED BY <1>4, <2>2 DEF StreamEnds, StreamTypeOK, Found
<1>5. CASE StreamBreaks
  BY <1>5 DEF StreamBreaks, StreamTypeOK
<1>6. CASE UNCHANGED streamVars
  BY <1>6 DEF streamVars, StreamTypeOK
<1> QED BY <1>3, <1>4, <1>5, <1>6 DEF StreamNext

\* A chunk that is read moves the place on.
LEMMA ChunkRead ==
  ASSUME StreamInv, NEW n \in 1..MaxChunk, StreamChunk(n), outcome' = "reading"
  PROVE  \E b \in 0..at' : ReadTo(b)'
<1> DEFINE grown == window \o SubSeq(feed, at + 1, at + n)
           close == FirstFrom(grown, ScriptsClose, 1)
           known == IF scripts # NotRead THEN scripts
                    ELSE IF close = 0 THEN NotRead ELSE ScriptNames(SubSeq(grown, 1, close - 1))
           next == IF known = NotRead THEN [left |-> grown, found |-> aliases]
                                      ELSE Drained(grown, known, aliases)
<1>1. /\ feed \in Seq(STRING) /\ at \in Nat /\ n \in Nat \ {0} /\ aliases \in Found
      /\ outcome = "reading" /\ at + n <= Len(feed) /\ at' = at + n /\ feed' = feed
      /\ window' = next.left /\ scripts' = known /\ aliases' = next.found
  <2>1. feed \in Seq(STRING) /\ at \in Nat /\ n \in Nat \ {0} /\ aliases \in Found
    BY AliasAssumption DEF StreamInv, StreamTypeOK, Found
  <2>2. /\ outcome = "reading" /\ at + n <= Len(feed) /\ at' = at + n /\ feed' = feed
        /\ window' = next.left /\ scripts' = known /\ aliases' = next.found
    BY DEF StreamChunk
  <2> HIDE DEF next, known
  <2> QED BY <2>1, <2>2
<1>2. PICK b \in 0..at : ReadTo(b)
  BY <1>1 DEF StreamInv
<1>3. PICK h \in Nat : h = at + n /\ h <= Len(feed) /\ b <= h /\ b \in Nat
  BY <1>1, <1>2
<1>4. Shows(grown, feed, b, h)
  <2>1. b <= at
    BY <1>1, <1>2
  <2> HIDE DEF grown
  <2> QED BY <1>1, <1>2, <1>3, <2>1, GrownShows DEF ReadTo, grown
<1> HIDE DEF grown
<1>5. CASE known = NotRead
  <2>1. scripts = NotRead /\ close = 0 /\ window' = grown /\ aliases' = aliases /\ scripts' = NotRead
    BY <1>1, <1>5, KnownAreScripts
  <2>2. b = 0 /\ aliases = NoAliases
    BY <1>2, <2>1 DEF ReadTo
  <2>3. \A k \in TagsIn(feed, ScriptsClose) : ~(k < h)
    BY <1>1, <1>3, <1>4, <2>1, <2>2, HeadRead
  <2>4. ReadTo(0)'
    BY <1>1, <1>3, <1>4, <2>1, <2>2, <2>3 DEF ReadTo, NoAliases
  <2>5. 0 \in 0..at'
    BY <1>1
  <2> QED BY <2>4, <2>5
<1>6. CASE known # NotRead
  <2>1. known = KnownOf(feed) /\ NoneOpenAt(feed, b)
        /\ \A r \in PartyRefs : aliases[r] = NamesBetween(feed, known, r, 0, b)
    <3>1. CASE scripts # NotRead
      BY <1>2, <3>1 DEF ReadTo
    <3>2. CASE scripts = NotRead
      <4>1. b = 0 /\ aliases = NoAliases /\ close # 0 /\ known = ScriptNames(SubSeq(grown, 1, close - 1))
        BY <1>2, <1>6, <3>2 DEF ReadTo
      <4>2. known = KnownOf(feed)
        BY <1>1, <1>3, <1>4, <4>1, HeadRead
      <4>3. NoneOpenAt(feed, 0)
        BY DEF NoneOpenAt, TagsIn
      <4>4. ASSUME NEW r \in PartyRefs PROVE aliases[r] = NamesBetween(feed, known, r, 0, 0)
        <5>1. NamesBetween(feed, known, r, 0, 0) = {}
          <6>1. \A k \in 1..Len(feed) : ~(0 < k /\ k <= 0)
            OBVIOUS
          <6> QED BY <6>1 DEF NamesBetween
        <5>2. aliases[r] = {}
          BY <4>1 DEF NoAliases
        <5> QED BY <5>1, <5>2
      <4> HIDE DEF known
      <4> QED BY <4>1, <4>2, <4>3, <4>4
    <3> QED BY <3>1, <3>2
  <2>2. Drains(Drained(grown, known, aliases), feed, known, aliases, b, h)
    <3> HIDE DEF known
    <3> QED BY <1>1, <1>3, <1>4, <2>1, DrainTakes
  <2>3. Drains(next, feed, known, aliases, b, h)
    BY <1>6, <2>2
  <2> HIDE DEF next, known
  <2>4. PICK c \in b..h :
          /\ Shows(next.left, feed, c, h) /\ NoneOpenAt(feed, c) /\ Exhausted(feed, c, h)
          /\ \A r \in PartyRefs : next.found[r] = aliases[r] \cup NamesBetween(feed, known, r, b, c)
    BY <2>3 DEF Drains
  <2>5. c \in Nat /\ b <= c /\ c \in 0..at' /\ 0 <= b
    BY <1>1, <1>3, <2>4
  <2>6. ASSUME NEW r \in PartyRefs PROVE next.found[r] = NamesBetween(feed, known, r, 0, c)
    <3>1. NamesBetween(feed, known, r, 0, c) = NamesBetween(feed, known, r, 0, b) \cup NamesBetween(feed, known, r, b, c)
      BY <1>1, <1>3, <2>5, NamesSplit
    <3> QED BY <2>1, <2>4, <3>1
  <2>7. ReadTo(c)'
    BY <1>1, <1>3, <1>6, <2>1, <2>4, <2>6 DEF ReadTo
  <2> QED BY <2>5, <2>7
<1> QED BY <1>5, <1>6

\* At its end nothing of the feed is left that a party holds.
LEMMA EndRead ==
  ASSUME StreamInv, StreamEnds, NEW r \in PartyRefs, TagsIn(feed, ScriptsClose) # {}
  PROVE  aliases'[r] = Said(feed, r)
<1>1. feed \in Seq(STRING) /\ at \in Nat /\ at = Len(feed) /\ aliases \in Found /\ outcome = "reading"
  BY AliasAssumption DEF StreamInv, StreamTypeOK, Found, StreamEnds
<1>2. PICK b \in 0..at : ReadTo(b)
  BY <1>1 DEF StreamInv
<1>3. b \in Nat /\ b <= at
  BY <1>1, <1>2
<1>4. scripts # NotRead
  <2>1. \A k \in TagsIn(feed, ScriptsClose) : k < Len(feed)
    BY <1>1 DEF TagsIn
  <2> QED BY <1>1, <1>2, <2>1 DEF ReadTo
<1>5. /\ Shows(window, feed, b, at) /\ scripts = KnownOf(feed) /\ NoneOpenAt(feed, b)
      /\ aliases[r] = NamesBetween(feed, scripts, r, 0, b)
  BY <1>2, <1>4 DEF ReadTo
<1>6. Drains(Drained(window, scripts, aliases), feed, scripts, aliases, b, at)
  BY <1>1, <1>3, <1>5, DrainTakes
<1>7. PICK c \in b..at :
        /\ NoneOpenAt(feed, c) /\ Exhausted(feed, c, at)
        /\ Drained(window, scripts, aliases).found[r] = aliases[r] \cup NamesBetween(feed, scripts, r, b, c)
  BY <1>6 DEF Drains
<1>8. c \in Nat /\ b <= c /\ c <= at /\ 0 <= b
  BY <1>1, <1>3, <1>7
<1>9. NamesBetween(feed, scripts, r, c, at) = {}
  <2> SUFFICES ASSUME NEW n \in NamesBetween(feed, scripts, r, c, at) PROVE FALSE
    OBVIOUS
  <2>1. PICK k \in 1..Len(feed) : c < k /\ k <= at /\ \E o \in 1..k : Holds(feed, o, k)
    BY DEF NamesBetween
  <2>2. PICK o \in 1..k : Holds(feed, o, k)
    BY <2>1
  <2>3. PICK d \in TagsIn(feed, PartyClose) : k < d
    BY <2>2 DEF Holds
  <2>4. /\ o \in TagsIn(feed, PartyOpen) /\ o \in Nat /\ o < k /\ k \in Nat
        /\ \A e \in TagsIn(feed, PartyClose) : e \in Nat /\ ~(o < e /\ e < k)
    BY <1>1, <2>2, TagLength DEF Holds, TagsIn
  <2>5. CASE o <= c
    <3>1. PICK e \in TagsIn(feed, PartyClose) : o < e /\ e < c
      BY <1>7, <2>4, <2>5 DEF NoneOpenAt
    <3> QED BY <1>8, <2>1, <2>4, <3>1
  <2>6. CASE c < o
    <3>1. o < d /\ d \in Nat
      BY <2>3, <2>4
    <3>2. ~(d < at)
      BY <1>7, <2>4, <2>6, <3>1 DEF Exhausted
    <3>3. d < Len(feed)
      BY <1>1 DEF TagsIn
    <3> QED BY <1>1, <3>1, <3>2, <3>3
  <2> QED BY <1>8, <2>4, <2>5, <2>6
<1>10. NamesBetween(feed, scripts, r, 0, at) = NamesBetween(feed, scripts, r, 0, b) \cup NamesBetween(feed, scripts, r, b, c)
  <2>1. /\ NamesBetween(feed, scripts, r, 0, at) = NamesBetween(feed, scripts, r, 0, c) \cup NamesBetween(feed, scripts, r, c, at)
        /\ NamesBetween(feed, scripts, r, 0, c) = NamesBetween(feed, scripts, r, 0, b) \cup NamesBetween(feed, scripts, r, b, c)
    BY <1>1, <1>3, <1>8, NamesSplit
  <2> QED BY <1>9, <2>1
<1>11. aliases' = Drained(window, scripts, aliases).found
  BY <1>4 DEF StreamEnds
<1> QED BY <1>1, <1>5, <1>7, <1>10, <1>11, SaidIs

\* The stream keeps its types: the window is a part of a feed, a letter that is collected is
\* one of the script's, and the place never passes the end (parseNonLatinAliasesFromStream).
THEOREM StreamTypeCorrect == StreamSpec => []StreamTypeOK
<1>1. StreamInit => StreamTypeOK
  BY DEF StreamInit, StreamTypeOK, NoAliases
<1>2. StreamTypeOK /\ [StreamNext]_streamVars => StreamTypeOK'
  BY StreamTypeSteps
<1> QED BY <1>1, <1>2, PTL DEF StreamSpec

\* However the network cuts a feed whose reference data is closed, and wherever a tag, a
\* record or the reference data is split, a stream that is read to its end yields for every
\* entity exactly the names that the whole-string form finds (sdnAliases.ts:171).
THEOREM StreamFindsWhole ==
  ASSUME \A f \in AliasFeeds : TagsIn(f, ScriptsClose) # {}
  PROVE  StreamSpec => []StreamFindsTheWhole
<1>1. StreamInit => StreamInv
  <2> SUFFICES ASSUME StreamInit PROVE StreamInv
    OBVIOUS
  <2>1. StreamTypeOK
    BY DEF StreamInit, StreamTypeOK, NoAliases
  <2>2. ReadTo(0)
    <3>1. Shows(window, feed, 0, at)
      BY DEF StreamInit, Shows
    <3>2. \A k \in TagsIn(feed, ScriptsClose) : ~(k < 0)
      BY DEF TagsIn
    <3> QED BY <3>1, <3>2 DEF StreamInit, ReadTo
  <2>3. 0 \in 0..at /\ outcome = "reading"
    BY DEF StreamInit
  <2> QED BY <2>1, <2>2, <2>3 DEF StreamInv, StreamFindsTheWhole
<1>2. StreamInv /\ [StreamNext]_streamVars => StreamInv'
  <2> SUFFICES ASSUME StreamInv, [StreamNext]_streamVars PROVE StreamInv'
    OBVIOUS
  <2>1. StreamTypeOK'
    BY StreamTypeSteps DEF StreamInv
  <2>2. ASSUME NEW n \in 1..MaxChunk, StreamChunk(n) PROVE StreamInv'
    <3>1. outcome' # "done"
      BY <2>2 DEF StreamChunk
    <3>2. outcome' = "reading" => \E b \in 0..at' : ReadTo(b)'
      BY <2>2, ChunkRead
    <3> QED BY <2>1, <3>1, <3>2 DEF StreamInv, StreamFindsTheWhole
  <2>3. ASSUME StreamEnds PROVE StreamInv'
    <3>1. feed \in AliasFeeds /\ feed' = feed /\ outcome' = "done"
      BY <2>3 DEF StreamInv, StreamTypeOK, StreamEnds
    <3>2. \A r \in PartyRefs : aliases'[r] = Said(feed, r)
      BY <2>3, <3>1, EndRead
    <3>3. \A r \in PartyRefs : aliases'[r] = Said(feed', r)
      BY <3>1, <3>2
    <3> QED BY <2>1, <3>1, <3>3 DEF StreamInv, StreamFindsTheWhole
  <2>4. CASE StreamBreaks
    BY <2>1, <2>4 DEF StreamBreaks, StreamInv, StreamFindsTheWhole
  <2>5. CASE UNCHANGED streamVars
    BY <2>1, <2>5 DEF streamVars, StreamInv, StreamFindsTheWhole, ReadTo
  <2> QED BY <2>2, <2>3, <2>4, <2>5 DEF StreamNext
<1>3. StreamInv => StreamFindsTheWhole
  BY DEF StreamInv
<1> QED BY <1>1, <1>2, <1>3, PTL DEF StreamSpec
=============================================================================
