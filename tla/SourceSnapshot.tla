--------------------------- MODULE SourceSnapshot ---------------------------
(* A snapshot of every feed, captured by one of several publishers into one  *)
(* target directory (snapshotSources.ts): a lock file, a staging directory,  *)
(* the captures side by side, the manifest, and the promotion by rename.  A  *)
(* publisher may die at any point; nobody cleans up after it.                *)
EXTENDS FeedFetch

CONSTANTS Publisher, NoPublisher, NoTree,
          Streamed   \* the feeds whose body goes to disk as it comes (the aliases)

ASSUME SnapshotAssumption ==
  Streamed \subseteq Feed /\ NoPublisher \notin Publisher

VARIABLES snap,     \* where every publisher is
          lockFile, \* who made the lock file that is there
          staging,  \* the staging directory of every publisher
          target    \* the directory that consumers read

snapVars == <<req, snap, lockFile, staging, target>>

\* What a directory holds.
Trees == [files : [Feed -> {"none", "partial", "whole"}], manifest : BOOLEAN]
EmptyTree == [files |-> [f \in Feed |-> "none"], manifest |-> FALSE]

SnapPhase == {"idle", "locked", "capturing", "captured", "listed", "unwinding", "releasing",
              "ended", "refused", "dead"}
SnapshotTypeOK ==
  /\ FeedTypeOK
  /\ snap \in [Publisher -> SnapPhase]
  /\ lockFile \in Publisher \cup {NoPublisher}
  /\ staging \in [Publisher -> Trees \cup {NoTree}]
  /\ target \in Trees \cup {NoTree}

SnapInit ==
  /\ FeedInit
  /\ snap = [p \in Publisher |-> "idle"] /\ lockFile = NoPublisher
  /\ staging = [p \in Publisher |-> NoTree] /\ target = NoTree

SnapGoes(p, phase) == snap' = [snap EXCEPT ![p] = phase]

-----------------------------------------------------------------------------
\* The lock file is made exclusively, or the publisher gives up.
TakesLock(p) ==
  /\ snap[p] = "idle"
  /\ IF lockFile = NoPublisher THEN lockFile' = p /\ SnapGoes(p, "locked")
                               ELSE SnapGoes(p, "refused") /\ UNCHANGED lockFile
  /\ UNCHANGED <<req, staging, target>>

\* assertTargetAbsent, the staging directory, and every capture at once.
BeginsCaptures(p) ==
  /\ snap[p] = "locked"
  /\ IF target # NoTree THEN SnapGoes(p, "releasing") /\ UNCHANGED <<req, staging>>
     ELSE /\ SnapGoes(p, "capturing")
          /\ staging' = [staging EXCEPT ![p] = EmptyTree]
          /\ req' = [f \in Feed |-> [Quiet EXCEPT !.phase = "asking", !.attempt = 1]]
  /\ UNCHANGED <<lockFile, target>>

FileIs(p, f, s) == staging' = [staging EXCEPT ![p].files[f] = s]

\* Where the date is in the headers, as for a streamed feed and for one of the texts, a
\* response without one is cancelled unread.
HeadersRefused(f) ==
  FeedAt(f, "answered") /\ ~req[f].answer.dated /\ FeedBecomes(f, CancelledFeed(f)) /\ UNCHANGED staging

StreamOpens(p, f) ==
  /\ f \in Streamed /\ req[f].answer.dated /\ BodyBegins(f)
  /\ IF req[f].answer.body THEN FileIs(p, f, "partial") ELSE UNCHANGED staging

TextOpens(f) == f \notin Streamed /\ BodyBegins(f) /\ UNCHANGED staging

\* A body that breaks takes its file along.
Pulls(p, f) ==
  /\ ChunkComes(f) \/ BodyBreaks(f)
  /\ IF f \in Streamed /\ req'[f].phase = "failed" THEN FileIs(p, f, "none") ELSE UNCHANGED staging

StreamCloses(p, f) == f \in Streamed /\ BodyEnds(f) /\ FileIs(p, f, "whole")
TextEnds(f) == f \notin Streamed /\ BodyEnds(f) /\ UNCHANGED staging

\* A text states its date in the payload; then it is written.
TextRefused(f) ==
  /\ f \notin Streamed /\ FeedAt(f, "read") /\ ~req[f].answer.dated
  /\ FeedBecomes(f, CancelledFeed(f)) /\ UNCHANGED staging
TextWritten(p, f) ==
  /\ f \notin Streamed /\ FeedAt(f, "read") /\ req[f].answer.dated
  /\ staging[p].files[f] # "whole"
  /\ FileIs(p, f, IF staging[p].files[f] = "none" THEN "partial" ELSE "whole")
  /\ UNCHANGED req

Captures(p, f) ==
  /\ snap[p] = "capturing"
  /\ \/ FeedAsks(f) /\ UNCHANGED staging
     \/ HeadersRefused(f) \/ StreamOpens(p, f) \/ TextOpens(f) \/ Pulls(p, f) \/ StreamCloses(p, f)
     \/ TextEnds(f) \/ TextRefused(f) \/ TextWritten(p, f)
  /\ UNCHANGED <<snap, lockFile, target>>

CaptureFailed(f) == FeedAt(f, "failed")
CaptureDone(p, f) == FeedAt(f, "read") /\ staging[p].files[f] = "whole"

\* Mutant of Settled: the first failure ends the wait (Promise.all).
SettledEagerly(p) ==
  (\E f \in Feed : CaptureFailed(f)) \/ (\A f \in Feed : CaptureDone(p, f))

\* Every capture is awaited, the failed ones too.
Settled(p) == \A f \in Feed : CaptureFailed(f) \/ CaptureDone(p, f)

CapturesEnd(p) ==
  /\ snap[p] = "capturing" /\ Settled(p)
  /\ SnapGoes(p, IF \E f \in Feed : CaptureFailed(f) THEN "unwinding" ELSE "captured")
  /\ UNCHANGED <<req, lockFile, staging, target>>

ListsFiles(p) ==
  /\ snap[p] = "captured" /\ SnapGoes(p, "listed")
  /\ staging' = [staging EXCEPT ![p].manifest = TRUE]
  /\ UNCHANGED <<req, lockFile, target>>

\* The target is asked for again before the rename.
Promotes(p) ==
  /\ snap[p] = "listed"
  /\ IF target # NoTree THEN SnapGoes(p, "unwinding") /\ UNCHANGED <<staging, target>>
     ELSE /\ target' = staging[p]
          /\ staging' = [staging EXCEPT ![p] = NoTree]
          /\ SnapGoes(p, "releasing")
  /\ UNCHANGED <<req, lockFile>>

\* The disk may fail where the manifest is written or the directory renamed (a write that
\* fails under a capture is a body that breaks).
DiskFails(p) ==
  /\ snap[p] \in {"captured", "listed"} /\ SnapGoes(p, "unwinding")
  /\ UNCHANGED <<req, lockFile, staging, target>>

Unwinds(p) ==
  /\ snap[p] = "unwinding" /\ SnapGoes(p, "releasing")
  /\ staging' = [staging EXCEPT ![p] = NoTree]
  /\ UNCHANGED <<req, lockFile, target>>

Releases(p) ==
  /\ snap[p] = "releasing" /\ SnapGoes(p, "ended") /\ lockFile' = NoPublisher
  /\ UNCHANGED <<req, staging, target>>

\* What a dead publisher had open is closed with it; its files stay.
Dies(p) ==
  /\ snap[p] \notin {"idle", "ended", "refused", "dead"} /\ SnapGoes(p, "dead")
  /\ req' = [f \in Feed |-> Quiet]
  /\ UNCHANGED <<lockFile, staging, target>>

SnapshotStep(p) ==
  \/ TakesLock(p) \/ BeginsCaptures(p) \/ \E f \in Feed : Captures(p, f)
  \/ CapturesEnd(p) \/ ListsFiles(p) \/ Promotes(p) \/ DiskFails(p) \/ Unwinds(p)
  \/ Releases(p) \/ Dies(p)
SnapshotNext == \E p \in Publisher : SnapshotStep(p)
SnapshotSpec == SnapInit /\ [][SnapshotNext]_snapVars

-----------------------------------------------------------------------------
\* A snapshot that a build can read holds its manifest and a whole, genuine copy of every
\* feed, whatever failed, raced or died; and a publisher that came to an end by itself has
\* left no staging directory, no lock and no response that is neither read nor cancelled
\* (snapshotSources.ts:273-303, captureAll awaits every capture before it throws).
SnapshotIsWhole ==
  /\ target # NoTree => target.manifest /\ \A f \in Feed : target.files[f] = "whole"
  /\ \A p \in Publisher : snap[p] \in {"ended", "refused"} =>
       /\ staging[p] = NoTree /\ lockFile # p
       /\ lockFile = NoPublisher => \A f \in Feed : ~req[f].open
=============================================================================
