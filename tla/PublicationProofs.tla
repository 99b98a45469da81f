------------------------- MODULE PublicationProofs -------------------------
(* The release pipeline, for any runs, lists, visitors and ceilings: its      *)
(* types; the age a copy states is true wherever the copy goes; what is live  *)
(* has been verified once no job is at work; the app never regresses but by a *)
(* rollback; and a sequence names one bundle where nothing is rolled back.    *)
EXTENDS Publication, TLAPS

-----------------------------------------------------------------------------
(* The turnstile does what it is for, for any set of runs: as long as no run *)
(* is run again, one run writes at a time and none is ever pending in the  *)
(* group or cancelled by it.  The pipeline of Publication implements the   *)
(* queue, so the same holds of it.                                         *)

(* A run that has left the turnstile finds every older run completed, and  *)
(* runs are created in the order of their ids.                             *)
InOrder ==
  /\ \A q, r \in Run : q < r /\ status[r] \in {"granted", "running"} => status[q] = "completed"
  /\ \A q, r \in Run : q < r /\ status[r] # "absent" => status[q] # "absent"

NonePending == \A r \in Run : status[r] \notin {"pending", "cancelled"}

QueueInv == QueueTypeOK /\ NonePending /\ InOrder

\* One run past the turnstile at a time: a second one would be older or younger.
LEMMA OneAtATime ==
  ASSUME InOrder, NEW q \in Run, NEW r \in Run, status[q] = "running",
         status[r] \in {"granted", "running"}
  PROVE  q = r
<1>1. q \in Nat /\ r \in Nat
  BY RunAssumption
<1>2. ~(q < r) /\ ~(r < q)
  BY DEF InOrder
<1> QED
  BY <1>1, <1>2

LEMMA QueueInvImplies == QueueInv => NothingPending
  BY OneAtATime DEF QueueInv, NonePending, NothingPending

LEMMA QueueInvInit == QueueInit => QueueInv
  BY DEF QueueInit, QueueInv, QueueTypeOK, NonePending, InOrder, Statuses

LEMMA QueueInvStep ==
  ASSUME Rerunnable = {}, QueueInv, [QueueNext]_status
  PROVE  QueueInv'
<1> USE DEF QueueInv, QueueTypeOK, NonePending, InOrder, Statuses
<1>1. CASE UNCHANGED status
  BY <1>1
<1>2. ASSUME NEW r \in Run, Triggered(r)  PROVE QueueInv'
  BY <1>2 DEF Triggered, Becomes
<1>3. ASSUME NEW r \in Run, TakesTurn(r)  PROVE QueueInv'
  <2>1. \A q \in Run : q < r => status[q] = "completed"
    BY <1>3 DEF TakesTurn, Ahead, Alive
  <2> QED
    BY <1>3, <2>1 DEF TakesTurn, Becomes
<1>4. ASSUME NEW r \in Run, GivesUp(r)  PROVE QueueInv'
  BY <1>4 DEF GivesUp, Becomes
<1>5. ASSUME NEW r \in Run, Enters(r)  PROVE QueueInv'
  <2>1. GroupIsFree
    BY <1>5, OneAtATime DEF Enters, GroupIsFree
  <2> QED
    BY <1>5, <2>1 DEF Enters, Becomes
<1>6. ASSUME NEW r \in Run, Promoted(r)  PROVE QueueInv'
  BY <1>6 DEF Promoted
<1>7. ASSUME NEW r \in Run, Completes(r)  PROVE QueueInv'
  BY <1>7 DEF Completes, Becomes
<1>8. ASSUME NEW r \in Run, Rerun(r)  PROVE QueueInv'
  BY <1>8 DEF Rerun
<1> QED
  BY <1>1, <1>2, <1>3, <1>4, <1>5, <1>6, <1>7, <1>8 DEF QueueNext, Queues

\* Nothing is pending in the group, and one run writes at a time (queue.py:6-8).
THEOREM QueueKeepsGroup ==
  ASSUME Rerunnable = {}
  PROVE  QueueSpec => []NothingPending
<1>1. QueueInv /\ [QueueNext]_status => QueueInv'
  BY QueueInvStep
<1> QED
  BY <1>1, QueueInvInit, QueueInvImplies, PTL DEF QueueSpec

-----------------------------------------------------------------------------
(* Every step of the pipeline is a step of the queue or leaves it alone.   *)
LEMMA StepIsQueueStep == [Next]_vars => [QueueNext]_status
<1> SUFFICES ASSUME [Next]_vars PROVE [QueueNext]_status
  OBVIOUS
<1>1. CASE UNCHANGED vars
  BY <1>1 DEF vars
<1>2. CASE Tick \/ Commits \/ \E l \in List : Revises(l)
  BY <1>2 DEF Tick, Commits, Revises
<1>3. ASSUME NEW r \in Run, Requested(r) \/ Waits(r)  PROVE QueueNext
  BY <1>3 DEF Requested, Waits, QueueNext
<1>4. ASSUME NEW r \in Run, Works(r)  PROVE [QueueNext]_status
  <2>1. CASE Starts(r) \/ Builds(r) \/ Mirrors(r) \/ Uploads(r)
    BY <2>1 DEF Starts, Builds, Mirrors, Uploads
  <2>2. CASE Passes(r) \/ RollsBack(r) \/ Lost(r) \/ Fails(r)
    <3>1. Completes(r)
      BY <2>2 DEF Passes, RollsBack, Lost, Fails, Ends
    <3> QED
      BY <3>1 DEF QueueNext
  <2> QED
    BY <1>4, <2>1, <2>2 DEF Works
<1>5. ASSUME NEW v \in Visitor, Visits(v)  PROVE UNCHANGED status
  BY <1>5 DEF Visits, Opens, Loads, Polls, ClearsCache, Closes
<1> QED
  BY <1>1, <1>2, <1>3, <1>4, <1>5 DEF Next

\* The release pipeline implements the queue (main.py:615-629 runs as the
\* write job of a run, deploy.yml and publish-watchlist.yml).
THEOREM PublicationQueues == Spec => QueueSpec
<1>1. Init => QueueInit
  BY DEF Init
<1> QED
  BY <1>1, StepIsQueueStep, PTL DEF Spec, QueueSpec

\* So two releases never write at once and none is lost to the group.
THEOREM PublicationKeepsGroup ==
  ASSUME Rerunnable = {}
  PROVE  Spec => []NothingPending
  BY PublicationQueues, QueueKeepsGroup, PTL

-----------------------------------------------------------------------------
(* The pipeline.                                                           *)

JobPhases == {"idle", "building", "built", "uploaded"}
Jobs == [kind : Kinds \cup {None}, sha : 0..MaxCommit, phase : JobPhases, seq : Nat,
         next : Deployments \cup {None}, target : Deployments \cup {None}]
Pasts == [checked : SUBSET Deployments, abandoned : SUBSET Deployments]

\* A job is at work only in a run that has the group, and holds whole deployments.
Types ==
  /\ QueueTypeOK
  /\ now \in 0..MaxTick /\ head \in 0..MaxCommit /\ upstream \in [List -> 0..MaxTick]
  /\ live \in Deployments /\ past \in Pasts
  /\ job \in [Run -> Jobs]
  /\ \A r \in Run :
       /\ job[r].phase \in {"built", "uploaded"} =>
            job[r].next \in Deployments /\ job[r].target \in Deployments
       /\ job[r].phase # "idle" => status[r] = "running"
  /\ page \in [Visitor -> [List -> Copies] \cup {None}]

LEMMA TypesImply == Types => TypeOK
BY DEF Types, TypeOK, Jobs, JobPhases

LEMMA DayIsNat == \A t \in Nat : Day(t) \in Nat
BY PublicationAssumption DEF Day

LEMMA TypesInit == Init => Types
<1> SUFFICES ASSUME Init PROVE Types
  OBVIOUS
<1>1. 0 \in 0..MaxTick /\ 0 \in 0..MaxCommit
  BY PublicationAssumption
<1>2. live \in Deployments
  <2>1. live.bundle.lists \in [List -> Copies] /\ live.bundle \in Bundles
    BY <1>1 DEF Init, Bundles, Copies
  <2> QED BY <1>1, <2>1 DEF Init, Deployments
<1>3. past \in Pasts
  BY <1>2 DEF Init, Pasts
<1>4. NewJob(None, 0) \in Jobs /\ NewJob(None, 0).phase = "idle"
  BY <1>1 DEF NewJob, Jobs, JobPhases
<1>5. QueueTypeOK
  BY DEF Init, QueueInit, QueueTypeOK, Statuses
<1> QED BY <1>1, <1>2, <1>3, <1>4, <1>5 DEF Init, Types

\* What a run does outside its write job leaves the write jobs alone.
LEMMA QueueKeepsTypes ==
  ASSUME QueueTypeOK, NEW r \in Run, Triggered(r) \/ Queues(r) \/ Completes(r) \/ Rerun(r)
  PROVE  /\ QueueTypeOK'
         /\ \A q \in Run : status[q] = "running" /\ ~(q = r /\ Completes(r)) => status'[q] = "running"
<1> USE DEF QueueTypeOK, Statuses, Becomes
<1>1. CASE Triggered(r)
  BY <1>1 DEF Triggered
<1>2. CASE Queues(r)
  <2>1. CASE TakesTurn(r) \/ GivesUp(r) \/ Promoted(r)
    BY <2>1 DEF TakesTurn, GivesUp, Promoted
  <2>2. CASE Enters(r)
    BY <2>2 DEF Enters
  <2> QED BY <1>2, <2>1, <2>2 DEF Queues
<1>3. CASE Completes(r)
  BY <1>3 DEF Completes
<1>4. CASE Rerun(r)
  BY <1>4 DEF Rerun
<1> QED BY <1>1, <1>2, <1>3, <1>4

LEMMA AssembledTypes ==
  ASSUME Types, NEW failing \in SUBSET List
  PROVE  Assembled(failing) \in [List -> Copies]
<1>1. now \in 0..MaxTick /\ Day(now) \in Nat
  BY DayIsNat, PublicationAssumption DEF Types
<1>2. \A l \in List : Fetched(l) \in Copies
  BY <1>1 DEF Types, Fetched, Copies
<1>3. \A l \in List : live.bundle.lists[l] \in Copies
  BY DEF Types, Deployments, Bundles
<1>4. \A l \in List : Carried(l) \in Copies
  BY <1>3 DEF Carried, Copies
<1> QED BY <1>2, <1>4 DEF Assembled

-----------------------------------------------------------------------------
(* What each step of a write job leaves in job.                              *)

\* The job of r becomes j; the others stay.
Sets(r, j) == job' = [job EXCEPT ![r] = j]

LEMMA StartsSets ==
  ASSUME Types, NEW r \in Run, Starts(r)
  PROVE  \E j \in Jobs : /\ Sets(r, j) /\ j.phase = "building" /\ j.sha = job[r].sha
                         /\ j.seq = live.bundle.seq + 1
<1> DEFINE j == [job[r] EXCEPT !.phase = "building", !.seq = SequenceAfterLive]
<1>1. job[r] \in Jobs /\ live.bundle.seq \in Nat
  BY DEF Types, Deployments, Bundles
<1>2. SequenceAfterLive \in Nat
  BY <1>1 DEF SequenceAfterLive
<1>3. j \in Jobs /\ j.phase = "building" /\ j.sha = job[r].sha /\ j.seq = live.bundle.seq + 1
  BY <1>1, <1>2 DEF Jobs, JobPhases, SequenceAfterLive
<1>4. Sets(r, j)
  BY DEF Types, Starts, Sets
<1> QED BY <1>3, <1>4

LEMMA BuildingSets ==
  ASSUME Types, NEW r \in Run, Builds(r) \/ Mirrors(r)
  PROVE  \E bundle \in Bundles, j \in Jobs :
           /\ Sets(r, j) /\ j.phase = "built" /\ j.sha = job[r].sha /\ j.target = live
           /\ j.next = [run |-> r, app |-> job[r].sha, bundle |-> bundle] /\ j.next \in Deployments
           /\ \/ bundle = live.bundle
              \/ /\ bundle.seq = job[r].seq
                 /\ \E failing \in SUBSET List : bundle.lists = Assembled(failing)
<1>1. job[r] \in Jobs /\ live \in Deployments /\ live.bundle \in Bundles /\ now \in 0..MaxTick
  BY DEF Types, Deployments
<1>2. PICK bundle \in Bundles :
        /\ Built(r, bundle)
        /\ \/ bundle = live.bundle
           \/ /\ bundle.seq = job[r].seq
              /\ \E failing \in SUBSET List : bundle.lists = Assembled(failing)
  <2>1. CASE Builds(r)
    <3>1. PICK failing \in SUBSET List :
            Built(r, [seq |-> job[r].seq, by |-> r, made |-> now, lists |-> Assembled(failing)])
      BY <2>1 DEF Builds
    <3>2. [seq |-> job[r].seq, by |-> r, made |-> now, lists |-> Assembled(failing)] \in Bundles
      BY <1>1, AssembledTypes DEF Jobs, Bundles
    <3> QED BY <3>1, <3>2
  <2>2. CASE Mirrors(r)
    BY <1>1, <2>2 DEF Mirrors
  <2> QED BY <2>1, <2>2
<1> DEFINE next == [run |-> r, app |-> job[r].sha, bundle |-> bundle]
           j == [job[r] EXCEPT !.phase = "built", !.target = live, !.next = next]
<1>3. next \in Deployments
  BY <1>1 DEF Jobs, Deployments
<1>4. /\ j \in Jobs /\ j.phase = "built" /\ j.sha = job[r].sha /\ j.target = live /\ j.next = next
  <2> HIDE DEF next
  <2> QED BY <1>1, <1>3 DEF Jobs, JobPhases
<1>5. Sets(r, j)
  BY <1>2 DEF Types, Built, Sets
<1> QED BY <1>2, <1>3, <1>4, <1>5

LEMMA UploadsSets ==
  ASSUME Types, NEW r \in Run, Uploads(r)
  PROVE  \E j \in Jobs :
           /\ Sets(r, j) /\ j.phase = "uploaded" /\ j.sha = job[r].sha
           /\ j.next = job[r].next /\ j.target = job[r].target
<1> DEFINE j == [job[r] EXCEPT !.phase = "uploaded"]
<1>1. job[r] \in Jobs
  BY DEF Types
<1>2. /\ j \in Jobs /\ j.phase = "uploaded" /\ j.sha = job[r].sha
      /\ j.next = job[r].next /\ j.target = job[r].target
  BY <1>1 DEF Jobs, JobPhases
<1>3. Sets(r, j)
  BY DEF Types, Uploads, Sets
<1> QED BY <1>2, <1>3

LEMMA EndsSets ==
  ASSUME Types, NEW r \in Run, Ends(r)
  PROVE  \E j \in Jobs : Sets(r, j) /\ j.phase = "idle" /\ j.sha = job[r].sha
<1> DEFINE j == NewJob(job[r].kind, job[r].sha)
<1>1. job[r] \in Jobs
  BY DEF Types
<1>2. j \in Jobs /\ j.phase = "idle" /\ j.sha = job[r].sha
  BY <1>1 DEF NewJob, Jobs, JobPhases
<1> QED BY <1>2 DEF Ends, Sets

LEMMA RequestedSets ==
  ASSUME Types, NEW r \in Run, Requested(r)
  PROVE  \E j \in Jobs : Sets(r, j) /\ j.phase = "idle" /\ j.sha \in 0..head
<1>1. PICK k \in Kinds, sha \in 0..head : job' = [job EXCEPT ![r] = NewJob(k, sha)]
  BY DEF Requested
<1>2. sha \in 0..MaxCommit
  BY PublicationAssumption DEF Types
<1>3. NewJob(k, sha) \in Jobs /\ NewJob(k, sha).phase = "idle" /\ NewJob(k, sha).sha = sha
  BY <1>2, PublicationAssumption DEF NewJob, Jobs, JobPhases
<1> QED BY <1>1, <1>3 DEF Sets

-----------------------------------------------------------------------------
(* The types are kept. *)

LEMMA JobTypesKept ==
  ASSUME Types, NEW r \in Run, NEW j \in Jobs, Sets(r, j), QueueTypeOK',
         j.phase \in {"built", "uploaded"} => j.next \in Deployments /\ j.target \in Deployments,
         j.phase # "idle" => status'[r] = "running",
         \A q \in Run \ {r} : status[q] = "running" => status'[q] = "running",
         UNCHANGED world, live' \in Deployments, past' \in Pasts, UNCHANGED page
  PROVE  Types'
<1>1. job' \in [Run -> Jobs] /\ job'[r] = j /\ \A q \in Run \ {r} : job'[q] = job[q]
  BY DEF Types, Sets
<1> QED BY <1>1 DEF Types, world

LEMMA WorksKeepsTypes ==
  ASSUME Types, NEW r \in Run, Works(r)
  PROVE  Types'
<1>1. job[r] \in Jobs /\ live \in Deployments /\ past \in Pasts
  BY DEF Types
<1>2. CASE Starts(r)
  BY <1>1, <1>2, StartsSets, JobTypesKept DEF Starts, At, Types, visits, QueueTypeOK
<1>3. CASE Builds(r) \/ Mirrors(r)
  <2>1. status[r] = "running" /\ UNCHANGED <<status, world, live, past, page>>
    BY <1>3 DEF Builds, Mirrors, At, visits
  <2>2. QueueTypeOK'
    BY <2>1 DEF Types, QueueTypeOK
  <2> QED BY <1>1, <1>3, <2>1, <2>2, BuildingSets, JobTypesKept
<1>4. CASE Uploads(r)
  <2>1. status[r] = "running" /\ job[r].next \in Deployments /\ job[r].target \in Deployments
    BY <1>4 DEF Uploads, At, Types
  <2>2. live' = job[r].next /\ UNCHANGED <<status, world, page>>
    BY <1>4 DEF Uploads, visits
  <2>3. past' \in Pasts
    <3>1. Pointer' \in [seq : Nat, by : Run \cup {0}]
      BY <2>1, <2>2 DEF Pointer, Deployments, Bundles
    <3> QED BY <1>1, <1>4, <3>1 DEF Uploads, Pasts
  <2>4. QueueTypeOK'
    BY <2>2 DEF Types, QueueTypeOK
  <2> QED BY <1>4, <2>1, <2>2, <2>3, <2>4, UploadsSets, JobTypesKept
<1>5. CASE Passes(r) \/ RollsBack(r) \/ Lost(r) \/ Fails(r)
  <2>1. Ends(r) /\ UNCHANGED <<world, page>>
    BY <1>5 DEF Passes, RollsBack, Lost, Fails, visits
  <2>2. QueueTypeOK' /\ \A q \in Run \ {r} : status[q] = "running" => status'[q] = "running"
    BY <2>1, QueueKeepsTypes DEF Ends, Types
  <2>3. live' \in Deployments
    BY <1>5, <1>1 DEF Passes, RollsBack, Lost, Fails, At, Types
  <2>4. past' \in Pasts
    BY <1>5, <1>1 DEF Passes, RollsBack, Lost, Fails, Pasts
  <2> QED BY <2>1, <2>2, <2>3, <2>4, EndsSets, JobTypesKept
<1> QED BY <1>2, <1>3, <1>4, <1>5 DEF Works

LEMMA TypesNext == Types /\ [Next]_vars => Types'
<1> SUFFICES ASSUME Types, [Next]_vars PROVE Types'
  OBVIOUS
<1>1. CASE Tick \/ Commits \/ (\E l \in List : Revises(l))
  BY <1>1, PublicationAssumption DEF Tick, Commits, Revises, Types, QueueTypeOK, visits
<1>2. ASSUME NEW r \in Run, Requested(r) PROVE Types'
  <2>1. PICK j \in Jobs : Sets(r, j) /\ j.phase = "idle"
    BY <1>2, RequestedSets
  <2>2. QueueTypeOK' /\ \A q \in Run \ {r} : status[q] = "running" => status'[q] = "running"
    BY <1>2, QueueKeepsTypes DEF Requested, Types
  <2>3. UNCHANGED <<world, live, past, page>>
    BY <1>2 DEF Requested, visits
  <2> QED BY <2>1, <2>2, <2>3, JobTypesKept DEF Types
<1>3. ASSUME NEW r \in Run, Waits(r) PROVE Types'
  <2>1. QueueTypeOK' /\ \A q \in Run : status[q] = "running" => status'[q] = "running"
    <3>1. Queues(r) \/ Rerun(r)
      BY <1>3 DEF Waits
    <3>2. ~Completes(r)
      BY <3>1 DEF Types, QueueTypeOK, Queues, TakesTurn, GivesUp, Enters, Promoted, Rerun, Completes
    <3> QED BY <3>1, <3>2, QueueKeepsTypes DEF Types
  <2> QED BY <1>3, <2>1 DEF Waits, Types, world, visits
<1>4. ASSUME NEW r \in Run, Works(r) PROVE Types'
  BY <1>4, WorksKeepsTypes
<1>5. ASSUME NEW v \in Visitor, Visits(v) PROVE Types'
  <2>1. UNCHANGED <<status, world, job, live, past>>
    BY <1>5 DEF Visits, Opens, Loads, Polls, ClearsCache, Closes
  <2>2. live.bundle.lists \in [List -> Copies]
    BY DEF Types, Deployments, Bundles
  <2>3. page' \in [Visitor -> [List -> Copies] \cup {None}]
    BY <1>5, <2>2 DEF Types, Visits, Opens, Loads, Polls, ClearsCache, Closes
  <2> QED BY <2>1, <2>3 DEF Types, QueueTypeOK, world
<1>6. CASE UNCHANGED vars
  BY <1>6 DEF vars, world, visits, Types, QueueTypeOK
<1> QED BY <1>1, <1>2, <1>3, <1>4, <1>5, <1>6 DEF Next

-----------------------------------------------------------------------------
(* The ages that copies state. *)

\* Every change made before a copy was fetched is in it, and no copy is fetched in the future.
Truthful(lists) ==
  \A l \in List : lists[l].fetched <= now /\ (upstream[l] < lists[l].fetched => lists[l].rev = upstream[l])

Ages ==
  /\ Truthful(live.bundle.lists)
  /\ \A v \in Visitor : page[v] # None => Truthful(page[v])
  /\ \A r \in Run :
       /\ job[r].phase = "built" => Truthful(job[r].next.bundle.lists)
       /\ job[r].phase \in {"built", "uploaded"} => Truthful(job[r].target.bundle.lists)

LEMMA AgesImply == Ages => StatedAgeIsTrue
BY DEF Ages, Truthful, StatedAgeIsTrue, Honest

LEMMA AgesInit == Init => Ages
BY DEF Init, Ages, Truthful, NewJob

LEMMA AssembledIsTrue ==
  ASSUME Types, Ages, NEW failing \in SUBSET List
  PROVE  Truthful(Assembled(failing))
<1> SUFFICES ASSUME NEW l \in List
             PROVE  /\ Assembled(failing)[l].fetched <= now
                    /\ upstream[l] < Assembled(failing)[l].fetched =>
                         Assembled(failing)[l].rev = upstream[l]
  BY DEF Truthful
<1>1. now \in Nat /\ upstream[l] \in Nat /\ live.bundle.lists[l] \in Copies
  BY PublicationAssumption DEF Types, Deployments, Bundles
<1>2. CASE l \in failing
  <2>1. Assembled(failing)[l] = Carried(l)
    BY <1>2 DEF Assembled
  <2>2. Carried(l).fetched = live.bundle.lists[l].fetched /\ Carried(l).rev = live.bundle.lists[l].rev
    BY <1>1 DEF Carried, Copies
  <2> QED BY <2>1, <2>2 DEF Ages, Truthful
<1>3. CASE l \notin failing
  BY <1>1, <1>3 DEF Assembled, Fetched
<1> QED BY <1>2, <1>3

\* A list stays true while the clock goes on and the feed changes.
LEMMA TrueLater ==
  ASSUME NEW lists, Truthful(lists), Types,
         Tick \/ (\E l \in List : Revises(l)) \/ UNCHANGED <<now, upstream>>,
         \A l \in List : lists[l].fetched \in Nat
  PROVE  \A l \in List : /\ lists[l].fetched <= now'
                         /\ upstream'[l] < lists[l].fetched => lists[l].rev = upstream'[l]
<1>1. now \in Nat /\ upstream \in [List -> Nat]
  BY PublicationAssumption DEF Types
<1>2. CASE Tick
  BY <1>1, <1>2 DEF Tick, Truthful
<1>3. CASE \E l \in List : Revises(l)
  BY <1>1, <1>3 DEF Revises, Truthful
<1>4. CASE UNCHANGED <<now, upstream>>
  BY <1>4 DEF Truthful
<1> QED BY <1>2, <1>3, <1>4

LEMMA FetchedIsNat ==
  ASSUME Types
  PROVE  /\ \A d \in Deployments : \A l \in List : d.bundle.lists[l].fetched \in Nat
         /\ \A v \in Visitor : page[v] # None => \A l \in List : page[v][l].fetched \in Nat
<1>1. \A c \in Copies : c.fetched \in Nat
  BY PublicationAssumption DEF Copies
<1> QED BY <1>1 DEF Types, Deployments, Bundles

LEMMA OutsideKeepsAges ==
  ASSUME Types, Ages, UNCHANGED <<job, live, page>>,
         Tick \/ (\E l \in List : Revises(l)) \/ UNCHANGED <<now, upstream>>
  PROVE  Ages'
<1>1. Truthful(live.bundle.lists)'
  BY TrueLater, FetchedIsNat DEF Ages, Truthful, Types
<1>2. \A v \in Visitor : page[v] # None => Truthful(page[v])'
  BY TrueLater, FetchedIsNat DEF Ages, Truthful
<1>3. ASSUME NEW r \in Run, job[r].phase = "built" PROVE Truthful(job[r].next.bundle.lists)'
  <2>1. job[r].next \in Deployments /\ Truthful(job[r].next.bundle.lists)
    BY <1>3 DEF Types, Ages
  <2> QED BY <2>1, TrueLater, FetchedIsNat DEF Truthful
<1>4. ASSUME NEW r \in Run, job[r].phase \in {"built", "uploaded"} PROVE Truthful(job[r].target.bundle.lists)'
  <2>1. job[r].target \in Deployments /\ Truthful(job[r].target.bundle.lists)
    BY <1>4 DEF Types, Ages
  <2> QED BY <2>1, TrueLater, FetchedIsNat DEF Truthful
<1> QED BY <1>1, <1>2, <1>3, <1>4 DEF Ages

\* A job that leaves its run with true copies, and what is live true.
LEMMA JobKeepsAges ==
  ASSUME Types, Ages, NEW r \in Run, NEW j \in Jobs, Sets(r, j), UNCHANGED <<now, upstream, page>>,
         Truthful(live.bundle.lists)',
         j.phase = "built" => Truthful(j.next.bundle.lists),
         j.phase \in {"built", "uploaded"} => Truthful(j.target.bundle.lists)
  PROVE  Ages'
<1>1. job'[r] = j /\ \A q \in Run : q # r => job'[q] = job[q]
  BY DEF Types, Sets
<1>2. \A v \in Visitor : page[v] # None => Truthful(page[v])'
  BY DEF Ages, Truthful
<1>3. ASSUME NEW q \in Run
      PROVE  /\ job'[q].phase = "built" => Truthful(job[q].next.bundle.lists)'
             /\ job'[q].phase \in {"built", "uploaded"} => Truthful(job[q].target.bundle.lists)'
  <2>1. CASE q = r
    BY <1>1, <2>1 DEF Truthful
  <2>2. CASE q # r
    BY <1>1, <2>2 DEF Ages, Truthful
  <2> QED BY <2>1, <2>2
<1> QED BY <1>2, <1>3 DEF Ages

LEMMA AgesNext == Types /\ Ages /\ [Next]_vars => Ages'
<1> SUFFICES ASSUME Types, Ages, [Next]_vars PROVE Ages'
  OBVIOUS
<1>1. CASE Tick \/ Commits \/ (\E l \in List : Revises(l)) \/ UNCHANGED vars
  BY <1>1, OutsideKeepsAges DEF Tick, Commits, Revises, vars, world, visits
<1>2. ASSUME NEW r \in Run, Requested(r) PROVE Ages'
  <2>1. PICK j \in Jobs : Sets(r, j) /\ j.phase = "idle"
    BY <1>2, RequestedSets
  <2>2. UNCHANGED <<now, upstream, live, page>>
    BY <1>2 DEF Requested, world, visits
  <2>3. Truthful(live.bundle.lists)'
    BY <2>2 DEF Ages, Truthful
  <2> QED BY <2>1, <2>2, <2>3, JobKeepsAges
<1>3. ASSUME NEW r \in Run, Waits(r) PROVE Ages'
  BY <1>3, OutsideKeepsAges DEF Waits, world, visits
<1>4. ASSUME NEW r \in Run, Works(r) PROVE Ages'
  <2>1. UNCHANGED <<now, upstream, page>>
    BY <1>4 DEF Works, Starts, Builds, Mirrors, Uploads, Passes, RollsBack, Lost, Fails, world, visits
  <2>2. CASE Starts(r)
    <3>1. Truthful(live.bundle.lists)'
      BY <2>1, <2>2 DEF Starts, Ages, Truthful
    <3> QED BY <2>1, <2>2, <3>1, StartsSets, JobKeepsAges
  <2>3. CASE Builds(r) \/ Mirrors(r)
    <3>1. PICK bundle \in Bundles, j \in Jobs :
            /\ Sets(r, j) /\ j.phase = "built" /\ j.target = live
            /\ j.next = [run |-> r, app |-> job[r].sha, bundle |-> bundle]
            /\ \/ bundle = live.bundle
               \/ \E failing \in SUBSET List : bundle.lists = Assembled(failing)
      BY <2>3, BuildingSets
    <3>2. Truthful(bundle.lists) /\ j.next.bundle = bundle
      BY <3>1, AssembledIsTrue DEF Ages
    <3>3. Truthful(live.bundle.lists)'
      BY <2>1, <2>3 DEF Builds, Mirrors, Ages, Truthful
    <3>4. Truthful(j.target.bundle.lists) /\ Truthful(j.next.bundle.lists)
      BY <3>1, <3>2 DEF Ages
    <3> QED BY <2>1, <3>1, <3>3, <3>4, JobKeepsAges
  <2>4. CASE Uploads(r)
    <3>1. Truthful(job[r].next.bundle.lists) /\ Truthful(job[r].target.bundle.lists)
      BY <2>4 DEF Uploads, At, Ages
    <3>2. Truthful(live.bundle.lists)'
      BY <2>1, <2>4, <3>1 DEF Uploads, Truthful
    <3> QED BY <2>1, <2>4, <3>1, <3>2, UploadsSets, JobKeepsAges
  <2>5. CASE Passes(r) \/ RollsBack(r) \/ Lost(r) \/ Fails(r)
    <3>1. Ends(r) /\ (live' = live \/ (At(r, "uploaded") /\ live' = job[r].target))
      BY <2>5 DEF Passes, RollsBack, Lost, Fails
    <3>2. Truthful(live.bundle.lists)'
      BY <2>1, <3>1 DEF At, Ages, Truthful
    <3> QED BY <2>1, <3>1, <3>2, EndsSets, JobKeepsAges
  <2> QED BY <1>4, <2>2, <2>3, <2>4, <2>5 DEF Works
<1>5. ASSUME NEW v \in Visitor, Visits(v) PROVE Ages'
  <2>1. UNCHANGED <<now, upstream, job, live>>
    BY <1>5 DEF Visits, Opens, Loads, Polls, ClearsCache, Closes, world
  <2>2. \A w \in Visitor : page'[w] \in {page[w], live.bundle.lists, None}
    BY <1>5 DEF Visits, Opens, Loads, Polls, ClearsCache, Closes, Types
  <2>3. \A w \in Visitor : page'[w] # None => Truthful(page[w])'
    BY <2>1, <2>2 DEF Ages, Truthful
  <2> QED BY <2>1, <2>3 DEF Ages, Truthful
<1> QED BY <1>1, <1>2, <1>3, <1>4, <1>5 DEF Next

-----------------------------------------------------------------------------
(* The one job at work and what is live.                                     *)

Verified(d) == d \in past.checked \cup past.abandoned

\* How far the job of r has come with what it found live.
AtWork(r) ==
  /\ job[r].phase # "uploaded" => Verified(live)
  /\ job[r].phase \in {"building", "built"} => live.app <= job[r].sha
  /\ job[r].phase = "built" => job[r].target = live
  /\ job[r].phase \in {"built", "uploaded"} => job[r].next.run = r /\ job[r].next.app = job[r].sha
  /\ job[r].phase = "uploaded" =>
       live = job[r].next /\ Verified(job[r].target) /\ job[r].target.app <= head

OneWriter == \A q, r \in Run : status[q] = "running" /\ status[r] = "running" => q = r

Writers ==
  /\ OneWriter
  /\ live.app <= head /\ \A r \in Run : job[r].sha <= head
  /\ GroupIsFree => Verified(live)
  /\ \A r \in Run : status[r] = "running" => AtWork(r)

LEMMA WritersImply == Writers => LiveWasVerified
BY DEF Writers, Verified, LiveWasVerified

LEMMA WritersInit == Init => Writers
BY DEF Init, QueueInit, Writers, OneWriter, GroupIsFree, Verified, NewJob

\* The clock, the feeds, the commits and the visitors leave the writers alone.
LEMMA OthersKeepWriters ==
  ASSUME Types, Writers, UNCHANGED <<status, job, live, past>>, head' \in Nat, head <= head'
  PROVE  Writers'
<1>1. head \in Nat /\ live.app \in Nat
  BY PublicationAssumption DEF Types, Deployments
<1>2. \A r \in Run : job[r].sha \in Nat
  BY PublicationAssumption DEF Types, Jobs
<1>3. live.app <= head' /\ \A r \in Run : job[r].sha <= head'
  BY <1>1, <1>2 DEF Writers
<1>4. ASSUME NEW r \in Run, status[r] = "running" PROVE AtWork(r)'
  <2>1. AtWork(r)
    BY <1>4 DEF Writers
  <2>2. job[r].phase = "uploaded" => job[r].target.app <= head'
    <3> SUFFICES ASSUME job[r].phase = "uploaded" PROVE job[r].target.app <= head'
      OBVIOUS
    <3>1. job[r].target.app \in Nat /\ job[r].target.app <= head
      BY <2>1, PublicationAssumption DEF AtWork, Types, Deployments
    <3> QED BY <3>1, <1>1
  <2> QED BY <2>1, <2>2 DEF AtWork, Verified
<1> QED BY <1>3, <1>4 DEF Writers, OneWriter, GroupIsFree, Verified

\* A run that has the group and keeps it: only its job, what is live and the record change.
LEMMA WorkingKeepsWriters ==
  ASSUME Types, Writers, NEW r \in Run, status[r] = "running", NEW j \in Jobs, Sets(r, j),
         UNCHANGED <<status, head>>, j.sha = job[r].sha, AtWork(r)', live'.app <= head
  PROVE  Writers'
<1>1. job'[r] = j /\ \A q \in Run : q # r => job'[q] = job[q]
  BY DEF Types, Sets
<1>2. ~GroupIsFree'
  BY DEF GroupIsFree
<1>3. \A q \in Run : status[q] = "running" => q = r
  BY DEF Writers, OneWriter
<1> QED BY <1>1, <1>2, <1>3 DEF Writers, OneWriter

\* A run that lets the group go leaves something verified live.
LEMMA EndingKeepsWriters ==
  ASSUME Types, Writers, NEW r \in Run, Ends(r), UNCHANGED head, Verified(live)', live'.app <= head
  PROVE  Writers'
<1>1. PICK j \in Jobs : Sets(r, j) /\ j.sha = job[r].sha
  BY EndsSets
<1>2. \A q \in Run : job'[q].sha = job[q].sha
  BY <1>1 DEF Types, Sets
<1>3. \A q \in Run : status'[q] # "running"
  BY DEF Ends, Completes, Becomes, Writers, OneWriter, Types, QueueTypeOK
<1> QED BY <1>2, <1>3 DEF Writers, OneWriter, GroupIsFree

\* The group is taken only when it is free.
LEMMA QueuingKeepsWriters ==
  ASSUME Types, Writers, NEW r \in Run, Requested(r) \/ Waits(r)
  PROVE  Writers'
<1>1. UNCHANGED <<head, live, past>>
  BY DEF Requested, Waits, world
<1>2. \A q \in Run : job'[q] = job[q] \/ (q = r /\ status[q] = "absent" /\ job'[q].sha <= head)
  <2>1. CASE Requested(r)
    <3>1. PICK j \in Jobs : Sets(r, j) /\ j.sha \in 0..head
      BY <2>1, RequestedSets
    <3>2. j.sha <= head
      BY <3>1, PublicationAssumption DEF Types
    <3> QED BY <2>1, <3>1, <3>2 DEF Requested, Triggered, Sets, Types
  <2>2. CASE Waits(r)
    BY <2>2 DEF Waits
  <2> QED BY <2>1, <2>2
<1>3. \A q \in Run : status'[q] = "running" =>
        \/ status[q] = "running"
        \/ q = r /\ GroupIsFree /\ status[q] \in {"granted", "pending"}
  BY DEF Requested, Triggered, Waits, Queues, TakesTurn, GivesUp, Enters, Promoted, Rerun, Becomes,
         Types, QueueTypeOK
<1>4. \A q \in Run : status[q] = "running" => status'[q] = "running"
  BY DEF Requested, Triggered, Waits, Queues, TakesTurn, GivesUp, Enters, Promoted, Rerun, Becomes,
         Types, QueueTypeOK
<1>5. OneWriter'
  BY <1>3 DEF Writers, OneWriter, GroupIsFree
<1>6. GroupIsFree' => Verified(live)'
  BY <1>1, <1>4 DEF Writers, GroupIsFree, Verified
<1>7. ASSUME NEW q \in Run, status'[q] = "running" PROVE AtWork(q)'
  <2>1. CASE status[q] = "running"
    <3>1. AtWork(q) /\ job'[q] = job[q]
      BY <1>2, <2>1 DEF Writers
    <3> QED BY <1>1, <3>1 DEF AtWork, Verified
  <2>2. CASE status[q] # "running"
    <3>1. GroupIsFree /\ status[q] \in {"granted", "pending"}
      BY <1>3, <1>7, <2>2
    <3>2. job'[q] = job[q] /\ job[q].phase = "idle" /\ Verified(live)
      BY <1>2, <2>2, <3>1 DEF Types, Writers
    <3> QED BY <1>1, <3>2 DEF AtWork, Verified
  <2> QED BY <2>1, <2>2
<1>8. \A q \in Run : job'[q].sha <= head'
  BY <1>1, <1>2 DEF Writers
<1> QED BY <1>1, <1>5, <1>6, <1>7, <1>8 DEF Writers

LEMMA WorksKeepsWriters ==
  ASSUME Types, Writers, NEW r \in Run, Works(r)
  PROVE  Writers'
<1>1. status[r] = "running" /\ UNCHANGED head /\ AtWork(r)
  BY DEF Works, Starts, Builds, Mirrors, Uploads, Passes, RollsBack, Lost, Fails, At, world, Writers
<1>2. live.app <= head /\ job[r].sha <= head
  BY DEF Writers
<1>3. CASE Starts(r)
  <2>1. PICK j \in Jobs : Sets(r, j) /\ j.phase = "building" /\ j.sha = job[r].sha
    BY <1>3, StartsSets
  <2>2. job'[r] = j /\ UNCHANGED <<status, live, past>> /\ job[r].sha = head /\ job[r].phase = "idle"
    BY <1>3, <2>1 DEF Starts, Sets, Types, At
  <2>3. AtWork(r)'
    BY <1>1, <1>2, <2>1, <2>2 DEF AtWork, Verified
  <2> QED BY <1>1, <1>2, <2>1, <2>2, <2>3, WorkingKeepsWriters
<1>4. CASE Builds(r) \/ Mirrors(r)
  <2>1. PICK bundle \in Bundles, j \in Jobs :
          /\ Sets(r, j) /\ j.phase = "built" /\ j.sha = job[r].sha /\ j.target = live
          /\ j.next = [run |-> r, app |-> job[r].sha, bundle |-> bundle]
    BY <1>4, BuildingSets
  <2>2. job'[r] = j /\ UNCHANGED <<status, live, past>> /\ job[r].phase = "building"
    BY <1>4, <2>1 DEF Builds, Mirrors, Sets, Types, At
  <2>3. AtWork(r)'
    BY <1>1, <2>1, <2>2 DEF AtWork, Verified
  <2> QED BY <1>1, <1>2, <2>1, <2>2, <2>3, WorkingKeepsWriters
<1>5. CASE Uploads(r)
  <2>1. PICK j \in Jobs :
          /\ Sets(r, j) /\ j.phase = "uploaded" /\ j.sha = job[r].sha
          /\ j.next = job[r].next /\ j.target = job[r].target
    BY <1>5, UploadsSets
  <2>2. job'[r] = j /\ live' = job[r].next /\ job[r].phase = "built" /\ UNCHANGED status
    BY <1>5, <2>1 DEF Uploads, Sets, Types, At
  <2>3. past'.checked = past.checked /\ past'.abandoned = past.abandoned
    BY <1>5 DEF Uploads, Types, Pasts
  <2>4. job[r].next.run = r /\ job[r].next.app = job[r].sha /\ job[r].target = live /\ Verified(live)
    BY <1>1, <2>2 DEF AtWork
  <2>5. AtWork(r)'
    BY <1>1, <1>2, <2>1, <2>2, <2>3, <2>4 DEF AtWork, Verified
  <2> QED BY <1>1, <1>2, <2>1, <2>2, <2>4, <2>5, WorkingKeepsWriters
<1>6. CASE Passes(r) \/ Lost(r)
  <2>1. Verified(live)' /\ Ends(r) /\ UNCHANGED live
    BY <1>6 DEF Passes, Lost, Types, Pasts, Verified
  <2> QED BY <1>1, <1>2, <2>1, EndingKeepsWriters
<1>7. CASE RollsBack(r)
  <2>1. live' = job[r].target /\ Verified(job[r].target) /\ job[r].target.app <= head
        /\ UNCHANGED past /\ Ends(r)
    BY <1>1, <1>7 DEF RollsBack, At, AtWork
  <2> QED BY <1>1, <2>1, EndingKeepsWriters DEF Verified
<1>8. CASE Fails(r)
  <2>1. Verified(live) /\ Ends(r) /\ UNCHANGED <<live, past>>
    BY <1>1, <1>8 DEF Fails, At, AtWork
  <2> QED BY <1>1, <1>2, <2>1, EndingKeepsWriters DEF Verified
<1> QED BY <1>3, <1>4, <1>5, <1>6, <1>7, <1>8 DEF Works

LEMMA WritersNext == Types /\ Writers /\ [Next]_vars => Writers'
<1> SUFFICES ASSUME Types, Writers, [Next]_vars PROVE Writers'
  OBVIOUS
<1>1. head \in Nat
  BY PublicationAssumption DEF Types
<1>2. CASE Tick \/ Commits \/ (\E l \in List : Revises(l)) \/ UNCHANGED vars
          \/ \E v \in Visitor : Visits(v)
  <2>1. UNCHANGED <<status, job, live, past>> /\ head' \in {head, head + 1}
    BY <1>2 DEF Tick, Commits, Revises, Visits, Opens, Loads, Polls, ClearsCache, Closes, vars, world
  <2> QED BY <1>1, <2>1, OthersKeepWriters
<1>3. ASSUME NEW r \in Run, Requested(r) \/ Waits(r) PROVE Writers'
  BY <1>3, QueuingKeepsWriters
<1>4. ASSUME NEW r \in Run, Works(r) PROVE Writers'
  BY <1>4, WorksKeepsWriters
<1> QED BY <1>2, <1>3, <1>4 DEF Next

\* Only an upload and a rollback change what is live, and an upload is of a younger commit.
LEMMA StepsNeverRegress ==
  ASSUME Types, Writers, [Next]_vars, live'.app < live.app
  PROVE  \E r \in Run : At(r, "uploaded") /\ live.run = r /\ live' = job[r].target
<1>1. live.app \in Nat
  BY PublicationAssumption DEF Types, Deployments
<1>2. ~UNCHANGED live
  BY <1>1
<1>3. PICK r \in Run : Uploads(r) \/ RollsBack(r)
  BY <1>2 DEF Next, Tick, Commits, Revises, Requested, Waits, Works, Starts, Builds, Mirrors, Passes,
              Lost, Fails, Visits, Opens, Loads, Polls, ClearsCache, Closes, vars
<1>4. status[r] = "running" /\ AtWork(r)
  BY <1>3 DEF Uploads, RollsBack, At, Writers
<1>5. CASE Uploads(r)
  <2>1. live' = job[r].next /\ job[r].next.app = job[r].sha /\ live.app <= job[r].sha
    BY <1>4, <1>5 DEF Uploads, At, AtWork
  <2>2. job[r].sha \in Nat
    BY PublicationAssumption DEF Types, Jobs
  <2> QED BY <1>1, <2>1, <2>2
<1>6. CASE RollsBack(r)
  BY <1>4, <1>6 DEF RollsBack, At, AtWork
<1> QED BY <1>3, <1>5, <1>6

-----------------------------------------------------------------------------
(* The sequences.                                                            *)

\* The sequence of what a job holds is one above the live one, or its bundle is the live one.
FromLive(j) ==
  /\ j.phase = "building" => j.seq = live.bundle.seq + 1
  /\ j.phase = "built" => \/ j.next.bundle = live.bundle
                          \/ j.next.bundle.seq = live.bundle.seq + 1

\* No bundle that was kept has a sequence above this.
Above(seq) == \A d \in past.checked \cup past.abandoned : d.bundle.seq <= seq

\* What is live, and what a job would go back to, is above all that was kept.
Sequences ==
  /\ SequenceNamesOneBundle
  /\ Above(live.bundle.seq)
  /\ \A r \in Run : status[r] = "running" =>
       /\ FromLive(job[r])
       /\ job[r].phase = "uploaded" => Above(job[r].target.bundle.seq)

LEMMA SequencesInit == Init => Sequences
<1> SUFFICES ASSUME Init PROVE Sequences
  OBVIOUS
<1>1. past.checked = {live} /\ past.abandoned = {}
  BY DEF Init
<1>2. Kept = {live.bundle} /\ past.checked \cup past.abandoned = {live}
  BY <1>1 DEF Kept
<1>3. live.bundle.seq = 1
  BY DEF Init
<1>4. SequenceNamesOneBundle /\ Above(live.bundle.seq)
  BY <1>2, <1>3 DEF SequenceNamesOneBundle, Above
<1>5. \A r \in Run : status[r] # "running"
  BY DEF Init, QueueInit
<1> QED BY <1>4, <1>5 DEF Sequences

\* Sequences are numbers.
LEMMA SequenceTypes ==
  ASSUME Types
  PROVE  /\ live.bundle.seq \in Nat
         /\ \A d \in past.checked \cup past.abandoned : d.bundle.seq \in Nat
BY DEF Types, Pasts, Deployments, Bundles

\* What is live stays, nothing is kept but that, and a job that comes to work is of what is live.
LEMMA SameLiveKeepsSequences ==
  ASSUME Types, Sequences, UNCHANGED live,
         past'.checked \cup past'.abandoned \subseteq past.checked \cup past.abandoned \cup {live},
         \A r \in Run : status'[r] = "running" =>
           \/ status[r] = "running" /\ job'[r] = job[r] /\ UNCHANGED past
           \/ FromLive(job'[r]) /\ job'[r].phase # "uploaded"
  PROVE  Sequences'
<1>1. Kept' \subseteq Kept
  BY DEF Kept
<1>2. SequenceNamesOneBundle'
  BY <1>1 DEF Sequences, SequenceNamesOneBundle
<1>3. Above(live.bundle.seq)'
  BY SequenceTypes DEF Sequences, Above
<1>4. \A r \in Run : status'[r] = "running" =>
        /\ FromLive(job[r])'
        /\ job'[r].phase = "uploaded" => Above(job[r].target.bundle.seq)'
  BY DEF Sequences, FromLive, Above
<1> QED BY <1>2, <1>3, <1>4 DEF Sequences

\* An upload raises the sequence, or publishes the bundle that is live once more; what was live
\* was kept.
LEMMA UploadKeepsSequences ==
  ASSUME Types, Writers, Sequences, NEW r \in Run, Uploads(r)
  PROVE  Sequences'
<1>1. /\ status[r] = "running" /\ job[r].phase = "built" /\ live' = job[r].next
      /\ UNCHANGED <<status, past>>
  BY DEF Uploads, At
<1>2. job[r].target = live /\ Verified(live)
  BY <1>1 DEF Writers, AtWork
<1>3. /\ live'.bundle.seq \in Nat /\ live.bundle.seq \in Nat
      /\ \A d \in past.checked \cup past.abandoned : d.bundle.seq \in Nat
  <2>1. live' \in Deployments
    BY <1>1 DEF Types
  <2> QED BY <2>1, SequenceTypes DEF Deployments, Bundles
<1>4. live'.bundle = live.bundle \/ live'.bundle.seq = live.bundle.seq + 1
  BY <1>1 DEF Sequences, FromLive
<1>5. Above(live.bundle.seq)'
  BY <1>1, <1>3, <1>4 DEF Sequences, Above
<1>6. Kept' \subseteq Kept \cup {live'.bundle}
  BY <1>1 DEF Kept
<1>7. SequenceNamesOneBundle'
  <2>1. CASE live'.bundle = live.bundle
    <3>1. Kept' \subseteq Kept
      BY <1>6, <2>1 DEF Kept
    <3> QED BY <3>1 DEF Sequences, SequenceNamesOneBundle
  <2>2. CASE live'.bundle.seq = live.bundle.seq + 1
    <3>1. \A b \in Kept : b.seq # live'.bundle.seq
      BY <1>3, <2>2 DEF Sequences, Above, Kept
    <3> QED BY <1>6, <3>1 DEF Sequences, SequenceNamesOneBundle
  <2> QED BY <1>4, <2>1, <2>2
<1>8. ASSUME NEW q \in Run, status'[q] = "running"
      PROVE  FromLive(job[q])' /\ Above(job[q].target.bundle.seq)'
  <2>1. q = r
    BY <1>1, <1>8 DEF Writers, OneWriter
  <2>2. PICK j \in Jobs : Sets(r, j) /\ j.phase = "uploaded" /\ j.target = job[r].target
    BY UploadsSets
  <2>3. job'[q] = j
    BY <2>1, <2>2 DEF Sets, Types
  <2>4. Above(job[q].target.bundle.seq)'
    BY <1>1, <1>2, <2>2, <2>3 DEF Sequences, Above
  <2> QED BY <2>2, <2>3, <2>4 DEF FromLive
<1> QED BY <1>5, <1>7, <1>8 DEF Sequences

\* A rollback goes back to a deployment that was kept.
LEMMA RollbackKeepsSequences ==
  ASSUME Types, Writers, Sequences, NEW r \in Run, RollsBack(r)
  PROVE  Sequences'
<1>1. /\ status[r] = "running" /\ job[r].phase = "uploaded" /\ live' = job[r].target
      /\ UNCHANGED past /\ Ends(r)
  BY DEF RollsBack, At
<1>2. Verified(job[r].target)
  BY <1>1 DEF Writers, AtWork
<1>3. Kept' \subseteq Kept
  BY <1>1, <1>2 DEF Kept, Verified
<1>4. SequenceNamesOneBundle' /\ Above(live.bundle.seq)'
  BY <1>1, <1>3 DEF Sequences, SequenceNamesOneBundle, Above
<1>5. ASSUME NEW q \in Run PROVE status'[q] # "running"
  BY <1>1, <1>5 DEF Writers, OneWriter, Ends, Completes, Becomes, Types, QueueTypeOK
<1> QED BY <1>4, <1>5 DEF Sequences

LEMMA SequencesNext ==
  ASSUME Types, Writers, Sequences, [Next]_vars
  PROVE  Sequences'
<1>1. CASE Tick \/ Commits \/ (\E l \in List : Revises(l)) \/ UNCHANGED vars
           \/ \E v \in Visitor : Visits(v)
  <2>1. UNCHANGED <<status, job, live, past>>
    BY <1>1 DEF Tick, Commits, Revises, Visits, Opens, Loads, Polls, ClearsCache, Closes, vars
  <2> QED BY <2>1, SameLiveKeepsSequences
<1>2. ASSUME NEW r \in Run, Requested(r) PROVE Sequences'
  <2>1. PICK j \in Jobs : Sets(r, j) /\ j.phase = "idle"
    BY <1>2, RequestedSets
  <2>2. \A q \in Run : q # r => job'[q] = job[q] /\ status'[q] = status[q]
    BY <1>2, <2>1 DEF Requested, Triggered, Becomes, Types, QueueTypeOK, Sets
  <2>3. FromLive(job'[r]) /\ job'[r].phase = "idle"
    BY <2>1 DEF FromLive, Sets, Types
  <2> QED BY <1>2, <2>2, <2>3, SameLiveKeepsSequences DEF Requested
<1>3. ASSUME NEW r \in Run, Waits(r) PROVE Sequences'
  <2>1. UNCHANGED <<job, live, past>>
    BY <1>3 DEF Waits
  <2>2. \A q \in Run : status[q] # "running" => FromLive(job[q]) /\ job[q].phase # "uploaded"
    BY DEF Types, FromLive
  <2> QED BY <2>1, <2>2, SameLiveKeepsSequences
<1>4. ASSUME NEW r \in Run, Works(r) PROVE Sequences'
  <2>1. CASE Starts(r)
    <3>1. PICK j \in Jobs : Sets(r, j) /\ j.phase = "building" /\ j.seq = live.bundle.seq + 1
      BY <2>1, StartsSets
    <3>2. job'[r] = j /\ (\A q \in Run : q # r => job'[q] = job[q]) /\ FromLive(j)
      BY <3>1 DEF Sets, Types, FromLive
    <3> QED BY <2>1, <3>1, <3>2, SameLiveKeepsSequences DEF Starts
  <2>2. CASE Builds(r) \/ Mirrors(r)
    <3>1. PICK bundle \in Bundles, j \in Jobs :
            /\ Sets(r, j) /\ j.phase = "built" /\ j.next = [run |-> r, app |-> job[r].sha, bundle |-> bundle]
            /\ bundle = live.bundle \/ bundle.seq = job[r].seq
      BY <2>2, BuildingSets
    <3>2. FromLive(job[r]) /\ job[r].phase = "building" /\ UNCHANGED <<status, live, past>>
      BY <2>2 DEF Builds, Mirrors, At, Sequences
    <3>3. job'[r] = j /\ \A q \in Run : q # r => job'[q] = job[q]
      BY <3>1 DEF Sets, Types
    <3>4. FromLive(j) /\ j.phase # "uploaded"
      BY <3>1, <3>2 DEF FromLive
    <3> QED BY <3>2, <3>3, <3>4, SameLiveKeepsSequences
  <2>3. CASE Uploads(r)
    BY <2>3, UploadKeepsSequences
  <2>4. CASE Passes(r) \/ Lost(r) \/ Fails(r)
    <3>1. /\ Ends(r) /\ UNCHANGED live
          /\ past'.checked \cup past'.abandoned \subseteq past.checked \cup past.abandoned \cup {live}
      BY <2>4 DEF Passes, Lost, Fails, Types, Pasts
    <3>2. \A q \in Run : status'[q] # "running"
      BY <2>4, <3>1 DEF Passes, Lost, Fails, At, Writers, OneWriter, Ends, Completes, Becomes, Types, QueueTypeOK
    <3> QED BY <3>1, <3>2, SameLiveKeepsSequences
  <2>5. CASE RollsBack(r)
    BY <2>5, RollbackKeepsSequences
  <2> QED BY <1>4, <2>1, <2>2, <2>3, <2>4, <2>5 DEF Works
<1> QED BY <1>1, <1>2, <1>3, <1>4 DEF Next

-----------------------------------------------------------------------------
(* The theorems. *)

PublicationInv == Types /\ Ages /\ Writers

LEMMA PublicationInvHolds == Spec => []PublicationInv
<1>1. Init => PublicationInv
  BY TypesInit, AgesInit, WritersInit DEF PublicationInv
<1>2. PublicationInv /\ [Next]_vars => PublicationInv'
  BY TypesNext, AgesNext, WritersNext DEF PublicationInv
<1> QED BY <1>1, <1>2, PTL DEF Spec

\* Whatever is built, live or shown holds every list, and a job that holds an artifact holds a
\* whole deployment.
THEOREM PublicationTypeCorrect == Spec => []TypeOK
<1>1. PublicationInv => TypeOK
  BY TypesImply DEF PublicationInv
<1> QED BY <1>1, PublicationInvHolds, PTL

\* The age a copy states is true however often it is carried, mirrored or rolled back to, for
\* any lists and ceilings (carryForwardList.ts).
THEOREM StatedAgesAreTrue == Spec => []StatedAgeIsTrue
<1>1. PublicationInv => StatedAgeIsTrue
  BY AgesImply DEF PublicationInv
<1> QED BY <1>1, PublicationInvHolds, PTL

\* With no job at work, what is live passed its checks or was left by a job that was lost,
\* although runs may be run again (main.py:463-470).
THEOREM LiveIsVerified == Spec => []LiveWasVerified
<1>1. PublicationInv => LiveWasVerified
  BY WritersImply DEF PublicationInv
<1> QED BY <1>1, PublicationInvHolds, PTL

\* The app goes back to an older commit only by the rollback of the job that deployed the newer
\* one (main.py:558-561).
THEOREM AppNeverRegresses == Spec => CodeNeverRegresses
<1>1. PublicationInv /\ [Next]_vars =>
        [live'.app < live.app =>
           \E r \in Run : At(r, "uploaded") /\ live.run = r /\ live' = job[r].target]_vars
  BY StepsNeverRegress DEF PublicationInv
<1> QED BY <1>1, PublicationInvHolds, PTL DEF Spec, CodeNeverRegresses

\* A sequence stands for one bundle of those that production kept or serves, whatever jobs are
\* lost, rolled back or run again (docs/DEPLOY.md:141-142): the next release takes the sequence
\* of one that was taken back, and of no other.
THEOREM SequencesNameBundles == Spec => []SequenceNamesOneBundle
<1>1. Init => Sequences
  BY SequencesInit
<1>2. PublicationInv /\ Sequences /\ [Next]_vars => Sequences'
  BY SequencesNext DEF PublicationInv
<1>3. Sequences => SequenceNamesOneBundle
  BY DEF Sequences
<1> QED BY <1>1, <1>2, <1>3, PublicationInvHolds, PTL DEF Spec

=============================================================================
